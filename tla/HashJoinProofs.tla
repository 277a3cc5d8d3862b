--------------------------- MODULE HashJoinProofs ---------------------------
(***************************************************************************)
(* Proofs about EagerDataFrame::join, for every set of keys and every      *)
(* bound on the rows: the type invariant, the inductive invariant Inv,     *)
(* that the hash join implements the relational join and ends, and that    *)
(* filters of one side may be made before the join.                        *)
(***************************************************************************)
EXTENDS HashJoin, SequenceTheorems, FiniteSetTheorems, TLAPS

-----------------------------------------------------------------------------
(* Enumerations.                                                           *)

\* The empty sequence lists the empty set.
LEMMA ListsEmpty == Lists(<< >>, {})
  BY DEF Lists

\* A listing grows by a new element (push_back of a row seen for the first time).
LEMMA ListsAppend ==
  ASSUME NEW U, NEW s \in Seq(U), NEW S, NEW e \in U, Lists(s, S), e \notin S
  PROVE  Lists(Append(s, e), S \cup {e})
<1> DEFINE t == Append(s, e)
<1>1. Len(t) = Len(s) + 1 /\ Len(s) \in Nat
  OBVIOUS
<1>2. \A x \in 1..Len(s) : t[x] = s[x]
  OBVIOUS
<1>3. t[Len(s) + 1] = e
  OBVIOUS
<1>4. 1..Len(t) = (1..Len(s)) \cup {Len(s) + 1}
  BY <1>1
<1> HIDE DEF t
<1>5. \A x \in 1..Len(s) : t[x] \in S
  BY <1>2 DEF Lists
<1>6. {t[x] : x \in 1..Len(t)} = S \cup {e}
  BY <1>1, <1>2, <1>3, <1>4 DEF Lists
<1>7. \A x, y \in 1..Len(t) : t[x] = t[y] => x = y
  BY <1>1, <1>2, <1>3, <1>4, <1>5 DEF Lists
<1> QED
  BY <1>6, <1>7 DEF t, Lists

\* Two listings of disjoint sets, one after the other.
LEMMA ListsConcat ==
  ASSUME NEW U, NEW s \in Seq(U), NEW t \in Seq(U), NEW S, NEW T,
         Lists(s, S), Lists(t, T), S \cap T = {}
  PROVE  Lists(s \o t, S \cup T)
<1> DEFINE u == s \o t
<1>1. Len(u) = Len(s) + Len(t) /\ Len(s) \in Nat /\ Len(t) \in Nat
  OBVIOUS
<1>2. \A x \in 1..Len(s) : u[x] = s[x]
  OBVIOUS
<1>3. \A x \in 1..Len(t) : u[Len(s) + x] = t[x]
  OBVIOUS
<1>4. \A x \in 1..Len(u) : x \in 1..Len(s) \/ x - Len(s) \in 1..Len(t)
  BY <1>1
<1> HIDE DEF u
<1>5. \A x \in 1..Len(u) :
        \/ x \in 1..Len(s) /\ u[x] = s[x] /\ u[x] \in S
        \/ x - Len(s) \in 1..Len(t) /\ u[x] = t[x - Len(s)] /\ u[x] \in T
  <2> TAKE x \in 1..Len(u)
  <2>1. CASE x \in 1..Len(s)
    BY <2>1, <1>2 DEF Lists
  <2>2. CASE x - Len(s) \in 1..Len(t)
    <3>1. u[x] = t[x - Len(s)]
      BY <1>1, <1>3, <2>2
    <3> QED
      BY <3>1, <2>2 DEF Lists
  <2> QED
    BY <1>4, <2>1, <2>2
<1>6. \A e \in S : \E x \in 1..Len(u) : u[x] = e
  BY <1>1, <1>2 DEF Lists
<1>7. \A e \in T : \E x \in 1..Len(u) : u[x] = e
  <2> TAKE e \in T
  <2>1. PICK x \in 1..Len(t) : t[x] = e
    BY DEF Lists
  <2>2. Len(s) + x \in 1..Len(u)
    BY <1>1
  <2> QED
    BY <1>3, <2>1, <2>2
<1>8. {u[x] : x \in 1..Len(u)} = S \cup T
  BY <1>5, <1>6, <1>7
<1>9. \A x, y \in 1..Len(u) : u[x] = u[y] => x = y
  BY <1>1, <1>5, SMTT(30) DEF Lists
<1> QED
  BY <1>8, <1>9 DEF u, Lists

\* A listing mapped through a function that is injective on the listed set.
LEMMA ListsMap ==
  ASSUME NEW s, NEW S, NEW f, Lists(s, S), Len(s) \in Nat,
         \A d, e \in S : f[d] = f[e] => d = e
  PROVE  Lists([x \in 1..Len(s) |-> f[s[x]]], {f[e] : e \in S})
<1> DEFINE t == [x \in 1..Len(s) |-> f[s[x]]]
<1>1. Len(t) = Len(s) /\ \A x \in 1..Len(s) : t[x] = f[s[x]] /\ s[x] \in S
  BY DEF Lists
<1> HIDE DEF t
<1>2. {t[x] : x \in 1..Len(t)} = {f[e] : e \in S}
  BY <1>1 DEF Lists
<1>3. \A x, y \in 1..Len(t) : t[x] = t[y] => x = y
  BY <1>1 DEF Lists
<1> QED
  BY <1>2, <1>3 DEF t, Lists

\* A listing has a place for every member, so it is empty exactly when its set is.
LEMMA ListsNonempty ==
  ASSUME NEW s, NEW S, Lists(s, S)
  PROVE  1..Len(s) # {} <=> S # {}
<1>1. {s[x] : x \in 1..Len(s)} = S
  BY DEF Lists
<1>2. ASSUME 1..Len(s) # {} PROVE S # {}
  <2>1. PICK x \in 1..Len(s) : TRUE
    BY <1>2
  <2> QED
    BY <1>1, <2>1
<1>3. ASSUME S # {} PROVE 1..Len(s) # {}
  BY <1>1, <1>3
<1> QED
  BY <1>2, <1>3

-----------------------------------------------------------------------------
(* Rows and pairs.                                                         *)

\* The sides are sequences of at most MaxRows keys.
LEMMA Columns ==
  ASSUME NEW c \in Relational!KeyColumns
  PROVE  /\ c \in Seq(Keys \cup {NULL})
         /\ Len(c) \in 0..MaxRows
         /\ \A x \in 1..Len(c) : c[x] \in Keys \cup {NULL}
  BY MaxRowsAssumption DEF Relational!KeyColumns

\* The hashed side is never the longer one, and both are columns of keys.
LEMMA Sides ==
  ASSUME left \in Relational!KeyColumns, right \in Relational!KeyColumns
  PROVE  /\ Len(left) \in 0..MaxRows /\ Len(right) \in 0..MaxRows
         /\ Len(smaller) \in 0..MaxRows /\ Len(larger) \in 0..MaxRows
         /\ \A x \in 1..Len(smaller) : smaller[x] \in Keys \cup {NULL}
         /\ \A x \in 1..Len(larger) : larger[x] \in Keys \cup {NULL}
         /\ swapped \in BOOLEAN
         /\ swapped => smaller = left /\ larger = right
         /\ ~swapped => smaller = right /\ larger = left
  BY Columns DEF smaller, larger, swapped

\* A pair built from rows of the two sides indexes rows of left and right.
LEMMA PairType ==
  ASSUME left \in Relational!KeyColumns, right \in Relational!KeyColumns,
         NEW s \in 0..Len(smaller), NEW b \in 0..Len(larger)
  PROVE  Pair(s, b) \in (0..Len(left)) \X (0..Len(right))
  BY Sides DEF Pair

\* NoRow, the index that stands for no row, is 0 in this module.
LEMMA NoRowIsZero == NoRow = 0
  BY DEF NoRow, Relational!NoRow

\* The pairs of one bucket, or of leftover rows, are well typed.
LEMMA RowsAloneType ==
  ASSUME left \in Relational!KeyColumns, right \in Relational!KeyColumns,
         NEW rows \in Seq(1..Len(smaller))
  PROVE  SmallerRowsAlone(rows) \in Seq((0..Len(left)) \X (0..Len(right)))
<1>1. \A x \in 1..Len(rows) : rows[x] \in 0..Len(smaller)
  BY Sides
<1>2. NoRow \in 0..Len(larger)
  BY Sides, NoRowIsZero
<1>3. \A x \in 1..Len(rows) : Pair(rows[x], NoRow) \in (0..Len(left)) \X (0..Len(right))
  BY <1>1, <1>2, PairType
<1>4. Len(rows) \in Nat
  OBVIOUS
<1> QED
  BY <1>3, <1>4, IsASeq DEF SmallerRowsAlone

\* The pairs a probing row finds in its bucket index rows of both sides.
LEMMA MatchesType ==
  ASSUME left \in Relational!KeyColumns, right \in Relational!KeyColumns,
         NEW rows \in Seq(1..Len(smaller)), NEW b \in 1..Len(larger)
  PROVE  [x \in 1..Len(rows) |-> Pair(rows[x], b)] \in Seq((0..Len(left)) \X (0..Len(right)))
<1>1. \A x \in 1..Len(rows) : rows[x] \in 0..Len(smaller)
  BY Sides
<1>2. b \in 0..Len(larger)
  BY Sides
<1>3. \A x \in 1..Len(rows) : Pair(rows[x], b) \in (0..Len(left)) \X (0..Len(right))
  BY <1>1, <1>2, PairType
<1>4. Len(rows) \in Nat
  OBVIOUS
<1> QED
  BY <1>3, <1>4, IsASeq

\* The key column of a result row holds a key or null.
LEMMA KeyValueType ==
  ASSUME left \in Relational!KeyColumns, right \in Relational!KeyColumns,
         NEW p \in (0..Len(left)) \X (0..Len(right))
  PROVE  KeyValue(p) \in Keys \cup {NULL}
<1>1. p[1] # NoRow => p[1] \in 1..Len(left)
  BY NoRowIsZero, Sides
<1>2. p[2] # NoRow => p[2] \in 1..Len(right)
  BY NoRowIsZero, Sides
<1> QED
  BY <1>1, <1>2, Columns DEF KeyValue

-----------------------------------------------------------------------------
\* The sides do not change, so neither does what is defined from them alone.
LEMMA SidesFixed ==
  ASSUME [Next]_vars
  PROVE  left' = left /\ right' = right /\ how' = how
  BY DEF Next, vars, BuildNullRow, BuildKeyedRow, BuildEnds, ProbeMatch, ProbeMiss,
         ProbeEnds, Leftover, LeftoverNulls, Gather

\* The call starts in a well-typed state.
LEMMA TypeInit == Init => TypeOK
<1> SUFFICES ASSUME Init PROVE TypeOK
  OBVIOUS
<1>1. i \in 1..(MaxRows + 1)
  BY MaxRowsAssumption DEF Init
<1> QED
  BY <1>1 DEF Init, TypeOK

\* Every step of the build, probe and leftover loops keeps the state well typed.
LEMMA TypeNext == TypeOK /\ [Next]_vars => TypeOK'
<1> SUFFICES ASSUME TypeOK, [Next]_vars PROVE TypeOK'
  OBVIOUS
<1> DEFINE PairSet == (0..Len(left)) \X (0..Len(right))
<1>1. left' = left /\ right' = right /\ how' = how /\ smaller' = smaller /\ larger' = larger
  BY SidesFixed DEF smaller, larger, swapped
<1>2. /\ left \in Relational!KeyColumns
      /\ right \in Relational!KeyColumns
      /\ smaller_keys \in [Keys -> Seq(1..Len(smaller))]
      /\ null_smaller \in Seq(1..Len(smaller))
      /\ matched_keys \subseteq Keys
      /\ visited \subseteq Keys
      /\ pairs \in Seq(PairSet)
      /\ i \in 1..(MaxRows + 1)
  BY DEF TypeOK
<1>s. /\ Len(smaller) \in 0..MaxRows /\ Len(larger) \in 0..MaxRows
      /\ \A x \in 1..Len(smaller) : smaller[x] \in Keys \cup {NULL}
      /\ \A x \in 1..Len(larger) : larger[x] \in Keys \cup {NULL}
  BY <1>2, Sides
<1> DEFINE Same == UNCHANGED <<left, right, how>>
<1>3. CASE BuildNullRow
  <2>1. i \in 1..Len(smaller) /\ i + 1 \in 1..(MaxRows + 1)
    BY <1>2, <1>3, <1>s, MaxRowsAssumption DEF BuildNullRow
  <2>2. Append(null_smaller, i) \in Seq(1..Len(smaller))
    BY <1>2, <2>1
  <2> QED
    BY <1>1, <1>3, <2>1, <2>2 DEF BuildNullRow, TypeOK
<1>4. CASE BuildKeyedRow
  <2>1. i \in 1..Len(smaller) /\ i + 1 \in 1..(MaxRows + 1)
    BY <1>2, <1>4, <1>s, MaxRowsAssumption DEF BuildKeyedRow
  <2>2. smaller[i] \in Keys
    BY <1>4, <1>s, <2>1 DEF BuildKeyedRow
  <2>3. Append(smaller_keys[smaller[i]], i) \in Seq(1..Len(smaller))
    BY <1>2, <2>1, <2>2
  <2>4. smaller_keys' \in [Keys -> Seq(1..Len(smaller))]
    BY <1>2, <1>4, <2>3 DEF BuildKeyedRow
  <2> QED
    BY <1>1, <1>4, <2>1, <2>4 DEF BuildKeyedRow, TypeOK
<1>5. CASE BuildEnds
  <2>1. 1 \in 1..(MaxRows + 1)
    BY MaxRowsAssumption
  <2> QED
    BY <1>1, <1>5, <2>1 DEF BuildEnds, TypeOK
<1>6. CASE ProbeMatch
  <2>1. i \in 1..Len(larger) /\ i + 1 \in 1..(MaxRows + 1)
    BY <1>2, <1>6, <1>s, MaxRowsAssumption DEF ProbeMatch
  <2>2. larger[i] \in Keys
    BY <1>6 DEF ProbeMatch, Present
  <2>3. [x \in 1..Len(smaller_keys[larger[i]]) |-> Pair(smaller_keys[larger[i]][x], i)] \in Seq(PairSet)
    BY <1>2, <2>1, <2>2, MatchesType
  <2>4. pairs' \in Seq(PairSet)
    BY <1>2, <1>6, <2>3, ConcatProperties DEF ProbeMatch
  <2> QED
    BY <1>1, <1>6, <2>1, <2>2, <2>4 DEF ProbeMatch, TypeOK
<1>7. CASE ProbeMiss
  <2>1. i \in 1..Len(larger) /\ i + 1 \in 1..(MaxRows + 1)
    BY <1>2, <1>7, <1>s, MaxRowsAssumption DEF ProbeMiss
  <2>2. NoRow \in 0..Len(smaller) /\ i \in 0..Len(larger)
    BY <1>s, <2>1, NoRowIsZero
  <2>3. Pair(NoRow, i) \in PairSet
    BY <1>2, <2>2, PairType
  <2>4. Append(pairs, Pair(NoRow, i)) \in Seq(PairSet)
    BY <1>2, <2>3, AppendProperties
  <2>5. pairs' \in Seq(PairSet)
    BY <1>2, <1>7, <2>4 DEF ProbeMiss
  <2> QED
    BY <1>1, <1>7, <2>1, <2>5 DEF ProbeMiss, TypeOK
<1>8. CASE ProbeEnds
  BY <1>1, <1>8 DEF ProbeEnds, TypeOK
<1>9. CASE \E k \in Keys : Leftover(k)
  <2> PICK k \in Keys : Leftover(k)
    BY <1>9
  <2>1. SmallerRowsAlone(smaller_keys[k]) \in Seq(PairSet)
    BY <1>2, RowsAloneType
  <2>2. pairs \o SmallerRowsAlone(smaller_keys[k]) \in Seq(PairSet)
    BY <1>2, <2>1, ConcatProperties
  <2>3. pairs' \in Seq(PairSet)
    BY <1>2, <2>2 DEF Leftover
  <2> QED
    BY <1>1, <2>3 DEF Leftover, TypeOK
<1>10. CASE LeftoverNulls
  <2>1. SmallerRowsAlone(null_smaller) \in Seq(PairSet)
    BY <1>2, RowsAloneType
  <2>2. pairs' \in Seq(PairSet)
    BY <1>2, <1>10, <2>1, ConcatProperties DEF LeftoverNulls
  <2> QED
    BY <1>1, <1>10, <2>2 DEF LeftoverNulls, TypeOK
<1>11. CASE Gather
  <2> DEFINE Row(x) == [left |-> pairs[x][1], right |-> pairs[x][2], key |-> KeyValue(pairs[x])]
  <2> DEFINE RowSet == [left : 0..Len(left), right : 0..Len(right), key : Keys \cup {NULL}]
  <2>1. \A x \in 1..Len(pairs) : pairs[x] \in PairSet
    BY <1>2
  <2>2. \A x \in 1..Len(pairs) : KeyValue(pairs[x]) \in Keys \cup {NULL}
    BY <1>2, <2>1, KeyValueType
  <2>3. \A x \in 1..Len(pairs) : Row(x) \in RowSet
    BY <2>1, <2>2
  <2>4. Len(pairs) \in Nat
    BY <1>2
  <2>5. [x \in 1..Len(pairs) |-> Row(x)] \in Seq(RowSet)
    BY <2>3, <2>4, IsASeq
  <2> QED
    BY <1>1, <1>11, <2>5 DEF Gather, TypeOK
<1>12. CASE UNCHANGED vars
  BY <1>1, <1>12 DEF vars, TypeOK
<1> QED
  BY <1>3, <1>4, <1>5, <1>6, <1>7, <1>8, <1>9, <1>10, <1>11, <1>12 DEF Next

\* Every index the join stores is a row of the input it will be read from:
\* the gathering loops never leave the columns.
THEOREM JoinTypeCorrect == Spec => []TypeOK
  BY TypeInit, TypeNext, PTL DEF Spec

-----------------------------------------------------------------------------
\* What the definitions over the sides and the join type alone keep in a step.
LEMMA Frame ==
  ASSUME [Next]_vars
  PROVE  /\ left' = left /\ right' = right /\ how' = how
         /\ swapped' = swapped /\ smaller' = smaller /\ larger' = larger
         /\ KeepsLarger' = KeepsLarger /\ KeepsSmaller' = KeepsSmaller
         /\ \A B : ProbePairs(B)' = ProbePairs(B)
<1>1. left' = left /\ right' = right /\ how' = how
  BY SidesFixed
<1>2. swapped' = swapped /\ smaller' = smaller /\ larger' = larger
  BY <1>1 DEF swapped, smaller, larger
<1>3. KeepsLarger' = KeepsLarger /\ KeepsSmaller' = KeepsSmaller
  BY <1>1, <1>2 DEF KeepsLarger, KeepsSmaller
<1>4. ASSUME NEW B PROVE ProbePairs(B)' = ProbePairs(B)
  BY <1>2, <1>3 DEF ProbePairs, Pair
<1> QED
  BY <1>1, <1>2, <1>3, <1>4

\* Once the table is built, a bucket holds the rows with its key, once each.
LEMMA Buckets ==
  ASSUME TypeOK, TableInv, pc # "build"
  PROVE  /\ \A k \in Keys : Lists(smaller_keys[k], {s \in 1..Len(smaller) : smaller[s] = k})
         /\ Lists(null_smaller, {s \in 1..Len(smaller) : smaller[s] = NULL})
         /\ \A k \in Keys : k \in Present <=> \E s \in 1..Len(smaller) : smaller[s] = k
<1>1. \A k \in Keys : Lists(smaller_keys[k], {s \in 1..Len(smaller) : smaller[s] = k})
  BY DEF TableInv, BuiltRows
<1>2. Lists(null_smaller, {s \in 1..Len(smaller) : smaller[s] = NULL})
  BY DEF TableInv, BuiltRows
<1>3. ASSUME NEW k \in Keys
      PROVE  k \in Present <=> \E s \in 1..Len(smaller) : smaller[s] = k
  <2>1. smaller_keys[k] \in Seq(1..Len(smaller))
    BY DEF TypeOK
  <2>2. smaller_keys[k] # << >> <=> 1..Len(smaller_keys[k]) # {}
    <3>1. Len(smaller_keys[k]) \in Nat /\ (smaller_keys[k] = << >> <=> Len(smaller_keys[k]) = 0)
      BY <2>1, EmptySeq
    <3> QED
      BY <3>1
  <2>3. 1..Len(smaller_keys[k]) # {} <=> {s \in 1..Len(smaller) : smaller[s] = k} # {}
    <3>1. Lists(smaller_keys[k], {s \in 1..Len(smaller) : smaller[s] = k})
      BY <1>1
    <3> HIDE DEF smaller, Lists
    <3> QED
      BY <3>1, ListsNonempty
  <2> QED
    BY <2>2, <2>3 DEF Present
<1> QED
  BY <1>1, <1>2, <1>3

\* The empty hash table holds the rows consumed so far: none.
LEMMA TableInit == Init => TableInv
<1> SUFFICES ASSUME Init PROVE TableInv
  OBVIOUS
<1>1. BuiltRows = {}
  BY DEF Init, BuiltRows
<1> QED
  BY <1>1, ListsEmpty DEF Init, TableInv

\* Building keeps every consumed row in its bucket or in the null list, once.
LEMMA TableNext ==
  ASSUME Inv, [Next]_vars
  PROVE  TableInv'
<1>0. /\ smaller' = smaller /\ larger' = larger
      /\ i \in 1..(MaxRows + 1) /\ Len(smaller) \in Nat
      /\ smaller_keys \in [Keys -> Seq(1..Len(smaller))]
      /\ null_smaller \in Seq(1..Len(smaller))
      /\ \A x \in 1..Len(smaller) : smaller[x] \in Keys \cup {NULL}
  BY Frame, Sides DEF Inv, TypeOK
<1>1. CASE BuildNullRow
  <2>1. i \in 1..Len(smaller) /\ smaller[i] = NULL /\ smaller[i] \notin Keys
    BY <1>0, <1>1, NullIsNoKey DEF BuildNullRow
  <2>2. BuiltRows = 1..(i - 1) /\ BuiltRows' = BuiltRows \cup {i} /\ i \notin BuiltRows
    BY <1>0, <1>1 DEF BuildNullRow, BuiltRows
  <2>3. \A k \in Keys : {s \in BuiltRows' : smaller[s] = k} = {s \in BuiltRows : smaller[s] = k}
    BY <2>1, <2>2
  <2>4. {s \in BuiltRows' : smaller[s] = NULL} = {s \in BuiltRows : smaller[s] = NULL} \cup {i}
    BY <2>1, <2>2
  <2>5. Lists(Append(null_smaller, i), {s \in BuiltRows : smaller[s] = NULL} \cup {i})
    BY <1>0, <2>1, <2>2, ListsAppend DEF Inv, TableInv
  <2> QED
    BY <1>0, <1>1, <2>3, <2>4, <2>5 DEF BuildNullRow, Inv, TableInv
<1>2. CASE BuildKeyedRow
  <2>1. i \in 1..Len(smaller) /\ smaller[i] \in Keys /\ smaller[i] # NULL
    BY <1>0, <1>2 DEF BuildKeyedRow
  <2>2. BuiltRows = 1..(i - 1) /\ BuiltRows' = BuiltRows \cup {i} /\ i \notin BuiltRows
    BY <1>0, <1>2 DEF BuildKeyedRow, BuiltRows
  <2>3. \A k \in Keys : k # smaller[i] =>
          {s \in BuiltRows' : smaller[s] = k} = {s \in BuiltRows : smaller[s] = k}
    BY <2>1, <2>2
  <2>4. {s \in BuiltRows' : smaller[s] = NULL} = {s \in BuiltRows : smaller[s] = NULL}
    BY <2>1, <2>2
  <2>5. {s \in BuiltRows' : smaller[s] = smaller[i]}
          = {s \in BuiltRows : smaller[s] = smaller[i]} \cup {i}
    BY <2>1, <2>2
  <2>6. Lists(Append(smaller_keys[smaller[i]], i), {s \in BuiltRows : smaller[s] = smaller[i]} \cup {i})
    <3>1. smaller_keys[smaller[i]] \in Seq(1..Len(smaller))
      BY <1>0, <2>1
    <3>2. Lists(smaller_keys[smaller[i]], {s \in BuiltRows : smaller[s] = smaller[i]})
      BY <2>1 DEF Inv, TableInv
    <3> QED
      BY <2>1, <2>2, <3>1, <3>2, ListsAppend
  <2>7. smaller_keys' = [smaller_keys EXCEPT ![smaller[i]] = Append(@, i)] /\ null_smaller' = null_smaller
    BY <1>2 DEF BuildKeyedRow
  <2>8. ASSUME NEW k \in Keys
        PROVE  Lists(smaller_keys'[k], {s \in BuiltRows' : smaller'[s] = k})
    <3>1. CASE k = smaller[i]
      BY <1>0, <2>1, <2>5, <2>6, <2>7, <3>1
    <3>2. CASE k # smaller[i]
      BY <1>0, <2>3, <2>7, <3>2 DEF Inv, TableInv
    <3> QED
      BY <3>1, <3>2
  <2> QED
    BY <1>0, <2>4, <2>7, <2>8 DEF Inv, TableInv
<1>3. CASE BuildEnds
  <2>1. BuiltRows' = BuiltRows
    <3>1. i - 1 = Len(smaller)
      BY <1>0, <1>3 DEF BuildEnds, Inv, PhaseInv
    <3> QED
      BY <1>0, <1>3, <3>1 DEF BuildEnds, BuiltRows
  <2> QED
    BY <1>0, <1>3, <2>1 DEF BuildEnds, Inv, TableInv
<1>4. CASE ProbeMatch \/ ProbeMiss \/ ProbeEnds \/ (\E k \in Keys : Leftover(k))
           \/ LeftoverNulls \/ Gather \/ UNCHANGED vars
  <2>1. smaller_keys' = smaller_keys /\ null_smaller' = null_smaller /\ BuiltRows' = BuiltRows
    BY <1>0, <1>4 DEF ProbeMatch, ProbeMiss, ProbeEnds, Leftover, LeftoverNulls, Gather, vars, BuiltRows
  <2> QED
    BY <1>0, <2>1 DEF Inv, TableInv
<1> QED
  BY <1>1, <1>2, <1>3, <1>4 DEF Next

-----------------------------------------------------------------------------
\* How each action moves the set of probed rows.
LEMMA ProbedStep ==
  ASSUME Inv, [Next]_vars
  PROVE  /\ ProbeMatch \/ ProbeMiss =>
              /\ i \in 1..Len(larger) /\ i \notin ProbedRows
              /\ ProbedRows' = ProbedRows \cup {i}
              /\ ProbedRows = 1..(i - 1)
         /\ ~(ProbeMatch \/ ProbeMiss) => ProbedRows' = ProbedRows
<1>0. /\ smaller' = smaller /\ larger' = larger
      /\ i \in 1..(MaxRows + 1) /\ Len(larger) \in Nat
  BY Frame, Sides DEF Inv, TypeOK
<1>1. CASE BuildNullRow \/ BuildKeyedRow
  BY <1>1 DEF BuildNullRow, BuildKeyedRow, ProbedRows, ProbeMatch, ProbeMiss
<1>2. CASE BuildEnds
  BY <1>2 DEF BuildEnds, ProbedRows, ProbeMatch, ProbeMiss
<1>3. CASE ProbeMatch \/ ProbeMiss
  <2>1. pc = "probe" /\ pc' = "probe" /\ i' = i + 1 /\ i \in 1..Len(larger)
    BY <1>0, <1>3 DEF ProbeMatch, ProbeMiss
  <2>2. ProbedRows = 1..(i - 1) /\ ProbedRows' = 1..(i' - 1)
    BY <1>0, <2>1 DEF ProbedRows
  <2>3. 1..(i' - 1) = 1..(i - 1) \cup {i} /\ i \notin 1..(i - 1)
    BY <1>0, <2>1
  <2> QED
    BY <1>3, <2>1, <2>2, <2>3
<1>4. CASE ProbeEnds
  <2>1. i = Len(larger) + 1
    BY <1>0, <1>4 DEF ProbeEnds, Inv, PhaseInv
  <2> QED
    BY <1>0, <1>4, <2>1 DEF ProbeEnds, ProbedRows, ProbeMatch, ProbeMiss
<1>5. CASE (\E k \in Keys : Leftover(k)) \/ LeftoverNulls \/ Gather
  BY <1>0, <1>5 DEF Leftover, LeftoverNulls, Gather, ProbedRows, ProbeMatch, ProbeMiss
<1>6. CASE UNCHANGED vars
  <2>1. ProbedRows' = ProbedRows
    BY <1>0, <1>6 DEF vars, ProbedRows
  <2>2. ~(ProbeMatch \/ ProbeMiss)
    BY <1>0, <1>6 DEF vars, ProbeMatch, ProbeMiss
  <2> QED
    BY <2>1, <2>2
<1> QED
  BY <1>1, <1>2, <1>3, <1>4, <1>5, <1>6 DEF Next

\* No key is matched before a row has been probed.
LEMMA MatchedInit == Init => MatchedInv
<1>1. Init => matched_keys = {} /\ ProbedRows = {}
  BY DEF Init, ProbedRows
<1>2. matched_keys = {} /\ ProbedRows = {} => MatchedInv
  BY DEF MatchedInv
<1> QED
  BY <1>1, <1>2

\* Probing marks a key as matched exactly when both sides hold it.
LEMMA MatchedNext ==
  ASSUME Inv, [Next]_vars
  PROVE  MatchedInv'
<1>0. smaller' = smaller /\ larger' = larger
  BY Frame
<1> DEFINE InSmaller(k) == \E s \in 1..Len(smaller) : smaller[s] = k
<1>1. CASE ProbeMatch
  <2>1. larger[i] \in Keys /\ InSmaller(larger[i])
    <3>1. larger[i] \in Present /\ larger[i] \in Keys
      BY <1>1 DEF ProbeMatch, Present
    <3> QED
      BY <1>1, <3>1, Buckets DEF ProbeMatch, Inv
  <2>2. ProbedRows' = ProbedRows \cup {i}
    BY <1>1, ProbedStep
  <2> QED
    BY <1>0, <1>1, <2>1, <2>2 DEF ProbeMatch, Inv, MatchedInv
<1>2. CASE ProbeMiss
  <2>1. ~(larger[i] \in Keys /\ InSmaller(larger[i]))
    BY <1>2, Buckets DEF ProbeMiss, Inv
  <2>2. ProbedRows' = ProbedRows \cup {i}
    BY <1>2, ProbedStep
  <2> QED
    BY <1>0, <1>2, <2>1, <2>2 DEF ProbeMiss, Inv, MatchedInv
<1>3. CASE ~(ProbeMatch \/ ProbeMiss)
  <2>1. ProbedRows' = ProbedRows
    BY <1>3, ProbedStep
  <2>2. matched_keys' = matched_keys
    BY <1>3 DEF Next, vars, BuildNullRow, BuildKeyedRow, BuildEnds, ProbeEnds, Leftover,
                LeftoverNulls, Gather
  <2> QED
    BY <1>0, <2>1, <2>2 DEF Inv, MatchedInv
<1> QED
  BY <1>1, <1>2, <1>3

\* The loop index starts in its range and nothing has been gathered.
LEMMA PhaseInit == Init => PhaseInv
<1> SUFFICES ASSUME Init PROVE PhaseInv
  OBVIOUS
<1>1. left \in Relational!KeyColumns /\ right \in Relational!KeyColumns
  BY DEF Init
<1>2. i <= Len(smaller) + 1
  BY <1>1, Sides DEF Init
<1> QED
  BY <1>2 DEF Init, PhaseInv, LeftoversDone

\* The loop indices stay in their ranges and the leftover loop only runs for a kept side.
LEMMA PhaseNext ==
  ASSUME Inv, [Next]_vars
  PROVE  PhaseInv'
<1>0. /\ smaller' = smaller /\ larger' = larger /\ left' = left /\ right' = right
      /\ KeepsSmaller' = KeepsSmaller
      /\ i \in 1..(MaxRows + 1) /\ Len(larger) \in Nat /\ Len(smaller) \in Nat
  BY Frame, Sides DEF Inv, TypeOK
<1>1. CASE BuildNullRow \/ BuildKeyedRow
  BY <1>0, <1>1 DEF BuildNullRow, BuildKeyedRow, Inv, PhaseInv, LeftoversDone, KeyValue
<1>2. CASE BuildEnds
  BY <1>0, <1>2 DEF BuildEnds, Inv, PhaseInv, LeftoversDone
<1>3. CASE ProbeMatch \/ ProbeMiss
  BY <1>0, <1>3 DEF ProbeMatch, ProbeMiss, Inv, PhaseInv, LeftoversDone
<1>4. CASE ProbeEnds
  BY <1>0, <1>4 DEF ProbeEnds, Inv, PhaseInv, LeftoversDone
<1>5. CASE \E k \in Keys : Leftover(k)
  BY <1>0, <1>5 DEF Leftover, Inv, PhaseInv, LeftoversDone
<1>6. CASE LeftoverNulls
  BY <1>0, <1>6 DEF LeftoverNulls, Inv, PhaseInv, LeftoversDone, Present
<1>7. CASE Gather
  BY <1>0, <1>7 DEF Gather, Inv, PhaseInv, LeftoversDone, Present, KeyValue
<1>8. CASE UNCHANGED vars
  BY <1>0, <1>8 DEF vars, Inv, PhaseInv, LeftoversDone, Present, KeyValue
<1> QED
  BY <1>1, <1>2, <1>3, <1>4, <1>5, <1>6, <1>7, <1>8 DEF Next

-----------------------------------------------------------------------------
\* Different rows make different pairs, whichever side is hashed.
LEMMA PairInjective ==
  ASSUME NEW s, NEW b, NEW t, NEW c, Pair(s, b) = Pair(t, c)
  PROVE  s = t /\ b = c
  BY DEF Pair

\* The pairs one more row of the larger side contributes.
RowPairs(b) ==
  {Pair(s, b) : s \in {x \in 1..Len(smaller) : larger[b] # NULL /\ smaller[x] = larger[b]}}
  \cup (IF KeepsLarger /\ ~Relational!HasPartner(larger, b, smaller)
        THEN {Pair(NoRow, b)} ELSE {})

\* Probing one more row adds the pairs of that row and changes no other.
LEMMA ProbePairsGrow ==
  ASSUME NEW B, NEW b, b \notin B
  PROVE  /\ ProbePairs(B \cup {b}) = ProbePairs(B) \cup RowPairs(b)
         /\ ProbePairs(B) \cap RowPairs(b) = {}
<1>1. ProbePairs(B \cup {b}) \subseteq ProbePairs(B) \cup RowPairs(b)
  BY DEF ProbePairs, RowPairs
<1>2. ProbePairs(B) \subseteq ProbePairs(B \cup {b})
  BY DEF ProbePairs
<1>3. RowPairs(b) \subseteq ProbePairs(B \cup {b})
  <2>1. ASSUME NEW s \in 1..Len(smaller), larger[b] # NULL, smaller[s] = larger[b]
        PROVE  Pair(s, b) \in ProbePairs(B \cup {b})
    <3>1. <<s, b>> \in {q \in (1..Len(smaller)) \X (B \cup {b}) :
                          larger[q[2]] # NULL /\ smaller[q[1]] = larger[q[2]]}
      BY <2>1
    <3> QED
      BY <3>1 DEF ProbePairs
  <2>2. KeepsLarger /\ ~Relational!HasPartner(larger, b, smaller)
          => Pair(NoRow, b) \in ProbePairs(B \cup {b})
    BY DEF ProbePairs
  <2> QED
    BY <2>1, <2>2 DEF RowPairs
<1>4. ASSUME NEW p \in ProbePairs(B), p \in RowPairs(b) PROVE FALSE
  <2>1. \E s : p = Pair(s, b)
    BY <1>4 DEF RowPairs
  <2>2. \E t, c : p = Pair(t, c) /\ c \in B
    BY DEF ProbePairs
  <2> QED
    BY <2>1, <2>2, PairInjective
<1> QED
  BY <1>1, <1>2, <1>3, <1>4

\* Hashed rows appended alone are no pairs of the probing loop.
LEMMA AloneIsNew ==
  ASSUME TypeOK, NEW s
  PROVE  Pair(s, NoRow) \notin ProbePairs(ProbedRows)
<1>1. \A b \in ProbedRows : b # NoRow
  <2>1. i \in Nat /\ Len(larger) \in Nat
    BY Sides DEF TypeOK
  <2> QED
    BY <2>1, NoRowIsZero DEF ProbedRows
<1>2. \A p \in ProbePairs(ProbedRows) : \E t : \E c \in ProbedRows : p = Pair(t, c)
  BY DEF ProbePairs
<1> QED
  BY <1>1, <1>2, PairInjective

\* The rows of a bucket paired with one row of the other side.
LEMMA PairedLists ==
  ASSUME NEW rows, NEW S, NEW b, Lists(rows, S), Len(rows) \in Nat
  PROVE  Lists([x \in 1..Len(rows) |-> Pair(rows[x], b)], {Pair(s, b) : s \in S})
<1> DEFINE f == [s \in S |-> Pair(s, b)]
<1>1. \A d, e \in S : f[d] = f[e] => d = e
  BY PairInjective
<1>2. Lists([x \in 1..Len(rows) |-> f[rows[x]]], {f[e] : e \in S})
  <2> HIDE DEF f
  <2> QED
    BY <1>1, ListsMap
<1>3. \A x \in 1..Len(rows) : f[rows[x]] = Pair(rows[x], b)
  BY DEF Lists
<1>4. {f[e] : e \in S} = {Pair(s, b) : s \in S}
  OBVIOUS
<1>5. [x \in 1..Len(rows) |-> Pair(rows[x], b)] = [x \in 1..Len(rows) |-> f[rows[x]]]
  BY <1>3
<1> QED
  BY <1>2, <1>4, <1>5

\* Rows of the hashed side appended alone are listed once if they were.
LEMMA AloneLists ==
  ASSUME NEW rows, NEW S, Lists(rows, S), Len(rows) \in Nat
  PROVE  Lists(SmallerRowsAlone(rows), {Pair(s, NoRow) : s \in S})
  BY PairedLists DEF SmallerRowsAlone

\* No pair is owed before a row has been probed.
LEMMA PairsInit == Init => PairsInv
<1> SUFFICES ASSUME Init PROVE PairsInv
  OBVIOUS
<1>1. ProbedRows = {} /\ LeftoverRows = {} /\ pairs = << >>
  BY DEF Init, ProbedRows, LeftoverRows, LeftoversDone
<1>2. ProbePairs({}) = {}
  BY DEF ProbePairs
<1> QED
  BY <1>1, <1>2, ListsEmpty DEF PairsInv

\* Every step adds to the index pairs exactly the pairs the rows it consumes owe.
LEMMA PairsNext ==
  ASSUME Inv, [Next]_vars
  PROVE  PairsInv'
<1> DEFINE PairSet == (0..Len(left)) \X (0..Len(right))
           Alone   == {Pair(s, NoRow) : s \in LeftoverRows}
<1>0. /\ smaller' = smaller /\ larger' = larger /\ swapped' = swapped
      /\ left' = left /\ right' = right /\ how' = how
      /\ KeepsSmaller' = KeepsSmaller
      /\ \A B : ProbePairs(B)' = ProbePairs(B)
      /\ left \in Relational!KeyColumns /\ right \in Relational!KeyColumns
      /\ smaller_keys \in [Keys -> Seq(1..Len(smaller))]
      /\ null_smaller \in Seq(1..Len(smaller))
      /\ pairs \in Seq(PairSet)
  BY Frame DEF Inv, TypeOK
<1>a. Lists(pairs, ProbePairs(ProbedRows) \cup Alone)
  BY DEF Inv, PairsInv
<1>b. ASSUME NEW P, Lists(pairs', ProbePairs(ProbedRows') \cup {Pair(s, NoRow) : s \in P}),
             LeftoverRows' = P
      PROVE  PairsInv'
  BY <1>0, <1>b DEF PairsInv, Pair
<1>1. CASE BuildNullRow \/ BuildKeyedRow \/ BuildEnds
  <2>1. ProbedRows' = ProbedRows /\ pairs' = pairs
    BY <1>1, ProbedStep DEF BuildNullRow, BuildKeyedRow, BuildEnds, ProbeMatch, ProbeMiss
  <2>2. LeftoverRows' = LeftoverRows
    BY <1>0, <1>1 DEF BuildNullRow, BuildKeyedRow, BuildEnds, LeftoverRows, LeftoversDone
  <2> QED
    BY <1>a, <1>b, <2>1, <2>2
<1>2. CASE ProbeMatch \/ ProbeMiss
  <2>1. /\ ProbedRows' = ProbedRows \cup {i} /\ i \notin ProbedRows /\ i \in 1..Len(larger)
    BY <1>2, ProbedStep
  <2>2. LeftoverRows = {} /\ LeftoverRows' = LeftoverRows /\ pc = "probe"
    BY <1>0, <1>2 DEF ProbeMatch, ProbeMiss, LeftoverRows, LeftoversDone, Inv, PhaseInv
  <2>3. /\ ProbePairs(ProbedRows') = ProbePairs(ProbedRows) \cup RowPairs(i)
        /\ ProbePairs(ProbedRows) \cap RowPairs(i) = {}
    BY <2>1, ProbePairsGrow
  <2>4. Lists(pairs', ProbePairs(ProbedRows) \cup RowPairs(i))
    <3>1. CASE ProbeMatch
      <4> DEFINE bucket == smaller_keys[larger[i]]
                 rows   == {s \in 1..Len(smaller) : smaller[s] = larger[i]}
                 new    == [x \in 1..Len(bucket) |-> Pair(bucket[x], i)]
      <4>1. larger[i] \in Present /\ larger[i] \in Keys /\ larger[i] # NULL
        BY <3>1, NullIsNoKey DEF ProbeMatch, Present
      <4>2. bucket \in Seq(1..Len(smaller)) /\ Len(bucket) \in Nat
        BY <1>0, <4>1
      <4>3. Lists(bucket, rows)
        BY <2>2, <4>1, Buckets DEF Inv
      <4>4. Lists(new, {Pair(s, i) : s \in rows})
        <5> HIDE DEF bucket, rows
        <5> QED
          BY <4>2, <4>3, PairedLists, SMTT(30)
      <4>6. Relational!HasPartner(larger, i, smaller)
        BY <2>2, <4>1, Buckets DEF Inv, Relational!HasPartner
      <4>7. RowPairs(i) = {Pair(s, i) : s \in rows}
        BY <4>1, <4>6 DEF RowPairs
      <4>8. Lists(new, RowPairs(i))
        BY <4>4, <4>7
      <4>9. new \in Seq(PairSet)
        BY <1>0, <2>1, <4>2, MatchesType
      <4>10. Lists(pairs, ProbePairs(ProbedRows))
        BY <1>a, <2>2
      <4>11. pairs' = pairs \o new
        BY <3>1 DEF ProbeMatch
      <4> HIDE DEF new
      <4> QED
        BY <1>0, <2>3, <4>8, <4>9, <4>10, <4>11, ListsConcat
    <3>2. CASE ProbeMiss
      <4>1. ~Relational!HasPartner(larger, i, smaller)
        <5>1. larger[i] \in Keys \/ larger[i] = NULL
          BY <1>0, <2>1, Sides
        <5> QED
          BY <2>2, <3>2, <5>1, Buckets DEF ProbeMiss, Inv, Relational!HasPartner
      <4>2. {x \in 1..Len(smaller) : larger[i] # NULL /\ smaller[x] = larger[i]} = {}
        BY <4>1 DEF Relational!HasPartner
      <4>3. RowPairs(i) = IF KeepsLarger THEN {Pair(NoRow, i)} ELSE {}
        BY <4>1, <4>2 DEF RowPairs
      <4>4. Lists(pairs, ProbePairs(ProbedRows))
        BY <1>a, <2>2
      <4>5. Pair(NoRow, i) \in PairSet
        <5>1. NoRow \in 0..Len(smaller) /\ i \in 0..Len(larger)
          BY <1>0, <2>1, Sides, NoRowIsZero
        <5> QED
          BY <1>0, <5>1, PairType
      <4>6. CASE KeepsLarger
        BY <1>0, <2>3, <3>2, <4>3, <4>4, <4>5, <4>6, ListsAppend DEF ProbeMiss
      <4>7. CASE ~KeepsLarger
        BY <3>2, <4>3, <4>4, <4>7 DEF ProbeMiss
      <4> QED
        BY <4>6, <4>7
    <3> QED
      BY <1>2, <3>1, <3>2
  <2> QED
    BY <1>b, <2>2, <2>3, <2>4
<1>3. CASE ProbeEnds
  <2>1. ProbedRows' = ProbedRows /\ pairs' = pairs
    BY <1>3, ProbedStep DEF ProbeEnds, ProbeMatch, ProbeMiss
  <2>2. LeftoverRows' = LeftoverRows
    BY <1>0, <1>3 DEF ProbeEnds, LeftoverRows, LeftoversDone
  <2> QED
    BY <1>a, <1>b, <2>1, <2>2
<1>4. CASE \E k \in Keys : Leftover(k)
  <2> PICK k \in Keys : Leftover(k)
    BY <1>4
  <2> DEFINE rows == {s \in 1..Len(smaller) : smaller[s] = k}
  <2>1. ProbedRows' = ProbedRows
    BY ProbedStep DEF Leftover, ProbeMatch, ProbeMiss
  <2>2. /\ matched_keys' = matched_keys /\ visited' = visited \cup {k} /\ k \notin visited
        /\ pc = "leftover" /\ LeftoversDone' = LeftoversDone /\ ~LeftoversDone
    BY <1>0 DEF Leftover, LeftoversDone
  <2>3. CASE k \in matched_keys
    <3>1. LeftoverRows' = LeftoverRows
      BY <1>0, <2>2, <2>3 DEF LeftoverRows
    <3>2. pairs' = pairs
      BY <2>3 DEF Leftover
    <3> QED
      BY <1>a, <1>b, <2>1, <3>1, <3>2
  <2>4. CASE k \notin matched_keys
    <3>1. LeftoverRows' = LeftoverRows \cup rows
      BY <1>0, <2>2, <2>4 DEF LeftoverRows
    <3>2. /\ Lists(smaller_keys[k], rows) /\ Len(smaller_keys[k]) \in Nat
          /\ smaller_keys[k] \in Seq(1..Len(smaller))
      BY <1>0, <2>2, Buckets DEF Inv
    <3>3. Lists(SmallerRowsAlone(smaller_keys[k]), {Pair(s, NoRow) : s \in rows})
      BY <3>2, AloneLists
    <3>4. LeftoverRows \cap rows = {}
      BY <2>2, NullIsNoKey DEF LeftoverRows
    <3>5. (ProbePairs(ProbedRows) \cup Alone) \cap {Pair(s, NoRow) : s \in rows} = {}
      BY <3>4, AloneIsNew, PairInjective DEF Inv
    <3>6. SmallerRowsAlone(smaller_keys[k]) \in Seq(PairSet)
      BY <1>0, <3>2, RowsAloneType
    <3>7. pairs' = pairs \o SmallerRowsAlone(smaller_keys[k])
      BY <2>4 DEF Leftover
    <3>8. Lists(pairs', (ProbePairs(ProbedRows) \cup Alone) \cup {Pair(s, NoRow) : s \in rows})
      BY <1>0, <1>a, <3>3, <3>5, <3>6, <3>7, ListsConcat
    <3>9. (ProbePairs(ProbedRows) \cup Alone) \cup {Pair(s, NoRow) : s \in rows}
            = ProbePairs(ProbedRows') \cup {Pair(s, NoRow) : s \in LeftoverRows \cup rows}
      BY <2>1
    <3> QED
      BY <1>b, <3>1, <3>8, <3>9
  <2> QED
    BY <2>3, <2>4
<1>5. CASE LeftoverNulls
  <2> DEFINE rows == {s \in 1..Len(smaller) : smaller[s] = NULL}
  <2>1. ProbedRows' = ProbedRows
    BY <1>5, ProbedStep DEF LeftoverNulls, ProbeMatch, ProbeMiss
  <2>2. /\ matched_keys' = matched_keys /\ visited' = visited /\ pc = "leftover"
        /\ LeftoversDone' /\ ~LeftoversDone
    BY <1>0, <1>5 DEF LeftoverNulls, LeftoversDone, Inv, PhaseInv
  <2>3. LeftoverRows' = LeftoverRows \cup rows
    BY <1>0, <2>2 DEF LeftoverRows
  <2>4. Lists(null_smaller, rows) /\ Len(null_smaller) \in Nat
    BY <1>0, <2>2, Buckets DEF Inv
  <2>5. Lists(SmallerRowsAlone(null_smaller), {Pair(s, NoRow) : s \in rows})
    BY <2>4, AloneLists
  <2>6. LeftoverRows \cap rows = {}
    BY <2>2, NullIsNoKey DEF LeftoverRows, Inv, TypeOK
  <2>7. (ProbePairs(ProbedRows) \cup Alone) \cap {Pair(s, NoRow) : s \in rows} = {}
    BY <2>6, AloneIsNew, PairInjective DEF Inv
  <2>8. SmallerRowsAlone(null_smaller) \in Seq(PairSet)
    BY <1>0, RowsAloneType
  <2>9. pairs' = pairs \o SmallerRowsAlone(null_smaller)
    BY <1>5 DEF LeftoverNulls
  <2>10. Lists(pairs', (ProbePairs(ProbedRows) \cup Alone) \cup {Pair(s, NoRow) : s \in rows})
    BY <1>0, <1>a, <2>5, <2>7, <2>8, <2>9, ListsConcat
  <2>11. (ProbePairs(ProbedRows) \cup Alone) \cup {Pair(s, NoRow) : s \in rows}
           = ProbePairs(ProbedRows') \cup {Pair(s, NoRow) : s \in LeftoverRows \cup rows}
    BY <2>1
  <2> QED
    BY <1>b, <2>3, <2>10, <2>11
<1>6. CASE Gather \/ UNCHANGED vars
  <2>1. ProbedRows' = ProbedRows /\ pairs' = pairs
    <3>1. CASE Gather
      BY <3>1, ProbedStep DEF Gather, ProbeMatch, ProbeMiss
    <3>2. CASE UNCHANGED vars
      BY <1>0, <3>2 DEF vars, ProbedRows
    <3> QED
      BY <1>6, <3>1, <3>2
  <2>2. LeftoverRows' = LeftoverRows
    BY <1>0, <1>6 DEF Gather, vars, LeftoverRows, LeftoversDone
  <2> QED
    BY <1>a, <1>b, <2>1, <2>2
<1> QED
  BY <1>1, <1>2, <1>3, <1>4, <1>5, <1>6 DEF Next

\* At every step of the loops, every row consumed so far is in the hash table
\* or the null list exactly once, matched_keys is exactly the keys both sides
\* share so far, and the index pairs are exactly those the consumed rows owe.
THEOREM JoinInductiveInvariant == Spec => []Inv
<1>1. Init => Inv
  BY TypeInit, TableInit, MatchedInit, PairsInit, PhaseInit DEF Inv
<1>2. Inv /\ [Next]_vars => Inv'
  <2> SUFFICES ASSUME Inv, [Next]_vars PROVE Inv'
    OBVIOUS
  <2>1. TypeOK'
    BY TypeNext DEF Inv
  <2> QED
    BY <2>1, TableNext, MatchedNext, PairsNext, PhaseNext DEF Inv
<1> QED
  BY <1>1, <1>2, PTL DEF Spec

-----------------------------------------------------------------------------
\* When all loops have ended, the rows of the hashed side that were appended
\* alone are those without a partner, if the join type keeps them.
LEMMA LeftoversAtEnd ==
  ASSUME Inv, pc = "gather"
  PROVE  LeftoverRows = {s \in 1..Len(smaller) :
                           KeepsSmaller /\ ~Relational!HasPartner(smaller, s, larger)}
<1>1. ProbedRows = 1..Len(larger)
  BY DEF ProbedRows
<1>2. \A s \in 1..Len(smaller) : smaller[s] \in Keys \cup {NULL}
  BY Sides DEF Inv, TypeOK
<1>3. CASE ~KeepsSmaller
  BY <1>3 DEF LeftoverRows, LeftoversDone, Inv, PhaseInv
<1>4. CASE KeepsSmaller
  <2>1. LeftoversDone /\ Present \subseteq visited
    BY <1>4 DEF LeftoversDone, Inv, PhaseInv
  <2>2. ASSUME NEW s \in 1..Len(smaller)
        PROVE  s \in LeftoverRows <=> ~Relational!HasPartner(smaller, s, larger)
    <3>1. CASE smaller[s] = NULL
      BY <2>1, <3>1 DEF LeftoverRows, Relational!HasPartner
    <3>2. CASE smaller[s] # NULL
      <4>1. smaller[s] \in Keys /\ smaller[s] \in visited
        BY <1>2, <2>1, <3>2, Buckets DEF Inv
      <4>2. smaller[s] \in matched_keys <=> \E b \in 1..Len(larger) : larger[b] = smaller[s]
        BY <1>1, <4>1 DEF Inv, MatchedInv
      <4> QED
        BY <3>2, <4>1, <4>2 DEF LeftoverRows, Relational!HasPartner
    <3> QED
      BY <3>1, <3>2
  <2> QED
    BY <1>4, <2>2 DEF LeftoverRows
<1> QED
  BY <1>3, <1>4

\* The index pairs of the finished loops are the pairs of the relational join.
LEMMA PairsAtEnd ==
  ASSUME Inv, pc = "gather"
  PROVE  Lists(pairs, Relational!JoinPairs(left, right, how))
<1> DEFINE L == 1..Len(left)
           R == 1..Len(right)
           Alone == {s \in 1..Len(smaller) : ~Relational!HasPartner(smaller, s, larger)}
           Missed == {b \in 1..Len(larger) : ~Relational!HasPartner(larger, b, smaller)}
<1>1. ProbedRows = 1..Len(larger)
  BY DEF ProbedRows
<1>2. /\ swapped => smaller = left /\ larger = right
      /\ ~swapped => smaller = right /\ larger = left
  BY DEF smaller, larger
<1>3. LeftoverRows = {s \in 1..Len(smaller) : KeepsSmaller /\ ~Relational!HasPartner(smaller, s, larger)}
  BY LeftoversAtEnd
<1>4. how \in Relational!JoinTypes
  BY DEF Inv, TypeOK
<1>5. /\ KeepsSmaller <=> IF swapped THEN Relational!KeepsLeft(how) ELSE Relational!KeepsRight(how)
      /\ KeepsLarger <=> IF swapped THEN Relational!KeepsRight(how) ELSE Relational!KeepsLeft(how)
  BY <1>4 DEF KeepsSmaller, KeepsLarger, Relational!KeepsLeft, Relational!KeepsRight, Relational!JoinTypes
<1>6. \A s, b : Pair(s, b) = IF swapped THEN <<s, b>> ELSE <<b, s>>
  BY DEF Pair
<1>7. NoRow = Relational!NoRow
  BY DEF NoRow
<1> DEFINE Found == ProbePairs(ProbedRows) \cup {Pair(s, NoRow) : s \in LeftoverRows}
           Owed == Relational!JoinPairs(left, right, how)
<1>8. Found \subseteq Owed
  <2>1. ASSUME NEW s \in 1..Len(smaller), NEW b \in 1..Len(larger), larger[b] # NULL,
               smaller[s] = larger[b]
        PROVE  Pair(s, b) \in Owed
    BY <1>2, <1>6, <2>1 DEF Relational!JoinPairs
  <2>2. ASSUME NEW b \in 1..Len(larger), KeepsLarger, ~Relational!HasPartner(larger, b, smaller)
        PROVE  Pair(NoRow, b) \in Owed
    BY <1>2, <1>5, <1>6, <1>7, <2>2 DEF Relational!JoinPairs
  <2>3. ASSUME NEW s \in LeftoverRows PROVE Pair(s, NoRow) \in Owed
    BY <1>2, <1>3, <1>5, <1>6, <1>7 DEF Relational!JoinPairs
  <2> QED
    BY <1>1, <2>1, <2>2, <2>3 DEF ProbePairs
<1>9. Owed \subseteq Found
  <2>1. ASSUME NEW l \in L, NEW r \in R, left[l] # NULL, left[l] = right[r]
        PROVE  <<l, r>> \in Found
    <3> DEFINE s == IF swapped THEN l ELSE r
               b == IF swapped THEN r ELSE l
    <3>1. s \in 1..Len(smaller) /\ b \in 1..Len(larger) /\ larger[b] # NULL /\ smaller[s] = larger[b]
      BY <1>2, <2>1
    <3>2. <<l, r>> = Pair(s, b)
      BY <1>6
    <3>3. <<s, b>> \in {q \in (1..Len(smaller)) \X ProbedRows :
                          larger[q[2]] # NULL /\ smaller[q[1]] = larger[q[2]]}
      BY <1>1, <3>1
    <3>4. Pair(s, b) \in ProbePairs(ProbedRows)
      <4> HIDE DEF s, b
      <4> QED
        BY <3>3 DEF ProbePairs
    <3> QED
      BY <3>2, <3>4
  <2>2. ASSUME NEW l \in L, Relational!KeepsLeft(how), ~Relational!HasPartner(left, l, right)
        PROVE  <<l, Relational!NoRow>> \in Found
    <3>1. CASE swapped
      BY <1>2, <1>3, <1>5, <1>6, <1>7, <2>2, <3>1
    <3>2. CASE ~swapped
      BY <1>1, <1>2, <1>5, <1>6, <1>7, <2>2, <3>2 DEF ProbePairs
    <3> QED
      BY <3>1, <3>2
  <2>3. ASSUME NEW r \in R, Relational!KeepsRight(how), ~Relational!HasPartner(right, r, left)
        PROVE  <<Relational!NoRow, r>> \in Found
    <3>1. CASE swapped
      BY <1>1, <1>2, <1>5, <1>6, <1>7, <2>3, <3>1 DEF ProbePairs
    <3>2. CASE ~swapped
      BY <1>2, <1>3, <1>5, <1>6, <1>7, <2>3, <3>2
    <3> QED
      BY <3>1, <3>2
  <2> HIDE DEF Found
  <2> QED
    BY <2>1, <2>2, <2>3 DEF Relational!JoinPairs
<1>10. Lists(pairs, Found)
  BY DEF Inv, PairsInv
<1> QED
  BY <1>8, <1>9, <1>10

\* Gathering turns the index pairs into the rows of the relational join.
LEMMA GatherAnswers ==
  ASSUME Inv, Gather
  PROVE  Relational!Answer
<1> DEFINE Owed == Relational!JoinPairs(left, right, how)
           f == [p \in Owed |-> Relational!JoinRow(left, right, p)]
<1>1. Lists(pairs, Owed) /\ Len(pairs) \in Nat
  BY PairsAtEnd DEF Gather, Inv, TypeOK
<1>2. \A p \in Owed : p = <<p[1], p[2]>>
  BY DEF Relational!JoinPairs
<1>3. \A d, e \in Owed : f[d] = f[e] => d = e
  BY <1>2 DEF Relational!JoinRow
<1>4. Lists([x \in 1..Len(pairs) |-> f[pairs[x]]], {f[e] : e \in Owed})
  <2> HIDE DEF f, Owed
  <2> QED
    BY <1>1, <1>3, ListsMap
<1>5. {f[e] : e \in Owed} = Relational!JoinRows(left, right, how)
  BY DEF Relational!JoinRows
<1>6. ASSUME NEW p \in Owed
      PROVE  f[p] = [left |-> p[1], right |-> p[2], key |-> KeyValue(p)]
  <2>1. p[1] # Relational!NoRow \/ p[2] # Relational!NoRow
    BY NoRowIsZero DEF Relational!JoinPairs, NoRow
  <2> QED
    BY <2>1 DEF Relational!JoinRow, KeyValue, NoRow
<1>7. \A x \in 1..Len(pairs) : pairs[x] \in Owed
  BY <1>1 DEF Lists
<1>8. out' = [x \in 1..Len(pairs) |-> f[pairs[x]]]
  <2> HIDE DEF f, Owed
  <2> QED
    BY <1>6, <1>7 DEF Gather
<1>9. Relational!Lists(out', Relational!JoinRows(left, right, how))
  <2>1. Lists(out', Relational!JoinRows(left, right, how))
    <3> HIDE DEF f, Owed
    <3> QED
      BY <1>4, <1>5, <1>8
  <2>2. ASSUME NEW s, NEW S, Lists(s, S) PROVE Relational!Lists(s, S)
    BY <2>2 DEF Lists, Relational!Lists
  <2> QED
    BY <2>1, <2>2
<1> QED
  BY <1>9 DEF Gather, Relational!Answer

\* EagerDataFrame::join returns exactly the rows of the relational join, each
\* once, for every pair of key columns, every join type and whichever side the
\* code decides to hash.
THEOREM JoinIsRelational == Spec => ImplementsRelationalJoin
<1>1. Init => Relational!Init
  BY DEF Init, Relational!Init
<1>2. Inv /\ [Next]_vars => [Relational!Answer]_(Relational!vars)
  <2> SUFFICES ASSUME Inv, [Next]_vars PROVE [Relational!Answer]_(Relational!vars)
    OBVIOUS
  <2>1. CASE Gather
    BY <2>1, GatherAnswers
  <2>2. CASE ~Gather
    <3>1. left' = left /\ right' = right /\ how' = how /\ out' = out /\ (pc' = "done") = (pc = "done")
      BY <2>2 DEF Next, vars, BuildNullRow, BuildKeyedRow, BuildEnds, ProbeMatch, ProbeMiss,
             ProbeEnds, Leftover, LeftoverNulls
    <3> QED
      BY <3>1 DEF Relational!vars
  <2> QED
    BY <2>1, <2>2
<1> QED
  BY <1>1, <1>2, JoinInductiveInvariant, PTL
     DEF Spec, ImplementsRelationalJoin, Relational!Spec

-----------------------------------------------------------------------------
(* The order of the probing side.                                          *)

\* While the larger side probes, every pair is one of a row already passed.
OrderInv ==
  /\ LargerRowsInOrder
  /\ pc = "build" => pairs = << >>
  /\ pc = "probe" => \A x \in 1..Len(pairs) : LargerOf(pairs[x]) \in 1..(i - 1)

\* A pair's row of the larger side.
LEMMA LargerOfPair ==
  ASSUME NEW s, NEW b
  PROVE  LargerOf(Pair(s, b)) = b
  BY DEF LargerOf, Pair

\* Pairs appended to an ordered list leave it ordered when they are all of one
\* row b that no pair of the list is past, or all without a larger row.
LEMMA OrderAppended ==
  ASSUME NEW U, NEW s \in Seq(U), NEW t \in Seq(U), NEW b,
         pairs = s, pairs' = s \o t, swapped' = swapped, LargerRowsInOrder,
         \A z \in 1..Len(t) : LargerOf(t[z]) = b,
         \/ b = NoRow
         \/ b \in Nat /\ \A x \in 1..Len(s) : LargerOf(s[x]) \in 1..b
  PROVE  /\ LargerRowsInOrder'
         /\ \A x \in 1..Len(pairs') :
              LargerOf(pairs[x])' = b \/ \E z \in 1..Len(s) : LargerOf(pairs[x])' = LargerOf(s[z])
<1> DEFINE L(x) == LargerOf(s[x])
           N(x) == LargerOf(pairs'[x])
           m == Len(s)
           n == Len(t)
<1>1. /\ m \in Nat /\ n \in Nat /\ Len(pairs') = m + n
      /\ \A x \in 1..m : pairs'[x] = s[x]
      /\ \A x \in (m + 1)..(m + n) : pairs'[x] = t[x - m] /\ x - m \in 1..n
  BY ConcatProperties
<1>2. \A x \in 1..m : N(x) = L(x)
  BY <1>1
<1>3. \A x \in (m + 1)..(m + n) : N(x) = b
  BY <1>1
<1>4. \A x, y \in 1..m : x < y /\ L(y) # NoRow => L(x) # NoRow /\ L(x) <= L(y)
  BY DEF LargerRowsInOrder
<1>5. \/ b = NoRow
      \/ b \in Nat /\ \A x \in 1..m : L(x) \in 1..b
  OBVIOUS
<1>6. \A x : LargerOf(pairs[x])' = N(x)
  BY DEF LargerOf
<1>7. LargerRowsInOrder' <=>
        \A x, y \in 1..Len(pairs') :
          x < y /\ N(y) # NoRow => N(x) # NoRow /\ N(x) <= N(y)
  BY DEF LargerRowsInOrder, LargerOf, NoRow, Relational!NoRow
<1> HIDE DEF L, N, m, n
<1>8. \A x \in 1..(m + n) : x \in 1..m \/ x \in (m + 1)..(m + n)
  BY <1>1
<1>9. ASSUME NEW x \in 1..(m + n), NEW y \in 1..(m + n), x < y, N(y) # NoRow
      PROVE  N(x) # NoRow /\ N(x) <= N(y)
  <2>1. CASE y \in 1..m
    <3>1. x \in 1..m
      BY <1>1, <1>9, <2>1
    <3> QED
      BY <1>2, <1>4, <1>9, <2>1, <3>1
  <2>2. CASE y \in (m + 1)..(m + n)
    <3>1. N(y) = b /\ b # NoRow /\ b \in Nat /\ \A z \in 1..m : L(z) \in 1..b
      BY <1>3, <1>5, <1>9, <2>2
    <3>2. CASE x \in 1..m
      BY <1>2, <3>1, <3>2, NoRowIsZero
    <3>3. CASE x \in (m + 1)..(m + n)
      BY <1>3, <3>1, <3>3
    <3> QED
      BY <1>8, <3>2, <3>3
  <2> QED
    BY <1>8, <2>1, <2>2
<1>10. ASSUME NEW x \in 1..(m + n)
       PROVE  N(x) = b \/ \E z \in 1..m : N(x) = L(z)
  BY <1>2, <1>3, <1>8
<1>11. LargerRowsInOrder'
  BY ONLY <1>1, <1>7, <1>9
<1>12. \A x \in 1..Len(pairs') : LargerOf(pairs[x])' = b \/ \E z \in 1..m : LargerOf(pairs[x])' = L(z)
  BY ONLY <1>1, <1>6, <1>10
<1> QED
  BY ONLY <1>11, <1>12 DEF L, m

\* A call starts with no pairs.
LEMMA OrderInit == Init => OrderInv
  BY DEF Init, OrderInv, LargerRowsInOrder

\* Probing row b appends pairs of that row, which is past every earlier pair.
LEMMA OrderOfProbe ==
  ASSUME TypeOK, OrderInv, pc = "probe", pc' = "probe", i' = i + 1, swapped' = swapped,
         NEW t \in Seq((0..Len(left)) \X (0..Len(right))), pairs' = pairs \o t,
         \A z \in 1..Len(t) : LargerOf(t[z]) = i
  PROVE  OrderInv'
<1> DEFINE PairSet == (0..Len(left)) \X (0..Len(right))
<1>1. pairs \in Seq(PairSet) /\ t \in Seq(PairSet) /\ i \in Nat \ {0} /\ Len(pairs) \in Nat
  BY MaxRowsAssumption DEF TypeOK
<1>2. \A x \in 1..Len(pairs) : LargerOf(pairs[x]) \in 1..(i - 1)
  BY DEF OrderInv
<1>3. \A x \in 1..Len(pairs) : LargerOf(pairs[x]) \in 1..i
  BY <1>1, <1>2
<1>4. /\ LargerRowsInOrder'
      /\ \A x \in 1..Len(pairs') :
           LargerOf(pairs[x])' = i \/ \E z \in 1..Len(pairs) : LargerOf(pairs[x])' = LargerOf(pairs[z])
  <2> HIDE DEF PairSet
  <2>1. /\ pairs \in Seq(PairSet) /\ t \in Seq(PairSet) /\ i \in Nat
        /\ LargerRowsInOrder /\ pairs' = pairs \o t /\ swapped' = swapped
    BY <1>1 DEF OrderInv
  <2>2. (\A z \in 1..Len(t) : LargerOf(t[z]) = i)
        /\ \A x \in 1..Len(pairs) : LargerOf(pairs[x]) \in 1..i
    BY <1>3
  <2> QED
    BY ONLY <2>1, <2>2, OrderAppended, ZenonT(60)
<1>5. \A x \in 1..Len(pairs') : LargerOf(pairs[x])' \in 1..i
  <2> TAKE x \in 1..Len(pairs')
  <2> DEFINE v == LargerOf(pairs[x])'
  <2>1. v = i \/ \E z \in 1..Len(pairs) : v = LargerOf(pairs[z])
    BY <1>4
  <2> HIDE DEF v
  <2>2. v \in 1..i
    BY <1>1, <1>3, <2>1
  <2> QED
    BY <2>2 DEF v
<1>6. \A x \in 1..Len(pairs') : LargerOf(pairs[x])' \in 1..(i' - 1)
  BY <1>1, <1>5
<1> QED
  BY <1>4, <1>6 DEF OrderInv

\* After the probing, rows of the hashed side are appended alone.
LEMMA OrderOfLeftovers ==
  ASSUME TypeOK, OrderInv, pc' \notin {"build", "probe"}, swapped' = swapped,
         NEW rows \in Seq(1..Len(smaller)), pairs' = pairs \o SmallerRowsAlone(rows)
  PROVE  OrderInv'
<1> DEFINE t == SmallerRowsAlone(rows)
           PairSet == (0..Len(left)) \X (0..Len(right))
<1>1. pairs \in Seq(PairSet) /\ t \in Seq(PairSet)
  BY RowsAloneType DEF TypeOK
<1>2. \A z \in 1..Len(t) : LargerOf(t[z]) = NoRow
  BY LargerOfPair DEF SmallerRowsAlone
<1>3. LargerRowsInOrder'
  <2> HIDE DEF t, PairSet
  <2>1. pairs' = pairs \o t
    BY DEF t
  <2> QED
    BY <1>1, <1>2, <2>1, OrderAppended DEF OrderInv
<1> QED
  BY <1>3 DEF OrderInv

\* Every step keeps the rows of the probing side in their order.
LEMMA OrderNext == TypeOK /\ OrderInv /\ [Next]_vars => OrderInv'
<1> SUFFICES ASSUME TypeOK, OrderInv, [Next]_vars PROVE OrderInv'
  OBVIOUS
<1> DEFINE PairSet == (0..Len(left)) \X (0..Len(right))
<1>1. /\ swapped' = swapped
      /\ left \in Relational!KeyColumns /\ right \in Relational!KeyColumns
      /\ smaller_keys \in [Keys -> Seq(1..Len(smaller))]
      /\ null_smaller \in Seq(1..Len(smaller))
      /\ pairs \in Seq(PairSet)
      /\ i \in Nat \ {0}
  BY Frame, MaxRowsAssumption DEF TypeOK
<1>2. CASE pairs' = pairs /\ ((pc' = pc /\ i' = i) \/ pc' \notin {"build", "probe"})
  BY <1>1, <1>2 DEF OrderInv, LargerRowsInOrder, LargerOf
<1>3. CASE BuildNullRow \/ BuildKeyedRow \/ BuildEnds
  <2>1. pairs = << >> /\ pairs' = << >>
    BY <1>3 DEF OrderInv, BuildNullRow, BuildKeyedRow, BuildEnds
  <2> QED
    BY <2>1 DEF OrderInv, LargerRowsInOrder
<1>4. CASE ProbeMatch
  <2> DEFINE bucket == smaller_keys[larger[i]]
             t == [x \in 1..Len(bucket) |-> Pair(bucket[x], i)]
  <2>1. i \in 1..Len(larger) /\ larger[i] \in Keys
    BY <1>1, <1>4, Sides DEF ProbeMatch, Present
  <2>2. bucket \in Seq(1..Len(smaller))
    BY <1>1, <2>1
  <2>3. t \in Seq(PairSet)
    BY <1>1, <2>1, <2>2, MatchesType
  <2>4. \A z \in 1..Len(t) : LargerOf(t[z]) = i
    BY LargerOfPair, <2>2
  <2>5. pairs' = pairs \o t /\ pc = "probe" /\ pc' = "probe" /\ i' = i + 1
    BY <1>4 DEF ProbeMatch
  <2> HIDE DEF t
  <2> QED
    BY <1>1, <2>3, <2>4, <2>5, OrderOfProbe
<1>5. CASE ProbeMiss
  <2> DEFINE t == IF KeepsLarger THEN <<Pair(NoRow, i)>> ELSE << >>
  <2>1. i \in 1..Len(larger) /\ NoRow \in 0..Len(smaller)
    BY <1>1, <1>5, Sides, NoRowIsZero DEF ProbeMiss
  <2>2. Pair(NoRow, i) \in PairSet
    BY <1>1, <2>1, PairType
  <2>3. t \in Seq(PairSet)
    BY <2>2
  <2>4. \A z \in 1..Len(t) : LargerOf(t[z]) = i
    BY LargerOfPair
  <2>5. pc = "probe" /\ pc' = "probe" /\ i' = i + 1
    BY <1>5 DEF ProbeMiss
  <2>6. pairs' = pairs \o t
    <3>1. CASE KeepsLarger
      <4> DEFINE p == Pair(NoRow, i)
      <4>1. pairs' = Append(pairs, p) /\ t = <<p>>
        BY <1>5, <3>1 DEF ProbeMiss
      <4> HIDE DEF p, t
      <4>2. Append(pairs, p) = pairs \o <<p>>
        BY <1>1, <2>2, AppendIsConcat DEF p
      <4> QED
        BY <4>1, <4>2
    <3>2. CASE ~KeepsLarger
      <4>1. pairs' = pairs /\ t = << >>
        BY <1>5, <3>2 DEF ProbeMiss
      <4> HIDE DEF t
      <4>2. pairs \o << >> = pairs
        BY <1>1, ConcatEmptySeq
      <4> QED
        BY <4>1, <4>2
    <3> QED
      BY <3>1, <3>2
  <2> HIDE DEF t
  <2> QED
    BY <1>1, <2>3, <2>4, <2>5, <2>6, OrderOfProbe
<1>6. CASE ProbeEnds \/ Gather \/ UNCHANGED vars
  BY <1>2, <1>6 DEF ProbeEnds, Gather, vars
<1>7. CASE \E k \in Keys : Leftover(k)
  <2> PICK k \in Keys : Leftover(k)
    BY <1>7
  <2>1. CASE k \in matched_keys
    BY <1>2, <2>1 DEF Leftover
  <2>2. CASE k \notin matched_keys
    <3>1. /\ pairs' = pairs \o SmallerRowsAlone(smaller_keys[k])
          /\ pc' \notin {"build", "probe"}
          /\ smaller_keys[k] \in Seq(1..Len(smaller))
      BY <1>1, <2>2 DEF Leftover
    <3> QED
      BY <1>1, <3>1, OrderOfLeftovers
  <2> QED
    BY <2>1, <2>2
<1>8. CASE LeftoverNulls
  <2>1. pairs' = pairs \o SmallerRowsAlone(null_smaller) /\ pc' \notin {"build", "probe"}
    BY <1>8 DEF LeftoverNulls
  <2> QED
    BY <1>1, <2>1, OrderOfLeftovers
<1> QED
  BY <1>3, <1>4, <1>5, <1>6, <1>7, <1>8 DEF Next

\* The rows of the probing input come out of EagerDataFrame::join in the order
\* they went in, each run of matches before the next row, and the rows only the
\* hashed input has follow them.
THEOREM JoinKeepsLargerOrder == Spec => []LargerRowsInOrder
<1>1. Init => TypeOK /\ OrderInv
  BY TypeInit, OrderInit
<1>2. TypeOK /\ OrderInv /\ [Next]_vars => TypeOK' /\ OrderInv'
  BY TypeNext, OrderNext
<1>3. OrderInv => LargerRowsInOrder
  BY DEF OrderInv
<1> QED
  BY <1>1, <1>2, <1>3, PTL DEF Spec

-----------------------------------------------------------------------------
(* Filters below a join.                                                   *)

\* The key column of the rows a filter keeps, and a row of the join over it as a
\* row of the join over all rows.
KeptKeys(c, kept) == [x \in 1..Len(kept) |-> c[kept[x]]]
OfKeptLeft(kept, row)  == [left |-> kept[row.left], right |-> row.right, key |-> row.key]
OfKeptRight(kept, row) == [left |-> row.left, right |-> kept[row.right], key |-> row.key]

\* A listing of row numbers, as the facts below use it.
LEMMA KeptListing ==
  ASSUME NEW n \in Nat, NEW S \in SUBSET (1..n), NEW kept \in Seq(S), Lists(kept, S)
  PROVE  /\ Len(kept) \in Nat
         /\ \A x \in 1..Len(kept) : kept[x] \in S /\ kept[x] \in 1..n /\ kept[x] # NoRow
         /\ \A s \in S : \E x \in 1..Len(kept) : kept[x] = s
         /\ \A x, y \in 1..Len(kept) : kept[x] = kept[y] => x = y
<1>1. Len(kept) \in Nat /\ \A x \in 1..Len(kept) : kept[x] \in S
  OBVIOUS
<1>2. \A s \in S : s \in 1..n /\ s # NoRow
  BY NoRowIsZero
<1>3. {kept[x] : x \in 1..Len(kept)} = S
  BY DEF Lists
<1>4. \A s \in S : \E x \in 1..Len(kept) : kept[x] = s
  BY <1>3
<1> QED
  BY <1>1, <1>2, <1>4 DEF Lists

\* A join that keeps no partnerless right row, in terms of its rows.
LEMMA RowsOfLeftJoin ==
  ASSUME NEW R, NEW l \in Seq(R), NEW r \in Seq(R), NEW h, ~Relational!KeepsRight(h)
  PROVE  \A row : row \in Relational!JoinRows(l, r, h) <=>
           \E a \in 1..Len(l) : \E b \in (1..Len(r)) \cup {NoRow} :
             /\ row = [left |-> a, right |-> b, key |-> l[a]]
             /\ IF b = NoRow THEN Relational!KeepsLeft(h) /\ ~Relational!HasPartner(l, a, r)
                ELSE l[a] # NULL /\ l[a] = r[b]
<1>1. \A a \in 1..Len(l) : a # NoRow
  BY NoRowIsZero
<1>2. \A b \in 1..Len(r) : b # NoRow
  BY NoRowIsZero
<1>3. \A p : p \in Relational!JoinPairs(l, r, h) <=>
         \E a \in 1..Len(l) : \E b \in (1..Len(r)) \cup {NoRow} :
           /\ p = <<a, b>>
           /\ IF b = NoRow THEN Relational!KeepsLeft(h) /\ ~Relational!HasPartner(l, a, r)
              ELSE l[a] # NULL /\ l[a] = r[b]
  <2>1. Relational!JoinPairs(l, r, h) =
          {p \in (1..Len(l)) \X (1..Len(r)) : l[p[1]] # NULL /\ l[p[1]] = r[p[2]]}
          \cup {<<a, NoRow>> : a \in {x \in 1..Len(l) : Relational!KeepsLeft(h) /\ ~Relational!HasPartner(l, x, r)}}
    BY DEF Relational!JoinPairs, NoRow
  <2>2. ASSUME NEW a \in 1..Len(l), NEW b \in (1..Len(r)) \cup {NoRow},
               IF b = NoRow THEN Relational!KeepsLeft(h) /\ ~Relational!HasPartner(l, a, r)
               ELSE l[a] # NULL /\ l[a] = r[b]
        PROVE  <<a, b>> \in Relational!JoinPairs(l, r, h)
    BY <2>1, <2>2
  <2>3. ASSUME NEW p \in Relational!JoinPairs(l, r, h)
        PROVE  \E a \in 1..Len(l) : \E b \in (1..Len(r)) \cup {NoRow} :
                 /\ p = <<a, b>>
                 /\ IF b = NoRow THEN Relational!KeepsLeft(h) /\ ~Relational!HasPartner(l, a, r)
                    ELSE l[a] # NULL /\ l[a] = r[b]
    <3>1. CASE p \in (1..Len(l)) \X (1..Len(r)) /\ l[p[1]] # NULL /\ l[p[1]] = r[p[2]]
      BY <1>2, <3>1
    <3>2. CASE \E a \in 1..Len(l) : p = <<a, NoRow>> /\ Relational!KeepsLeft(h) /\ ~Relational!HasPartner(l, a, r)
      BY <3>2
    <3> QED
      BY <2>1, <3>1, <3>2
  <2> QED
    BY <2>2, <2>3
<1>4. \A a \in 1..Len(l) : \A b :
         Relational!JoinRow(l, r, <<a, b>>) = [left |-> a, right |-> b, key |-> l[a]]
  BY <1>1 DEF Relational!JoinRow, NoRow
<1>5. ASSUME NEW row
      PROVE  row \in Relational!JoinRows(l, r, h) <=>
               \E p \in Relational!JoinPairs(l, r, h) : row = Relational!JoinRow(l, r, p)
  BY DEF Relational!JoinRows
<1>6. ASSUME NEW row, NEW p \in Relational!JoinPairs(l, r, h), row = Relational!JoinRow(l, r, p)
      PROVE  \E a \in 1..Len(l) : \E b \in (1..Len(r)) \cup {NoRow} :
               /\ row = [left |-> a, right |-> b, key |-> l[a]]
               /\ IF b = NoRow THEN Relational!KeepsLeft(h) /\ ~Relational!HasPartner(l, a, r)
                  ELSE l[a] # NULL /\ l[a] = r[b]
  <2>1. PICK a \in 1..Len(l), b \in (1..Len(r)) \cup {NoRow} :
          /\ p = <<a, b>>
          /\ IF b = NoRow THEN Relational!KeepsLeft(h) /\ ~Relational!HasPartner(l, a, r)
             ELSE l[a] # NULL /\ l[a] = r[b]
    BY <1>3, <1>6
  <2>2. row = [left |-> a, right |-> b, key |-> l[a]]
    BY <1>4, <1>6, <2>1
  <2> QED
    BY <2>1, <2>2
<1>7. ASSUME NEW row, NEW a \in 1..Len(l), NEW b \in (1..Len(r)) \cup {NoRow},
             row = [left |-> a, right |-> b, key |-> l[a]],
             IF b = NoRow THEN Relational!KeepsLeft(h) /\ ~Relational!HasPartner(l, a, r)
             ELSE l[a] # NULL /\ l[a] = r[b]
      PROVE  \E p \in Relational!JoinPairs(l, r, h) : row = Relational!JoinRow(l, r, p)
  <2>1. <<a, b>> \in Relational!JoinPairs(l, r, h)
    BY <1>3, <1>7
  <2>2. row = Relational!JoinRow(l, r, <<a, b>>)
    BY <1>4, <1>7
  <2> QED
    BY <2>1, <2>2
<1> QED
  BY <1>5, <1>6, <1>7

\* A filter of the left rows gives the same rows above and below a join that keeps
\* no partnerless right row, each as often: what PredicatePushdown into the left
\* side relies on, also where the join type is not the one it asks for.
THEOREM FilterGoesBelowJoinLeft ==
  ASSUME NEW R, NEW l \in Seq(R), NEW r \in Seq(R), NEW h, ~Relational!KeepsRight(h),
         NEW S \in SUBSET (1..Len(l)), NEW kept \in Seq(S), Lists(kept, S),
         NEW rows, Len(rows) \in Nat, Lists(rows, Relational!JoinRows(KeptKeys(l, kept), r, h))
  PROVE  Lists([x \in 1..Len(rows) |-> OfKeptLeft(kept, rows[x])],
               {row \in Relational!JoinRows(l, r, h) : row.left \in S})
<1> DEFINE B == KeptKeys(l, kept)
           Below == Relational!JoinRows(B, r, h)
           f == [row \in Below |-> OfKeptLeft(kept, row)]
<1>1. /\ Len(kept) \in Nat
      /\ \A x \in 1..Len(kept) : kept[x] \in S /\ kept[x] \in 1..Len(l) /\ kept[x] # NoRow
      /\ \A s \in S : \E x \in 1..Len(kept) : kept[x] = s
      /\ \A x, y \in 1..Len(kept) : kept[x] = kept[y] => x = y
  <2>1. Len(l) \in Nat
    OBVIOUS
  <2> QED
    BY <2>1, KeptListing
<1>2. B \in Seq(R) /\ Len(B) = Len(kept) /\ \A x \in 1..Len(kept) : B[x] = l[kept[x]]
  <2>1. \A x \in 1..Len(kept) : l[kept[x]] \in R
    BY <1>1
  <2> QED
    BY <1>1, <2>1 DEF KeptKeys
<1> HIDE DEF B
<1>3. \A x \in 1..Len(kept) : Relational!HasPartner(B, x, r) <=> Relational!HasPartner(l, kept[x], r)
  BY <1>2 DEF Relational!HasPartner
<1>4. \A row : row \in Below <=>
         \E a \in 1..Len(kept) : \E b \in (1..Len(r)) \cup {NoRow} :
           /\ row = [left |-> a, right |-> b, key |-> B[a]]
           /\ IF b = NoRow THEN Relational!KeepsLeft(h) /\ ~Relational!HasPartner(B, a, r)
              ELSE B[a] # NULL /\ B[a] = r[b]
  BY <1>2, RowsOfLeftJoin
<1>5. \A row : row \in Relational!JoinRows(l, r, h) <=>
         \E a \in 1..Len(l) : \E b \in (1..Len(r)) \cup {NoRow} :
           /\ row = [left |-> a, right |-> b, key |-> l[a]]
           /\ IF b = NoRow THEN Relational!KeepsLeft(h) /\ ~Relational!HasPartner(l, a, r)
              ELSE l[a] # NULL /\ l[a] = r[b]
  BY RowsOfLeftJoin
<1> HIDE DEF Below
<1>6. ASSUME NEW row \in Below
      PROVE  f[row] \in Relational!JoinRows(l, r, h) /\ f[row].left \in S
  <2>1. PICK a \in 1..Len(kept), b \in (1..Len(r)) \cup {NoRow} :
          /\ row = [left |-> a, right |-> b, key |-> B[a]]
          /\ IF b = NoRow THEN Relational!KeepsLeft(h) /\ ~Relational!HasPartner(B, a, r)
             ELSE B[a] # NULL /\ B[a] = r[b]
    BY <1>4
  <2>2. f[row] = [left |-> kept[a], right |-> b, key |-> l[kept[a]]]
    BY <1>2, <2>1 DEF OfKeptLeft
  <2>3. IF b = NoRow THEN Relational!KeepsLeft(h) /\ ~Relational!HasPartner(l, kept[a], r)
        ELSE l[kept[a]] # NULL /\ l[kept[a]] = r[b]
    BY <1>2, <1>3, <2>1
  <2> QED
    BY <1>1, <1>5, <2>2, <2>3
<1>7. ASSUME NEW row \in Relational!JoinRows(l, r, h), row.left \in S
      PROVE  \E e \in Below : row = f[e]
  <2>1. PICK a \in 1..Len(l), b \in (1..Len(r)) \cup {NoRow} :
          /\ row = [left |-> a, right |-> b, key |-> l[a]]
          /\ IF b = NoRow THEN Relational!KeepsLeft(h) /\ ~Relational!HasPartner(l, a, r)
             ELSE l[a] # NULL /\ l[a] = r[b]
    BY <1>5
  <2>2. PICK x \in 1..Len(kept) : kept[x] = a
    BY <1>1, <1>7, <2>1
  <2> DEFINE e == [left |-> x, right |-> b, key |-> B[x]]
  <2>3. IF b = NoRow THEN Relational!KeepsLeft(h) /\ ~Relational!HasPartner(B, x, r)
        ELSE B[x] # NULL /\ B[x] = r[b]
    BY <1>2, <1>3, <2>1, <2>2
  <2>4. e \in Below
    BY <1>4, <2>3
  <2>5. f[e] = row
    BY <1>2, <2>1, <2>2, <2>4 DEF OfKeptLeft
  <2> QED
    BY <2>4, <2>5
<1>8. ASSUME NEW d \in Below, NEW e \in Below, f[d] = f[e] PROVE d = e
  <2>1. PICK a \in 1..Len(kept), b \in (1..Len(r)) \cup {NoRow} :
          d = [left |-> a, right |-> b, key |-> B[a]]
    BY <1>4
  <2>2. PICK a2 \in 1..Len(kept), b2 \in (1..Len(r)) \cup {NoRow} :
          e = [left |-> a2, right |-> b2, key |-> B[a2]]
    BY <1>4
  <2>3. kept[a] = kept[a2] /\ b = b2
    BY <1>8, <2>1, <2>2 DEF OfKeptLeft
  <2> QED
    BY <1>1, <2>1, <2>2, <2>3
<1>9. /\ \A x \in 1..Len(rows) : rows[x] \in Below
      /\ \A e \in Below : \E x \in 1..Len(rows) : rows[x] = e
      /\ \A x, y \in 1..Len(rows) : rows[x] = rows[y] => x = y
  <2>1. Lists(rows, Below)
    BY DEF Below, B
  <2> QED
    BY <2>1 DEF Lists
<1> DEFINE mapped == [x \in 1..Len(rows) |-> OfKeptLeft(kept, rows[x])]
<1>10. Len(mapped) = Len(rows) /\ \A x \in 1..Len(rows) : mapped[x] = f[rows[x]]
  BY <1>9
<1> HIDE DEF mapped, f
<1>11. {mapped[x] : x \in 1..Len(mapped)} = {row \in Relational!JoinRows(l, r, h) : row.left \in S}
  <2>1. \A x \in 1..Len(mapped) : mapped[x] \in Relational!JoinRows(l, r, h) /\ mapped[x].left \in S
    BY <1>6, <1>9, <1>10
  <2>2. \A row \in Relational!JoinRows(l, r, h) : row.left \in S => \E x \in 1..Len(mapped) : mapped[x] = row
    BY <1>7, <1>9, <1>10
  <2> QED
    BY <2>1, <2>2
<1>12. \A x, y \in 1..Len(mapped) : mapped[x] = mapped[y] => x = y
  BY <1>8, <1>9, <1>10
<1> QED
  BY <1>11, <1>12 DEF Lists, mapped

\* A join that keeps no partnerless left row, in terms of its rows.
LEMMA RowsOfRightJoin ==
  ASSUME NEW R, NEW l \in Seq(R), NEW r \in Seq(R), NEW h, ~Relational!KeepsLeft(h)
  PROVE  \A row : row \in Relational!JoinRows(l, r, h) <=>
           \E a \in 1..Len(r) : \E b \in (1..Len(l)) \cup {NoRow} :
             /\ row = [left |-> b, right |-> a, key |-> r[a]]
             /\ IF b = NoRow THEN Relational!KeepsRight(h) /\ ~Relational!HasPartner(r, a, l)
                ELSE r[a] # NULL /\ r[a] = l[b]
<1>1. \A a \in 1..Len(r) : a # NoRow
  BY NoRowIsZero
<1>2. \A b \in 1..Len(l) : b # NoRow
  BY NoRowIsZero
<1>3. \A p : p \in Relational!JoinPairs(l, r, h) <=>
         \E a \in 1..Len(r) : \E b \in (1..Len(l)) \cup {NoRow} :
           /\ p = <<b, a>>
           /\ IF b = NoRow THEN Relational!KeepsRight(h) /\ ~Relational!HasPartner(r, a, l)
              ELSE r[a] # NULL /\ r[a] = l[b]
  <2>1. Relational!JoinPairs(l, r, h) =
          {p \in (1..Len(l)) \X (1..Len(r)) : l[p[1]] # NULL /\ l[p[1]] = r[p[2]]}
          \cup {<<NoRow, a>> : a \in {x \in 1..Len(r) : Relational!KeepsRight(h) /\ ~Relational!HasPartner(r, x, l)}}
    BY DEF Relational!JoinPairs, NoRow
  <2>2. ASSUME NEW a \in 1..Len(r), NEW b \in (1..Len(l)) \cup {NoRow},
               IF b = NoRow THEN Relational!KeepsRight(h) /\ ~Relational!HasPartner(r, a, l)
               ELSE r[a] # NULL /\ r[a] = l[b]
        PROVE  <<b, a>> \in Relational!JoinPairs(l, r, h)
    BY <2>1, <2>2
  <2>3. ASSUME NEW p \in Relational!JoinPairs(l, r, h)
        PROVE  \E a \in 1..Len(r) : \E b \in (1..Len(l)) \cup {NoRow} :
                 /\ p = <<b, a>>
                 /\ IF b = NoRow THEN Relational!KeepsRight(h) /\ ~Relational!HasPartner(r, a, l)
                    ELSE r[a] # NULL /\ r[a] = l[b]
    <3>1. CASE p \in (1..Len(l)) \X (1..Len(r)) /\ l[p[1]] # NULL /\ l[p[1]] = r[p[2]]
      BY <1>2, <3>1
    <3>2. CASE \E a \in 1..Len(r) : p = <<NoRow, a>> /\ Relational!KeepsRight(h) /\ ~Relational!HasPartner(r, a, l)
      BY <3>2
    <3> QED
      BY <2>1, <3>1, <3>2
  <2> QED
    BY <2>2, <2>3
<1>4. \A a \in 1..Len(r) : \A b \in (1..Len(l)) \cup {NoRow} : b = NoRow \/ r[a] = l[b] =>
         Relational!JoinRow(l, r, <<b, a>>) = [left |-> b, right |-> a, key |-> r[a]]
  BY <1>2 DEF Relational!JoinRow, NoRow
<1>5. ASSUME NEW row
      PROVE  row \in Relational!JoinRows(l, r, h) <=>
               \E p \in Relational!JoinPairs(l, r, h) : row = Relational!JoinRow(l, r, p)
  BY DEF Relational!JoinRows
<1>6. ASSUME NEW row, NEW p \in Relational!JoinPairs(l, r, h), row = Relational!JoinRow(l, r, p)
      PROVE  \E a \in 1..Len(r) : \E b \in (1..Len(l)) \cup {NoRow} :
               /\ row = [left |-> b, right |-> a, key |-> r[a]]
               /\ IF b = NoRow THEN Relational!KeepsRight(h) /\ ~Relational!HasPartner(r, a, l)
                  ELSE r[a] # NULL /\ r[a] = l[b]
  <2>1. PICK a \in 1..Len(r), b \in (1..Len(l)) \cup {NoRow} :
          /\ p = <<b, a>>
          /\ IF b = NoRow THEN Relational!KeepsRight(h) /\ ~Relational!HasPartner(r, a, l)
             ELSE r[a] # NULL /\ r[a] = l[b]
    BY <1>3, <1>6
  <2>2. row = [left |-> b, right |-> a, key |-> r[a]]
    BY <1>4, <1>6, <2>1
  <2> QED
    BY <2>1, <2>2
<1>7. ASSUME NEW row, NEW a \in 1..Len(r), NEW b \in (1..Len(l)) \cup {NoRow},
             row = [left |-> b, right |-> a, key |-> r[a]],
             IF b = NoRow THEN Relational!KeepsRight(h) /\ ~Relational!HasPartner(r, a, l)
             ELSE r[a] # NULL /\ r[a] = l[b]
      PROVE  \E p \in Relational!JoinPairs(l, r, h) : row = Relational!JoinRow(l, r, p)
  <2>1. <<b, a>> \in Relational!JoinPairs(l, r, h)
    BY <1>3, <1>7
  <2>2. row = Relational!JoinRow(l, r, <<b, a>>)
    BY <1>4, <1>7
  <2> QED
    BY <2>1, <2>2
<1> QED
  BY <1>5, <1>6, <1>7

\* A filter of the right rows gives the same rows above and below a join that keeps
\* no partnerless left row, each as often: what PredicatePushdown into the right
\* side relies on, also where the join type is not the one it asks for.
THEOREM FilterGoesBelowJoinRight ==
  ASSUME NEW R, NEW l \in Seq(R), NEW r \in Seq(R), NEW h, ~Relational!KeepsLeft(h),
         NEW S \in SUBSET (1..Len(r)), NEW kept \in Seq(S), Lists(kept, S),
         NEW rows, Len(rows) \in Nat, Lists(rows, Relational!JoinRows(l, KeptKeys(r, kept), h))
  PROVE  Lists([x \in 1..Len(rows) |-> OfKeptRight(kept, rows[x])],
               {row \in Relational!JoinRows(l, r, h) : row.right \in S})
<1> DEFINE B == KeptKeys(r, kept)
           Below == Relational!JoinRows(l, B, h)
           f == [row \in Below |-> OfKeptRight(kept, row)]
<1>1. /\ Len(kept) \in Nat
      /\ \A x \in 1..Len(kept) : kept[x] \in S /\ kept[x] \in 1..Len(r) /\ kept[x] # NoRow
      /\ \A s \in S : \E x \in 1..Len(kept) : kept[x] = s
      /\ \A x, y \in 1..Len(kept) : kept[x] = kept[y] => x = y
  <2>1. Len(r) \in Nat
    OBVIOUS
  <2> QED
    BY <2>1, KeptListing
<1>2. B \in Seq(R) /\ Len(B) = Len(kept) /\ \A x \in 1..Len(kept) : B[x] = r[kept[x]]
  <2>1. \A x \in 1..Len(kept) : r[kept[x]] \in R
    BY <1>1
  <2> QED
    BY <1>1, <2>1 DEF KeptKeys
<1> HIDE DEF B
<1>3. \A x \in 1..Len(kept) : Relational!HasPartner(B, x, l) <=> Relational!HasPartner(r, kept[x], l)
  BY <1>2 DEF Relational!HasPartner
<1>4. \A row : row \in Below <=>
         \E a \in 1..Len(kept) : \E b \in (1..Len(l)) \cup {NoRow} :
           /\ row = [left |-> b, right |-> a, key |-> B[a]]
           /\ IF b = NoRow THEN Relational!KeepsRight(h) /\ ~Relational!HasPartner(B, a, l)
              ELSE B[a] # NULL /\ B[a] = l[b]
  BY <1>2, RowsOfRightJoin
<1>5. \A row : row \in Relational!JoinRows(l, r, h) <=>
         \E a \in 1..Len(r) : \E b \in (1..Len(l)) \cup {NoRow} :
           /\ row = [left |-> b, right |-> a, key |-> r[a]]
           /\ IF b = NoRow THEN Relational!KeepsRight(h) /\ ~Relational!HasPartner(r, a, l)
              ELSE r[a] # NULL /\ r[a] = l[b]
  BY RowsOfRightJoin
<1> HIDE DEF Below
<1>6. ASSUME NEW row \in Below
      PROVE  f[row] \in Relational!JoinRows(l, r, h) /\ f[row].right \in S
  <2>1. PICK a \in 1..Len(kept), b \in (1..Len(l)) \cup {NoRow} :
          /\ row = [left |-> b, right |-> a, key |-> B[a]]
          /\ IF b = NoRow THEN Relational!KeepsRight(h) /\ ~Relational!HasPartner(B, a, l)
             ELSE B[a] # NULL /\ B[a] = l[b]
    BY <1>4
  <2>2. f[row] = [left |-> b, right |-> kept[a], key |-> r[kept[a]]]
    BY <1>2, <2>1 DEF OfKeptRight
  <2>3. IF b = NoRow THEN Relational!KeepsRight(h) /\ ~Relational!HasPartner(r, kept[a], l)
        ELSE r[kept[a]] # NULL /\ r[kept[a]] = l[b]
    BY <1>2, <1>3, <2>1
  <2> QED
    BY <1>1, <1>5, <2>2, <2>3
<1>7. ASSUME NEW row \in Relational!JoinRows(l, r, h), row.right \in S
      PROVE  \E e \in Below : row = f[e]
  <2>1. PICK a \in 1..Len(r), b \in (1..Len(l)) \cup {NoRow} :
          /\ row = [left |-> b, right |-> a, key |-> r[a]]
          /\ IF b = NoRow THEN Relational!KeepsRight(h) /\ ~Relational!HasPartner(r, a, l)
             ELSE r[a] # NULL /\ r[a] = l[b]
    BY <1>5
  <2>2. PICK x \in 1..Len(kept) : kept[x] = a
    BY <1>1, <1>7, <2>1
  <2> DEFINE e == [left |-> b, right |-> x, key |-> B[x]]
  <2>3. IF b = NoRow THEN Relational!KeepsRight(h) /\ ~Relational!HasPartner(B, x, l)
        ELSE B[x] # NULL /\ B[x] = l[b]
    BY <1>2, <1>3, <2>1, <2>2
  <2>4. e \in Below
    BY <1>4, <2>3
  <2>5. f[e] = row
    BY <1>2, <2>1, <2>2, <2>4 DEF OfKeptRight
  <2> QED
    BY <2>4, <2>5
<1>8. ASSUME NEW d \in Below, NEW e \in Below, f[d] = f[e] PROVE d = e
  <2>1. PICK a \in 1..Len(kept), b \in (1..Len(l)) \cup {NoRow} :
          d = [left |-> b, right |-> a, key |-> B[a]]
    BY <1>4
  <2>2. PICK a2 \in 1..Len(kept), b2 \in (1..Len(l)) \cup {NoRow} :
          e = [left |-> b2, right |-> a2, key |-> B[a2]]
    BY <1>4
  <2>3. kept[a] = kept[a2] /\ b = b2
    BY <1>8, <2>1, <2>2 DEF OfKeptRight
  <2> QED
    BY <1>1, <2>1, <2>2, <2>3
<1>9. /\ \A x \in 1..Len(rows) : rows[x] \in Below
      /\ \A e \in Below : \E x \in 1..Len(rows) : rows[x] = e
      /\ \A x, y \in 1..Len(rows) : rows[x] = rows[y] => x = y
  <2>1. Lists(rows, Below)
    BY DEF Below, B
  <2> QED
    BY <2>1 DEF Lists
<1> DEFINE mapped == [x \in 1..Len(rows) |-> OfKeptRight(kept, rows[x])]
<1>10. Len(mapped) = Len(rows) /\ \A x \in 1..Len(rows) : mapped[x] = f[rows[x]]
  BY <1>9
<1> HIDE DEF mapped, f
<1>11. {mapped[x] : x \in 1..Len(mapped)} = {row \in Relational!JoinRows(l, r, h) : row.right \in S}
  <2>1. \A x \in 1..Len(mapped) : mapped[x] \in Relational!JoinRows(l, r, h) /\ mapped[x].right \in S
    BY <1>6, <1>9, <1>10
  <2>2. \A row \in Relational!JoinRows(l, r, h) : row.right \in S => \E x \in 1..Len(mapped) : mapped[x] = row
    BY <1>7, <1>9, <1>10
  <2> QED
    BY <2>1, <2>2
<1>12. \A x, y \in 1..Len(mapped) : mapped[x] = mapped[y] => x = y
  BY <1>8, <1>9, <1>10
<1> QED
  BY <1>11, <1>12 DEF Lists, mapped

-----------------------------------------------------------------------------
(* The end of the call.                                                    *)

\* A triple gets lower at its first number ...
LEMMA LowerFirst ==
  ASSUME NEW new, NEW old, old = <<old[1], old[2], old[3]>>, new[1] < old[1]
  PROVE  Lower(new, old)
<1>1. 1 \in DOMAIN old /\ \A m \in 1..(1 - 1) : FALSE
  OBVIOUS
<1> QED
  BY <1>1 DEF Lower

\* ... at its second ...
LEMMA LowerSecond ==
  ASSUME NEW new, NEW old, old = <<old[1], old[2], old[3]>>, new[1] = old[1], new[2] < old[2]
  PROVE  Lower(new, old)
<1>1. 2 \in DOMAIN old /\ \A m \in 1..(2 - 1) : m = 1
  OBVIOUS
<1> QED
  BY <1>1 DEF Lower

\* ... or at its third.
LEMMA LowerThird ==
  ASSUME NEW new, NEW old, old = <<old[1], old[2], old[3]>>,
         new[1] = old[1], new[2] = old[2], new[3] < old[3]
  PROVE  Lower(new, old)
<1>1. 3 \in DOMAIN old /\ \A m \in 1..(3 - 1) : m = 1 \/ m = 2
  OBVIOUS
<1> QED
  BY <1>1 DEF Lower

\* The map has no more keys than the hashed side has rows.
LEMMA PresentIsFinite ==
  ASSUME Inv
  PROVE  IsFiniteSet(Present)
<1> DEFINE f == [s \in 1..Len(smaller) |-> smaller[s]]
           T == {f[s] : s \in 1..Len(smaller)}
<1>1. Len(smaller) \in Nat
  BY Sides DEF Inv, TypeOK
<1>2. ASSUME NEW k \in Present PROVE \E s \in 1..Len(smaller) : smaller[s] = k
  <2>1. /\ k \in Keys /\ smaller_keys[k] \in Seq(1..Len(smaller)) /\ smaller_keys[k] # << >>
        /\ Lists(smaller_keys[k], {s \in BuiltRows : smaller[s] = k})
    BY DEF Inv, TypeOK, TableInv, Present
  <2>2. 1 \in 1..Len(smaller_keys[k]) /\ smaller_keys[k][1] \in 1..Len(smaller)
    BY <2>1, EmptySeq
  <2>3. smaller_keys[k][1] \in {s \in BuiltRows : smaller[s] = k}
    BY <2>1, <2>2 DEF Lists
  <2> QED
    BY <2>2, <2>3
<1>3. IsFiniteSet(T)
  <2>1. IsFiniteSet(1..Len(smaller))
    BY <1>1, FS_Interval
  <2>2. f \in Surjection(1..Len(smaller), T)
    BY DEF Surjection
  <2> HIDE DEF f, T
  <2> QED
    BY <2>1, <2>2, FS_Surjection
<1>4. Present \subseteq T
  BY <1>2
<1> HIDE DEF T
<1> QED
  BY <1>3, <1>4, FS_Subset

\* The parts of the measure.
LEMMA RemainingIsNatural ==
  ASSUME Inv
  PROVE  /\ Remaining \in Nat \X Nat \X Nat
         /\ Remaining = <<Remaining[1], Remaining[2], Remaining[3]>>
<1>1. /\ pc \in {"build", "probe", "leftover", "gather", "done"}
      /\ i \in Nat /\ Len(smaller) \in Nat /\ Len(larger) \in Nat
      /\ pc = "build" => i <= Len(smaller) + 1
      /\ pc = "probe" => i <= Len(larger) + 1
  BY Sides DEF Inv, TypeOK, PhaseInv
<1>2. Cardinality(Present \ visited) \in Nat
  BY PresentIsFinite, FS_Subset, FS_CardinalityType
<1> QED
  BY <1>1, <1>2 DEF Remaining

\* Every step of the loops lowers it.
LEMMA StepRunsDown ==
  ASSUME Inv, Next
  PROVE  Lower(Remaining', Remaining)
<1>1. /\ i \in Nat /\ Len(smaller) \in Nat /\ Len(larger) \in Nat
      /\ smaller' = smaller /\ larger' = larger
      /\ pc = "build" => i <= Len(smaller) + 1
      /\ pc = "probe" => i <= Len(larger) + 1
  BY Sides, Frame DEF Inv, TypeOK, PhaseInv
<1>2. Remaining = <<Remaining[1], Remaining[2], Remaining[3]>>
  BY RemainingIsNatural
<1> DEFINE old == Remaining
           new == Remaining'
<1>3. old = <<old[1], old[2], old[3]>>
  BY <1>2
<1>4. ASSUME BuildNullRow \/ BuildKeyedRow PROVE Lower(new, old)
  <2>1. new[1] = old[1] /\ new[2] < old[2]
    BY <1>1, <1>4 DEF BuildNullRow, BuildKeyedRow, Remaining
  <2> HIDE DEF old, new
  <2> QED
    BY <2>1, <1>3, LowerFirst, LowerSecond
<1>5. ASSUME BuildEnds \/ ProbeEnds \/ LeftoverNulls \/ Gather PROVE Lower(new, old)
  <2>1. new[1] < old[1]
    BY <1>5 DEF BuildEnds, ProbeEnds, LeftoverNulls, Gather, Remaining
  <2> HIDE DEF old, new
  <2> QED
    BY <2>1, <1>3, LowerFirst, LowerSecond
<1>6. ASSUME ProbeMatch \/ ProbeMiss PROVE Lower(new, old)
  <2>1. new[1] = old[1] /\ new[2] < old[2]
    BY <1>1, <1>6 DEF ProbeMatch, ProbeMiss, Remaining
  <2> HIDE DEF old, new
  <2> QED
    BY <2>1, <1>3, LowerFirst, LowerSecond
<1>7. ASSUME NEW k \in Keys, Leftover(k) PROVE Lower(new, old)
  <2>1. new[1] = old[1] /\ new[2] = old[2]
    BY <1>7 DEF Leftover, Remaining
  <2>2. new[3] < old[3]
    <3>1. Present' = Present /\ visited' = visited \cup {k} /\ k \in Present \ visited
      BY <1>7 DEF Leftover, Present
    <3>2. Present' \ visited' = (Present \ visited) \ {k}
      BY <3>1
    <3>3. IsFiniteSet(Present \ visited)
      BY PresentIsFinite, FS_Subset
    <3>4. Cardinality(Present \ visited) \in Nat /\ Cardinality((Present \ visited) \ {k}) = Cardinality(Present \ visited) - 1
      BY <3>1, <3>3, FS_RemoveElement, FS_CardinalityType
    <3>5. old[3] = Cardinality(Present \ visited) /\ new[3] = Cardinality(Present' \ visited')
      BY DEF Remaining
    <3> HIDE DEF old, new
    <3> QED
      BY <3>2, <3>4, <3>5
  <2> HIDE DEF old, new
  <2> QED
    BY <2>1, <2>2, <1>3, LowerThird
<1>8. Lower(new, old)
  <2> HIDE DEF old, new
  <2> QED
    BY <1>4, <1>5, <1>6, <1>7 DEF Next
<1> QED
  BY <1>8

\* A call of join ends: every step lowers a triple of natural numbers, for all
\* inputs and in every order of the map.
THEOREM JoinRunsDown == Spec => RunsDown
<1>1. Inv /\ [Next]_vars => [Lower(Remaining', Remaining) /\ Remaining \in Nat \X Nat \X Nat]_vars
  BY RemainingIsNatural, StepRunsDown
<1> QED
  BY <1>1, JoinInductiveInvariant, PTL DEF Spec, RunsDown
=============================================================================
