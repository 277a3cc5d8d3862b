----------------------------- MODULE TopKProofs -----------------------------
(***************************************************************************)
(* TopK returns the head of a sort, for every input, every k and every way *)
(* a priority queue may break ties.                                        *)
(***************************************************************************)
EXTENDS TopK, FiniteSetTheorems, TLAPS

\* The rows are finitely many, and so are those of any part of them.
LEMMA RowsAreFinite ==
  ASSUME rank \in Seq(Ranks)
  PROVE  /\ Len(rank) \in Nat
         /\ IsFiniteSet(Rows) /\ Cardinality(Rows) = Len(rank)
         /\ \A S \in SUBSET Rows : IsFiniteSet(S)
<1>1. Len(rank) \in Nat
  OBVIOUS
<1>2. IsFiniteSet(Rows) /\ Cardinality(Rows) = Len(rank)
  BY <1>1, FS_Interval DEF Rows
<1>3. \A S \in SUBSET Rows : IsFiniteSet(S)
  BY <1>2, FS_Subset
<1>4. QED
  BY <1>1, <1>2, <1>3

\* Ranks are integers, so the rows are totally preordered by them.
LEMMA RankIsInt ==
  ASSUME rank \in Seq(Ranks)
  PROVE  \A r \in Rows : rank[r] \in Int
<1>1. \A r \in Rows : rank[r] \in Ranks
  BY DEF Rows
<1>2. QED
  BY <1>1, RanksAreIntegers

\* A stable order of the rows lists every row, and each once: what SortAll returns.
LEMMA StableOrderListsRows ==
  ASSUME rank \in Seq(Ranks), NEW s \in StableOrders
  PROVE  /\ s \in [Rows -> Rows] /\ s \in Seq(Rows \cup {0}) /\ Len(s) = Len(rank)
         /\ \A x, y \in Rows : x < y => s[x] # s[y] /\ rank[s[x]] <= rank[s[y]]
         /\ \A r \in Rows : \E x \in Rows : s[x] = r
<1>1. Len(rank) \in Nat /\ s \in [Rows -> Rows]
  BY DEF StableOrders
<1>2. s \in Seq(Rows \cup {0}) /\ Len(s) = Len(rank)
  <2>1. s \in [1..Len(rank) -> Rows \cup {0}]
    BY <1>1 DEF Rows
  <2>2. QED
    BY <1>1, <2>1
<1>3. \A x, y \in Rows : x < y => s[x] # s[y] /\ rank[s[x]] <= rank[s[y]]
  <2> SUFFICES ASSUME NEW x \in Rows, NEW y \in Rows, x < y
               PROVE  s[x] # s[y] /\ rank[s[x]] <= rank[s[y]]
    OBVIOUS
  <2>1. StableBefore(s[x], s[y])
    BY DEF StableOrders
  <2>2. /\ s[x] \in Int /\ s[y] \in Int
        /\ rank[s[x]] \in Int /\ rank[s[y]] \in Int
    BY <1>1, RankIsInt DEF Rows
  <2>3. QED
    BY <2>1, <2>2 DEF StableBefore
<1>4. s \in Injection(Rows, Rows)
  <2>1. ASSUME NEW x \in Rows, NEW y \in Rows, s[x] = s[y] PROVE x = y
    <3>1. x \in Int /\ y \in Int
      BY <1>1 DEF Rows
    <3>2. QED
      BY <1>3, <2>1, <3>1
  <2>2. QED
    BY <1>1, <2>1 DEF Injection, IsInjective
<1>5. s \in Surjection(Rows, Rows)
  BY <1>4, RowsAreFinite, FS_Injection
<1>6. QED
  BY <1>1, <1>2, <1>3, <1>5 DEF Surjection

-----------------------------------------------------------------------------
(* The state keeps its shape.                                              *)

\* The call starts well typed.
LEMMA TypeInit == Init => TypeOK
<1> SUFFICES ASSUME Init PROVE TypeOK
  OBVIOUS
<1>1. rank \in Seq(Ranks)
  BY BoundsAreNaturals DEF Init
<1>2. QED
  BY <1>1, BoundsAreNaturals DEF Init, TypeOK

\* Every step keeps the types.
LEMMA TypeNext == TypeOK /\ [Next]_vars => TypeOK'
<1> SUFFICES ASSUME TypeOK, [Next]_vars PROVE TypeOK'
  OBVIOUS
<1> USE DEF TypeOK
<1>1. CASE SortAll
  <2>1. out' \in Seq(Rows \cup {0})
    BY <1>1, StableOrderListsRows DEF SortAll
  <2>2. QED
    BY <1>1, <2>1 DEF SortAll, Rows
<1>2. CASE StartScan
  BY <1>2 DEF StartScan, Rows
<1>3. CASE TakeRow
  <2>1. i \in Rows
    BY <1>3 DEF TakeRow, Rows
  <2>2. heap' \subseteq heap \cup {i}
    BY <1>3 DEF TakeRow
  <2>3. QED
    BY <1>3, <2>1, <2>2 DEF TakeRow, Rows
<1>4. CASE StartDrain
  <2>1. out' \in Seq(Rows \cup {0})
    BY <1>4 DEF StartDrain
  <2>2. QED
    BY <1>4, <2>1 DEF StartDrain, Rows
<1>5. CASE DrainTop
  <2>1. PICK r \in Tops(heap) : heap' = heap \ {r} /\ out' = [out EXCEPT ![i] = r]
    BY <1>5 DEF DrainTop
  <2>2. r \in Rows
    BY <2>1 DEF Tops
  <2>3. out' \in Seq(Rows \cup {0})
    <3>1. out \in [1..Len(out) -> Rows \cup {0}] /\ Len(out) \in Nat
      OBVIOUS
    <3>2. out' \in [1..Len(out) -> Rows \cup {0}]
      BY <2>1, <2>2, <3>1
    <3>3. QED
      BY <3>1, <3>2
  <2>4. pc = "drain" /\ i > 0 /\ i' = i - 1 /\ UNCHANGED <<rank, k, pc>> /\ heap' \subseteq heap
    BY <1>5, <2>1 DEF DrainTop
  <2>5. QED
    BY <2>3, <2>4 DEF Rows
<1>6. CASE Return
  BY <1>6 DEF Return, Rows
<1>7. CASE UNCHANGED vars
  BY <1>7 DEF vars, Rows
<1>8. QED
  BY <1>1, <1>2, <1>3, <1>4, <1>5, <1>6, <1>7 DEF Next

\* The queue holds rows, the answer row numbers, whatever is pushed and popped.
THEOREM TopKTypeCorrect == Spec => []TypeOK
BY TypeInit, TypeNext, PTL DEF Spec

-----------------------------------------------------------------------------
(* The queue keeps the right rows.                                         *)

\* One turn of the scan: the row taken and the row dropped leave the invariant.
LEMMA ScanStep == HeadInv /\ TakeRow => HeadInv'
<1> SUFFICES ASSUME HeadInv, TakeRow PROVE HeadInv'
  OBVIOUS
<1>1. TypeOK /\ TypeOK'
  BY TypeNext DEF HeadInv, Next
<1>2. /\ pc = "scan" /\ pc' = "scan" /\ i \in 1..Len(rank) /\ i' = i + 1
      /\ rank' = rank /\ k' = k /\ k \in Nat /\ k < Len(rank) /\ Rows' = Rows
  BY <1>1 DEF TakeRow, HeadInv, TypeOK, Rows
<1>3. /\ heap \subseteq 1..(i - 1) /\ i \notin heap
      /\ Cardinality(heap) = IF i - 1 < k THEN i - 1 ELSE k
      /\ \A r \in 1..(i - 1) \ heap : \A s \in heap : rank[s] <= rank[r]
  BY <1>2 DEF HeadInv, ScanInv
<1>4. IsFiniteSet(heap) /\ \A r \in Rows : rank[r] \in Int
  BY <1>1, RowsAreFinite, RankIsInt DEF TypeOK
<1> DEFINE pushed == heap \cup {i}
<1>5. IsFiniteSet(pushed) /\ Cardinality(pushed) = Cardinality(heap) + 1
  BY <1>3, <1>4, FS_AddElement
<1>6. ScanInv'
  <2>1. CASE i > k
    <3>1. PICK r \in Tops(pushed) : heap' = pushed \ {r}
      BY <1>2, <2>1 DEF TakeRow
    <3>2. r \in pushed /\ \A s \in pushed : rank[s] <= rank[r]
      BY <3>1 DEF Tops
    <3>3. Cardinality(heap') = Cardinality(heap)
      <4>1. Cardinality(pushed \ {r}) = Cardinality(pushed) - 1
        BY <1>5, <3>2, FS_RemoveElement
      <4>2. Cardinality(heap) \in Nat
        BY <1>4, FS_CardinalityType
      <4>3. QED
        BY <1>5, <3>1, <4>1, <4>2
    <3>4. ASSUME NEW q \in 1..i, q \notin heap', NEW s \in heap' PROVE rank[s] <= rank[q]
      <4>1. s \in pushed /\ s # r
        BY <3>1, <3>4
      <4>2. CASE q = r
        BY <3>2, <4>1, <4>2
      <4>3. CASE q # r
        <5>1. q \in 1..(i - 1) \ heap
          BY <1>2, <3>1, <3>4, <4>3
        <5>2. CASE s # i
          BY <1>3, <4>1, <5>1, <5>2
        <5>3. CASE s = i
          <6>1. r \in heap /\ rank[i] <= rank[r] /\ rank[r] <= rank[q]
            BY <1>3, <3>2, <4>1, <5>1, <5>3
          <6>2. i \in Rows /\ r \in Rows /\ q \in Rows
            BY <1>2, <1>3, <5>1, <6>1 DEF Rows
          <6>3. QED
            BY <1>4, <5>3, <6>1, <6>2
        <5>4. QED
          BY <5>2, <5>3
      <4>4. QED
        BY <4>2, <4>3
    <3>5. heap' \subseteq 1..i
      <4>1. \A q \in heap : q \in 1..i
        BY <1>2, <1>3
      <4>2. i \in 1..i
        BY <1>2
      <4>3. QED
        BY <3>1, <4>1, <4>2
    <3>6. QED
      BY <1>2, <1>3, <2>1, <3>3, <3>4, <3>5 DEF ScanInv
  <2>2. CASE ~(i > k)
    <3>1. heap' = pushed
      BY <1>2, <2>2 DEF TakeRow
    <3>2. Cardinality(heap') = i /\ heap' \subseteq 1..i
      BY <1>2, <1>3, <1>5, <2>2, <3>1
    <3>3. heap' = 1..i
      <4>1. IsFiniteSet(1..i) /\ Cardinality(1..i) = i
        BY <1>2, FS_Interval
      <4>2. QED
        BY <3>2, <4>1, FS_Subset
    <3>4. QED
      BY <1>2, <2>2, <3>2, <3>3 DEF ScanInv
  <2>3. QED
    BY <2>1, <2>2
<1>7. QED
  BY <1>1, <1>2, <1>6 DEF HeadInv, DrainInv, IsHeadOfSort

\* One row leaves the queue for the last free place of the answer.
LEMMA DrainStep == HeadInv /\ DrainTop => HeadInv'
<1> SUFFICES ASSUME HeadInv, DrainTop PROVE HeadInv'
  OBVIOUS
<1>1. TypeOK /\ TypeOK'
  BY TypeNext DEF HeadInv, Next
<1>2. /\ pc = "drain" /\ pc' = "drain" /\ i \in Nat /\ i > 0 /\ i' = i - 1
      /\ rank' = rank /\ k' = k /\ k \in Nat /\ Rows' = Rows
  BY <1>1 DEF DrainTop, TypeOK, Rows
<1>3. /\ Len(out) = k /\ k < Len(rank) /\ i <= k /\ Cardinality(heap) = i
      /\ \A x \in (i + 1)..k : out[x] \in Rows \ heap /\ \A s \in heap : rank[s] <= rank[out[x]]
      /\ \A x, y \in (i + 1)..k : x < y => out[x] # out[y] /\ rank[out[x]] <= rank[out[y]]
      /\ \A r \in Rows \ heap :
           (\A x \in (i + 1)..k : out[x] # r) =>
             /\ \A s \in heap : rank[s] <= rank[r]
             /\ \A x \in (i + 1)..k : rank[out[x]] <= rank[r]
  BY <1>2 DEF HeadInv, DrainInv
<1>4. PICK r \in Tops(heap) : heap' = heap \ {r} /\ out' = [out EXCEPT ![i] = r]
  BY DEF DrainTop
<1>5. r \in heap /\ r \in Rows /\ \A s \in heap : rank[s] <= rank[r]
  BY <1>1, <1>4 DEF Tops, TypeOK
<1>6. Len(out') = k /\ out'[i] = r /\ \A x \in (i + 1)..k : out'[x] = out[x]
  BY <1>1, <1>2, <1>3, <1>4 DEF TypeOK
<1>7. Cardinality(heap') = i'
  BY <1>1, <1>2, <1>3, <1>4, <1>5, RowsAreFinite, FS_RemoveElement DEF TypeOK
<1>8. \A x \in i..k : x = i \/ x \in (i + 1)..k
  BY <1>2, <1>3
<1>9. ASSUME NEW x \in i..k
      PROVE  out'[x] \in Rows \ heap' /\ \A s \in heap' : rank[s] <= rank[out'[x]]
  BY <1>3, <1>4, <1>5, <1>6, <1>8
<1>10. ASSUME NEW x \in i..k, NEW y \in i..k, x < y
       PROVE  out'[x] # out'[y] /\ rank[out'[x]] <= rank[out'[y]]
  <2>1. y \in (i + 1)..k
    BY <1>2, <1>10
  <2>2. CASE x = i
    BY <1>3, <1>5, <1>6, <2>1, <2>2
  <2>3. CASE x \in (i + 1)..k
    BY <1>3, <1>6, <1>10, <2>1, <2>3
  <2>4. QED
    BY <1>8, <2>2, <2>3
<1>11. ASSUME NEW q \in Rows \ heap', \A x \in i..k : out'[x] # q
       PROVE  /\ \A s \in heap' : rank[s] <= rank[q]
              /\ \A x \in i..k : rank[out'[x]] <= rank[q]
  <2>1. i \in i..k /\ \A x \in (i + 1)..k : x \in i..k
    BY <1>2, <1>3
  <2>2. q \in Rows \ heap /\ \A x \in (i + 1)..k : out[x] # q
    BY <1>4, <1>6, <1>11, <2>1
  <2>3. /\ \A s \in heap : rank[s] <= rank[q]
        /\ \A x \in (i + 1)..k : rank[out[x]] <= rank[q]
    BY <1>3, <2>2
  <2>4. QED
    BY <1>4, <1>5, <1>6, <1>8, <2>3
<1>12. i' + 1 = i /\ i' <= k
  BY <1>2, <1>3
<1>13. DrainInv'
  BY <1>2, <1>3, <1>6, <1>7, <1>9, <1>10, <1>11, <1>12 DEF DrainInv
<1>14. QED
  BY <1>1, <1>2, <1>13 DEF HeadInv, ScanInv, IsHeadOfSort

\* The remaining steps: the plain sort, and the turns from one loop to the next.
LEMMA HeadNext == HeadInv /\ [Next]_vars => HeadInv'
<1> SUFFICES ASSUME HeadInv, [Next]_vars PROVE HeadInv'
  OBVIOUS
<1>1. TypeOK /\ TypeOK'
  BY TypeNext DEF HeadInv
<1>2. CASE SortAll
  <2>1. /\ Len(out') = Len(rank) /\ out' \in [Rows -> Rows]
        /\ \A x, y \in Rows : x < y => out'[x] # out'[y] /\ rank[out'[x]] <= rank[out'[y]]
        /\ \A r \in Rows : \E x \in Rows : out'[x] = r
    BY <1>1, <1>2, StableOrderListsRows DEF SortAll, TypeOK
  <2>2. DOMAIN out' = Rows /\ \A x \in Rows : out'[x] \in Rows
    BY <2>1
  <2>3. Len(rank) \in Nat /\ k \in Nat /\ Len(rank) <= k /\ rank' = rank /\ k' = k /\ Rows' = Rows
    BY <1>1, <1>2 DEF SortAll, TypeOK, Rows
  <2>4. IsHeadOfSort'
    <3>1. \A r \in Rows : Returned(r)'
      BY <2>1, <2>2 DEF Returned
    <3>2. QED
      BY <2>1, <2>2, <2>3, <3>1 DEF IsHeadOfSort
  <2>5. QED
    BY <1>1, <1>2, <2>4 DEF SortAll, HeadInv, ScanInv, DrainInv
<1>3. CASE StartScan
  BY <1>1, <1>3 DEF StartScan, HeadInv, ScanInv, DrainInv, IsHeadOfSort
<1>4. CASE TakeRow
  BY <1>4, ScanStep
<1>5. CASE StartDrain
  <2>1. /\ pc = "scan" /\ k < Len(rank) /\ i = Len(rank) + 1 /\ i' = k /\ heap' = heap
        /\ rank' = rank /\ k' = k /\ k \in Nat /\ Rows' = Rows /\ pc' = "drain"
    <3>1. /\ pc = "scan" /\ i > Len(rank) /\ i' = k /\ heap' = heap /\ rank' = rank
          /\ k' = k /\ pc' = "drain"
      BY <1>5 DEF StartDrain
    <3>2. k < Len(rank) /\ i \in 1..(Len(rank) + 1)
      BY <3>1 DEF HeadInv, ScanInv
    <3>3. k \in Nat /\ Len(rank) \in Nat
      BY <1>1 DEF TypeOK
    <3>4. QED
      BY <3>1, <3>2, <3>3 DEF Rows
  <2>2. /\ Cardinality(heap) = k
        /\ \A r \in Rows \ heap : \A s \in heap : rank[s] <= rank[r]
    BY <1>1, <2>1 DEF HeadInv, ScanInv, TypeOK, Rows
  <2>3. Len(out') = k /\ (k + 1)..k = {}
    BY <1>5, <2>1 DEF StartDrain
  <2>4. DrainInv'
    BY <2>1, <2>2, <2>3 DEF DrainInv
  <2>5. QED
    BY <1>1, <2>1, <2>4 DEF HeadInv, ScanInv, IsHeadOfSort
<1>6. CASE DrainTop
  BY <1>6, DrainStep
<1>7. CASE Return
  <2>1. /\ pc = "drain" /\ i = 0 /\ rank' = rank /\ k' = k /\ k \in Nat /\ out' = out
        /\ Rows' = Rows /\ pc' = "done" /\ heap' = heap /\ i' = i
    BY <1>1, <1>7 DEF Return, TypeOK, Rows
  <2>2. Len(out) = k /\ k < Len(rank) /\ heap = {} /\ DOMAIN out = 1..k
    BY <1>1, <2>1, RowsAreFinite, FS_EmptySet DEF HeadInv, DrainInv, TypeOK
  <2>3. /\ \A x \in 1..k : out[x] \in Rows
        /\ \A x, y \in 1..k : x < y => out[x] # out[y] /\ rank[out[x]] <= rank[out[y]]
        /\ \A r \in Rows : (\A x \in 1..k : out[x] # r) =>
                             \A x \in 1..k : rank[out[x]] <= rank[r]
    BY <2>1, <2>2 DEF HeadInv, DrainInv
  <2>4. Len(out) = IF Len(rank) < k THEN Len(rank) ELSE k
    BY <1>1, <2>1, <2>2 DEF TypeOK
  <2>5. IsHeadOfSort'
    BY <2>1, <2>2, <2>3, <2>4 DEF IsHeadOfSort, Returned
  <2>6. QED
    BY <1>1, <2>1, <2>5 DEF HeadInv, ScanInv, DrainInv
<1>8. CASE UNCHANGED vars
  BY <1>1, <1>8 DEF vars, HeadInv, ScanInv, DrainInv, IsHeadOfSort, Returned, Rows
<1>9. QED
  BY <1>2, <1>3, <1>4, <1>5, <1>6, <1>7, <1>8 DEF Next

\* At every step of the scan and the drain the queue and the answer together hold
\* the first rows seen, in order: the inductive invariant of TopKPlan::execute.
THEOREM TopKInductiveInvariant == Spec => []HeadInv
<1>1. Init => HeadInv
  <2> SUFFICES ASSUME Init PROVE HeadInv
    OBVIOUS
  <2>1. TypeOK /\ Len(rank) \in Nat /\ k \in Nat
    BY TypeInit DEF TypeOK
  <2>2. QED
    BY <2>1, FS_EmptySet DEF Init, HeadInv, ScanInv, DrainInv, IsHeadOfSort
<1>2. QED
  BY <1>1, HeadNext, PTL DEF Spec

\* TopK answers head(k) over a sort: the rows it returns are in sort order, none
\* twice, as many as asked for or there are, and no row left out precedes one.
THEOREM TopKIsHeadOfSort == Spec => []IsHeadOfSort
BY TopKInductiveInvariant, PTL DEF HeadInv
=============================================================================
