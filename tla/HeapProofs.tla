----------------------------- MODULE HeapProofs -----------------------------
(***************************************************************************)
(* libstdc++'s heap is a priority queue: its vector is a heap whenever a   *)
(* push or a pop begins, so what a pop removes belongs last, and TopK over *)
(* it implements TopK over any priority queue.                             *)
(***************************************************************************)
EXTENDS BinaryHeap, SequenceTheorems, WellFoundedInduction, TLAPS

\* TopK's theorems hold of the queue.
TP == INSTANCE TopKProofs WITH heap <- Queued, i <- Turn

-----------------------------------------------------------------------------
(* Places of a heap.                                                       *)

\* A set of natural numbers has a least element.
LEMMA LeastPlace ==
  ASSUME NEW T \in SUBSET Nat, T # {}
  PROVE  \E n \in T : \A m \in T : n <= m
<1>1. PICK n \in T : \A m \in T : ~(<<m, n>> \in OpToRel(<, Nat))
  BY WFMin, NatLessThanWellFounded
<1>2. \A m \in T : ~(m < n)
  BY <1>1 DEF OpToRel
<1> QED
  BY <1>2

\* A place other than the top has its parent before it, and is one of the two
\* children of that parent.
LEMMA ParentOfPlace ==
  ASSUME NEW p \in Nat, p > 1
  PROVE  /\ Parent(p) \in Nat /\ Parent(p) >= 1 /\ Parent(p) < p
         /\ p = 2 * Parent(p) \/ p = 2 * Parent(p) + 1
  BY DEF Parent

\* The children of a place are its double and the one after.
LEMMA ChildrenOfPlace ==
  ASSUME NEW p \in Nat, p >= 1
  PROVE  /\ Parent(2 * p) = p
         /\ Parent(2 * p + 1) = p
         /\ \A q \in Nat : Parent(q) = p <=> q = 2 * p \/ q = 2 * p + 1
  BY DEF Parent

\* Values at places 1 to m are in heap order.
InOrder(a, m) == \A p \in 2..m : ~(a[Parent(p)] < a[p])

\* ... but at the hole h, whose value may be above its parent.
InOrderBut(a, m, h) ==
  /\ \A p \in 2..m : ~(a[Parent(p)] < a[p]) \/ p = h
  /\ h > 1 => \A p \in 2..m : Parent(p) = h => ~(a[Parent(h)] < a[p])

\* ... but around the hole h, whose value may also be below its children.
InOrderAround(a, m, h) ==
  /\ \A p \in 2..m : ~(a[Parent(p)] < a[p]) \/ p = h \/ Parent(p) = h
  /\ h > 1 => \A p \in 2..m : Parent(p) = h => ~(a[Parent(h)] < a[p])

\* b is a with the values of two places exchanged.
Exchanged(a, b, m, g, h) ==
  /\ b[g] = a[h] /\ b[h] = a[g]
  /\ \A p \in 1..m : p # g /\ p # h => b[p] = a[p]

\* No value of a heap is above the one on top.
LEMMA TopIsLargest ==
  ASSUME NEW m \in Nat, NEW a \in [1..m -> Int], InOrder(a, m)
  PROVE  \A p \in 1..m : a[p] <= a[1]
<1> DEFINE T == {p \in 1..m : ~(a[p] <= a[1])}
<1> SUFFICES ASSUME T # {} PROVE FALSE
  OBVIOUS
<1>1. PICK p \in T : \A q \in T : p <= q
  <2>1. T \subseteq Nat
    OBVIOUS
  <2> HIDE DEF T
  <2> QED
    BY <2>1, LeastPlace
<1>2. p \in 2..m /\ p \in Nat /\ p > 1
  OBVIOUS
<1>3. Parent(p) \in 1..m /\ Parent(p) < p
  BY <1>2, ParentOfPlace
<1>4. Parent(p) \notin T
  <2> HIDE DEF T
  <2> QED
    BY <1>1, <1>2, <1>3
<1>5. a[p] <= a[Parent(p)] /\ a[Parent(p)] <= a[1]
  BY <1>2, <1>3, <1>4 DEF InOrder
<1> QED
  BY <1>2, <1>3, <1>5

\* A hole rises past a parent below its value: only it is still out of order.
LEMMA RisingKeepsOrder ==
  ASSUME NEW m \in Nat, NEW a \in [1..m -> Int], NEW b \in [1..m -> Int], NEW h \in 2..m,
         InOrderBut(a, m, h), a[Parent(h)] < a[h], Exchanged(a, b, m, h, Parent(h))
  PROVE  InOrderBut(b, m, Parent(h))
<1> DEFINE g == Parent(h)
<1>1. g \in 1..m /\ g < h
  BY ParentOfPlace
<1>2. /\ b[g] = a[h] /\ b[h] = a[g]
      /\ \A p \in 1..m : p # g /\ p # h => b[p] = a[p]
  BY DEF Exchanged
<1>3. \A p \in 2..m : Parent(p) \in 1..m /\ Parent(p) < p
  BY ParentOfPlace, SMTT(30)
<1>4. /\ \A p \in 2..m : ~(a[Parent(p)] < a[p]) \/ p = h
      /\ \A p \in 2..m : Parent(p) = h => ~(a[g] < a[p])
  BY DEF InOrderBut
<1>5. a[g] < a[h]
  OBVIOUS
<1> HIDE DEF g
<1>6. ASSUME NEW p \in 2..m, p # g PROVE ~(b[Parent(p)] < b[p])
  <2>1. CASE p = h
    BY <1>1, <1>2, <1>5, <2>1 DEF g
  <2>2. CASE p # h /\ Parent(p) = h
    BY <1>1, <1>2, <1>4, <1>6, <2>2
  <2>3. CASE p # h /\ Parent(p) = g
    <3>1. b[Parent(p)] = a[h] /\ b[p] = a[p]
      BY <1>2, <1>6, <2>3
    <3>2. ~(a[g] < a[p])
      BY <1>4, <2>3
    <3>3. a[g] \in Int /\ a[h] \in Int /\ a[p] \in Int
      BY <1>1
    <3> QED
      BY <1>5, <3>1, <3>2, <3>3
  <2>4. CASE p # h /\ Parent(p) # h /\ Parent(p) # g
    <3>1. p \in 1..m /\ Parent(p) \in 1..m
      BY <1>3
    <3>2. b[p] = a[p] /\ b[Parent(p)] = a[Parent(p)]
      BY <1>2, <1>6, <2>4, <3>1
    <3>3. ~(a[Parent(p)] < a[p])
      BY <1>4, <2>4
    <3> QED
      BY <3>2, <3>3
  <2> QED
    BY <2>1, <2>2, <2>3, <2>4
<1>7. ASSUME g > 1, NEW p \in 2..m, Parent(p) = g PROVE ~(b[Parent(g)] < b[p])
  <2>1. Parent(g) \in 1..m /\ Parent(g) # g /\ Parent(g) # h /\ g \in 2..m
    BY <1>1, <1>3, <1>7, SMTT(30)
  <2>2. b[Parent(g)] = a[Parent(g)] /\ ~(a[Parent(g)] < a[g])
    BY <1>1, <1>2, <1>4, <2>1
  <2>3. CASE p = h
    BY <1>2, <2>2, <2>3
  <2>4. CASE p # h
    <3>1. b[p] = a[p] /\ ~(a[g] < a[p])
      BY <1>2, <1>3, <1>4, <1>7, <2>4
    <3> QED
      BY <1>1, <2>1, <2>2, <3>1
  <2> QED
    BY <2>3, <2>4
<1> QED
  BY <1>6, <1>7 DEF InOrderBut, g

\* A hole sinks to the larger of its children: only it is still out of order.
LEMMA SinkingKeepsOrder ==
  ASSUME NEW m \in Nat, NEW a \in [1..m -> Int], NEW b \in [1..m -> Int],
         NEW h \in 1..m, NEW c \in 2..m, Parent(c) = h,
         \A p \in 2..m : Parent(p) = h => ~(a[c] < a[p]),
         InOrderAround(a, m, h), Exchanged(a, b, m, h, c)
  PROVE  InOrderAround(b, m, c)
<1>1. h < c /\ h \in Nat /\ h >= 1
  BY ParentOfPlace, SMTT(30)
<1>2. /\ b[h] = a[c] /\ b[c] = a[h]
      /\ \A p \in 1..m : p # h /\ p # c => b[p] = a[p]
  BY DEF Exchanged
<1>3. \A p \in 2..m : Parent(p) \in 1..m /\ Parent(p) < p
  BY ParentOfPlace
<1>4. /\ \A p \in 2..m : ~(a[Parent(p)] < a[p]) \/ p = h \/ Parent(p) = h
      /\ h > 1 => \A p \in 2..m : Parent(p) = h => ~(a[Parent(h)] < a[p])
  BY DEF InOrderAround
<1>5. ASSUME NEW p \in 2..m, p # c, Parent(p) # c PROVE ~(b[Parent(p)] < b[p])
  <2>1. CASE p = h
    <3>1. Parent(h) # h /\ Parent(h) # c /\ Parent(h) \in 1..m /\ h > 1
      BY <1>1, <1>3, <2>1, SMTT(30)
    <3>2. ~(a[Parent(h)] < a[c])
      BY <1>4, <3>1
    <3> QED
      BY <1>2, <2>1, <3>1, <3>2
  <2>2. CASE p # h /\ Parent(p) = h
    BY <1>2, <1>5, <2>2
  <2>3. CASE p # h /\ Parent(p) # h
    <3>1. p \in 1..m /\ Parent(p) \in 1..m
      BY <1>3
    <3>2. b[p] = a[p] /\ b[Parent(p)] = a[Parent(p)]
      BY <1>2, <1>5, <2>3, <3>1
    <3>3. ~(a[Parent(p)] < a[p])
      BY <1>4, <2>3
    <3> QED
      BY <3>2, <3>3
  <2> QED
    BY <2>1, <2>2, <2>3
<1>6. ASSUME NEW p \in 2..m, Parent(p) = c PROVE ~(b[Parent(c)] < b[p])
  <2>1. p # h /\ p # c /\ Parent(p) # h
    BY <1>1, <1>3, <1>6
  <2>2. ~(a[c] < a[p]) /\ b[p] = a[p]
    BY <1>2, <1>4, <1>6, <2>1
  <2> QED
    BY <1>2, <2>2
<1> QED
  BY <1>5, <1>6 DEF InOrderAround

\* An exchange moves values but loses and doubles none.
LEMMA ExchangeKeepsValues ==
  ASSUME NEW m \in Nat, NEW a, NEW b, NEW g \in 1..m, NEW h \in 1..m, Exchanged(a, b, m, g, h)
  PROVE  /\ {b[p] : p \in 1..m} = {a[p] : p \in 1..m}
         /\ (\A p, q \in 1..m : p # q => a[p] # a[q]) => \A p, q \in 1..m : p # q => b[p] # b[q]
<1>1. /\ b[g] = a[h] /\ b[h] = a[g]
      /\ \A p \in 1..m : p # g /\ p # h => b[p] = a[p]
  BY DEF Exchanged
<1>2. \A p \in 1..m : \E q \in 1..m : b[p] = a[q]
  BY <1>1
<1>3. \A p \in 1..m : \E q \in 1..m : a[p] = b[q]
  BY <1>1
<1>4. {b[p] : p \in 1..m} = {a[p] : p \in 1..m}
  BY <1>2, <1>3
<1>5. ASSUME \A p, q \in 1..m : p # q => a[p] # a[q],
             NEW p \in 1..m, NEW q \in 1..m, p # q
      PROVE  b[p] # b[q]
  BY <1>1, <1>5
<1> QED
  BY <1>4, <1>5

-----------------------------------------------------------------------------
(* The vector.                                                             *)

\* The vector with its hole filled is a sequence of rows.
LEMMA FilledIsRows ==
  HeapTypeOK =>
    /\ Filled \in Seq(Rows) /\ Len(Filled) = Len(slots) /\ Len(slots) \in Nat
    /\ \A p \in 1..Len(slots) : Filled[p] \in Rows /\ rank[Filled[p]] \in Int
    /\ Rows \subseteq Nat /\ Len(rank) \in Nat
<1> SUFFICES ASSUME HeapTypeOK
             PROVE  /\ Filled \in Seq(Rows) /\ Len(Filled) = Len(slots) /\ Len(slots) \in Nat
                    /\ \A p \in 1..Len(slots) : Filled[p] \in Rows /\ rank[Filled[p]] \in Int
                    /\ Rows \subseteq Nat /\ Len(rank) \in Nat
  OBVIOUS
<1>1. /\ slots \in Seq(Rows) /\ rank \in Seq(Ranks)
      /\ Moving => value \in Rows /\ hole \in 1..Bottom
  BY DEF HeapTypeOK
<1>2. Filled \in Seq(Rows) /\ Len(Filled) = Len(slots)
  <2>1. CASE Moving
    <3>1. Filled = [slots EXCEPT ![hole] = value]
      BY <2>1 DEF Filled
    <3>2. slots \in [1..Len(slots) -> Rows] /\ Len(slots) \in Nat /\ value \in Rows
      BY <1>1, <2>1
    <3>3. Filled \in [1..Len(slots) -> Rows]
      BY <3>1, <3>2
    <3> QED
      BY <3>2, <3>3
  <2>2. CASE ~Moving
    BY <1>1, <2>2 DEF Filled
  <2> QED
    BY <2>1, <2>2
<1>3. \A r \in Rows : rank[r] \in Int
  <2>1. \A r \in Rows : rank[r] \in Ranks
    BY <1>1 DEF Rows
  <2> QED
    BY <2>1, RanksAreIntegers
<1>4. Rows \subseteq Nat /\ Len(rank) \in Nat
  BY <1>1 DEF Rows
<1>5. Len(slots) \in Nat
  BY <1>1
<1>6. \A p \in 1..Len(slots) : Filled[p] \in Rows
  BY <1>2, <1>5
<1> QED
  BY <1>2, <1>3, <1>4, <1>5, <1>6

\* The ranks of the rows in the heap, place by place.
RankAt == [p \in 1..Bottom |-> rank[Filled[p]]]

\* OrderInv says how far the ranks are in heap order.
RanksInOrder ==
  /\ ~Moving => InOrder(RankAt, Bottom)
  /\ step \in {"push", "rise"} => InOrderBut(RankAt, Bottom, hole)
  /\ step = "sink" => InOrderAround(RankAt, Bottom, hole)

\* The heap ends within the vector.
LEMMA BottomOfHeap ==
  HeapTypeOK /\ SizeInv =>
    /\ Len(slots) \in Nat /\ Bottom \in Nat /\ Bottom <= Len(slots)
    /\ RankAt \in [1..Bottom -> Int]
<1> SUFFICES ASSUME HeapTypeOK, SizeInv
             PROVE  /\ Len(slots) \in Nat /\ Bottom \in Nat /\ Bottom <= Len(slots)
                    /\ RankAt \in [1..Bottom -> Int]
  OBVIOUS
<1>1. Len(slots) \in Nat /\ \A p \in 1..Len(slots) : rank[Filled[p]] \in Int
  BY FilledIsRows
<1>2. Bottom \in Nat /\ Bottom <= Len(slots)
  BY <1>1 DEF Bottom, SizeInv
<1> QED
  BY <1>1, <1>2 DEF RankAt

\* The heap order of rows is that of their ranks.
LEMMA OrderOfRanks == HeapTypeOK /\ SizeInv => (OrderInv <=> RanksInOrder)
<1> SUFFICES ASSUME HeapTypeOK, SizeInv PROVE OrderInv <=> RanksInOrder
  OBVIOUS
<1>1. Bottom \in Nat
  BY BottomOfHeap
<1>4. \A p, q \in 1..Bottom : Above(p, q) <=> ~(RankAt[p] < RankAt[q])
  BY DEF Above, Comp, RankAt
<1>5. \A p \in 2..Bottom : p \in 1..Bottom /\ Parent(p) \in 1..Bottom
  BY <1>1, ParentOfPlace
<1>6. \A p \in 2..Bottom : Above(Parent(p), p) <=> ~(RankAt[Parent(p)] < RankAt[p])
  BY <1>4, <1>5
<1>7. ASSUME Moving, hole > 1
      PROVE  \A p \in 2..Bottom : Above(Parent(hole), p) <=> ~(RankAt[Parent(hole)] < RankAt[p])
  <2>1. hole \in 2..Bottom
    BY <1>1, <1>7 DEF HeapTypeOK
  <2> QED
    BY <1>4, <1>5, <2>1
<1>8. Moving <=> step \in {"push", "rise"} \/ step = "sink"
  BY DEF Moving
<1>9. step = "sink" => step \notin {"push", "rise"}
  OBVIOUS
<1> HIDE DEF Above, RankAt, Bottom, Moving
<1> QED
  BY <1>6, <1>7, <1>8, <1>9 DEF OrderInv, RanksInOrder, InOrder, InOrderBut, InOrderAround

-----------------------------------------------------------------------------
(* Turns of the queue's loops.                                             *)

\* What one turn does to an invariant state: it keeps the invariant, and is a
\* step of the queue that TopK is about, or none.
Keeps == HeapInv' /\ [Queue!Next]_(Queue!vars)

\* A turn that exchanges two places of the heap moves rows inside the queue only.
LEMMA ExchangeIsStutter ==
  ASSUME HeapInv, Moving, Moving', step' = step, UNCHANGED <<rank, k, pc, i, out>>,
         Len(slots') = Len(slots), HeapTypeOK', OrderInv',
         NEW g \in 1..Bottom, NEW h \in 1..Bottom, Exchanged(Filled, Filled', Len(slots), g, h)
  PROVE  Keeps
<1>1. /\ HeapTypeOK /\ SizeInv /\ RowsInv
      /\ Len(slots) \in Nat /\ Bottom \in Nat /\ Bottom <= Len(slots) /\ Bottom' = Bottom
      /\ Popping' = Popping
  BY BottomOfHeap DEF HeapInv, Bottom, Popping
<1>2. g \in 1..Len(slots) /\ h \in 1..Len(slots) /\ Exchanged(Filled, Filled', Bottom, g, h)
  BY <1>1 DEF Exchanged
<1>3. /\ {Filled'[p] : p \in 1..Len(slots)} = {Filled[p] : p \in 1..Len(slots)}
      /\ (\A p, q \in 1..Len(slots) : p # q => Filled[p] # Filled[q])
           => \A p, q \in 1..Len(slots) : p # q => Filled'[p] # Filled'[q]
  BY <1>1, <1>2, ExchangeKeepsValues
<1>4. {Filled'[p] : p \in 1..Bottom} = {Filled[p] : p \in 1..Bottom}
  BY <1>1, <1>2, ExchangeKeepsValues
<1>5. SizeInv'
  BY <1>1 DEF SizeInv
<1>6. RowsInv'
  <2>1. /\ \A p \in 1..Len(slots) : \E q \in 1..Len(slots) : Filled'[p] = Filled[q]
        /\ \A p \in 1..Len(slots) : \E q \in 1..Len(slots) : Filled[p] = Filled'[q]
    BY <1>3
  <2> QED
    BY <1>1, <1>3, <2>1, ZenonT(60) DEF RowsInv
<1>7. UNCHANGED <<Turn, Queued>>
  BY <1>1, <1>4 DEF Turn, NextTurn, Queued, Moving, Popping
<1> QED
  BY <1>5, <1>6, <1>7 DEF Keeps, HeapInv, Queue!vars

\* A turn of __push_heap: the row rises past a parent below it.
LEMMA RiseKeeps == HeapInv /\ Rise => Keeps
<1> SUFFICES ASSUME HeapInv, Rise PROVE Keeps
  OBVIOUS
<1> DEFINE g == Parent(hole)
<1>1. /\ HeapTypeOK /\ SizeInv /\ OrderInv
      /\ step \in {"push", "rise"} /\ step' = step /\ Moving /\ Moving' /\ Popping' = Popping
      /\ hole > 1 /\ hole' = g /\ value' = value
      /\ slots' = [slots EXCEPT ![hole] = slots[g]] /\ Comp(slots[g], value)
      /\ UNCHANGED <<rank, k, pc, i, out>>
  BY DEF HeapInv, Rise, CanRise, Moving, Popping
<1>2. /\ Bottom \in Nat /\ Bottom <= Len(slots) /\ Len(slots) \in Nat
      /\ hole \in 2..Bottom /\ g \in 1..Bottom /\ g # hole /\ hole \in 1..Bottom
      /\ slots \in [1..Len(slots) -> Rows] /\ value \in Rows
  <2>1. Bottom \in Nat /\ Bottom <= Len(slots) /\ Len(slots) \in Nat
    BY <1>1, BottomOfHeap
  <2>2. hole \in 1..Bottom /\ slots \in Seq(Rows) /\ value \in Rows
    BY <1>1 DEF HeapTypeOK
  <2>3. hole \in 2..Bottom /\ g \in 1..Bottom /\ g # hole
    BY <1>1, <2>1, <2>2, ParentOfPlace
  <2> QED
    BY <2>1, <2>2, <2>3
<1>3. slots' \in Seq(Rows) /\ Len(slots') = Len(slots) /\ Rows' = Rows /\ Bottom' = Bottom
  <2>1. slots' \in [1..Len(slots) -> Rows]
    BY <1>1, <1>2
  <2>2. slots' \in Seq(Rows) /\ Len(slots') = Len(slots)
    BY <1>2, <2>1
  <2> QED
    BY <1>1, <2>2 DEF Rows, Bottom
<1>4. HeapTypeOK'
  BY <1>1, <1>2, <1>3 DEF HeapTypeOK
<1>5. Exchanged(Filled, Filled', Len(slots), hole, g)
  <2>1. Filled = [slots EXCEPT ![hole] = value] /\ Filled' = [slots' EXCEPT ![g] = value]
    BY <1>1 DEF Filled
  <2> HIDE DEF g
  <2> QED
    BY <1>1, <1>2, <2>1 DEF Exchanged
<1>6. OrderInv'
  <2>1. InOrderBut(RankAt, Bottom, hole) /\ RankAt \in [1..Bottom -> Int]
    BY <1>1, OrderOfRanks, BottomOfHeap DEF RanksInOrder
  <2>2. SizeInv'
    BY <1>1, <1>3 DEF SizeInv
  <2>3. RankAt' \in [1..Bottom -> Int]
    <3>1. (RankAt \in [1..Bottom -> Int])'
      BY <1>4, <2>2, BottomOfHeap, PTL
    <3> QED
      BY <1>3, <3>1
  <2>4. Exchanged(RankAt, RankAt', Bottom, hole, g)
    BY <1>1, <1>2, <1>3, <1>5 DEF Exchanged, RankAt
  <2>5. RankAt[g] < RankAt[hole]
    BY <1>1, <1>2 DEF RankAt, Filled, Comp
  <2>6. InOrderBut(RankAt', Bottom, g)
    BY <1>2, <2>1, <2>3, <2>4, <2>5, RisingKeepsOrder
  <2>7. OrderInv' <=> RanksInOrder'
    BY <1>4, <2>2, OrderOfRanks, PTL
  <2> QED
    BY <1>1, <1>3, <2>6, <2>7 DEF RanksInOrder
<1> QED
  BY <1>1, <1>2, <1>3, <1>4, <1>5, <1>6, ExchangeIsStutter

\* The child that moves up is one of the hole's, and no child is above it.
LEMMA LargerChildIsLarger ==
  ASSUME HeapInv, step = "sink", 2 * hole <= Bottom
  PROVE  /\ LargerChild \in 2..Bottom /\ Parent(LargerChild) = hole
         /\ \A p \in 2..Bottom : Parent(p) = hole => ~(RankAt[LargerChild] < RankAt[p])
<1>1. /\ Bottom \in Nat /\ hole \in 1..Bottom /\ Moving /\ RankAt \in [1..Bottom -> Int]
      /\ Bottom <= Len(slots) /\ Len(slots) \in Nat
  BY BottomOfHeap DEF HeapInv, HeapTypeOK, Moving
<1> DEFINE l == 2 * hole
           r == 2 * hole + 1
<1>2. /\ l \in 2..Bottom /\ Parent(l) = hole /\ l # hole /\ r # hole /\ r - 1 = l
      /\ r \in Nat /\ (~(r > Bottom) => r \in 2..Bottom) /\ Parent(r) = hole
      /\ \A p \in 2..Bottom : Parent(p) = hole => p = l \/ p = r
  <2>1. hole \in Nat /\ hole >= 1
    BY <1>1
  <2>2. /\ Parent(l) = hole /\ Parent(r) = hole
        /\ \A p \in Nat : Parent(p) = hole => p = l \/ p = r
    BY <2>1, ChildrenOfPlace
  <2> QED
    BY <1>1, <2>1, <2>2
<1>3. /\ RankAt[l] = rank[slots[l]]
      /\ r \in 2..Bottom => RankAt[r] = rank[slots[r]]
  <2>1. \A p \in 1..Bottom : p # hole => Filled[p] = slots[p]
    BY <1>1 DEF Filled, HeapInv, HeapTypeOK
  <2> QED
    BY <1>1, <1>2, <2>1 DEF RankAt
<1>4. LargerChild = IF r > Bottom \/ Comp(slots[r], slots[l]) THEN l ELSE r
  BY <1>2 DEF LargerChild
<1> HIDE DEF l, r
<1>5. CASE r > Bottom
  <2>1. LargerChild = l
    BY <1>4, <1>5
  <2>2. \A p \in 2..Bottom : Parent(p) = hole => p = l
    BY <1>1, <1>2, <1>5
  <2> QED
    BY <1>1, <1>2, <2>1, <2>2
<1>6. CASE ~(r > Bottom)
  <2>1. r \in 2..Bottom /\ RankAt[r] \in Int /\ RankAt[l] \in Int
    BY <1>1, <1>2, <1>6
  <2>2. Comp(slots[r], slots[l]) <=> RankAt[r] < RankAt[l]
    BY <1>3, <2>1 DEF Comp
  <2> QED
    BY <1>2, <1>4, <1>6, <2>1, <2>2
<1> QED
  BY <1>5, <1>6

\* A turn of __adjust_heap: the hole sinks to its larger child.
LEMMA SinkKeeps == HeapInv /\ Sink => Keeps
<1> SUFFICES ASSUME HeapInv, Sink PROVE Keeps
  OBVIOUS
<1> DEFINE c == LargerChild
<1>1. /\ HeapTypeOK /\ SizeInv /\ OrderInv
      /\ step = "sink" /\ step' = "sink" /\ Moving /\ Moving' /\ Popping' = Popping
      /\ 2 * hole <= Bottom /\ hole' = c /\ value' = value
      /\ slots' = [slots EXCEPT ![hole] = slots[c]]
      /\ UNCHANGED <<rank, k, pc, i, out>>
  BY DEF HeapInv, Sink, Moving, Popping
<1>2. /\ c \in 2..Bottom /\ Parent(c) = hole
      /\ \A p \in 2..Bottom : Parent(p) = hole => ~(RankAt[c] < RankAt[p])
  BY <1>1, LargerChildIsLarger
<1>3. /\ Bottom \in Nat /\ Bottom <= Len(slots) /\ Len(slots) \in Nat
      /\ hole \in 1..Bottom /\ c \in 1..Bottom /\ c # hole
      /\ slots \in [1..Len(slots) -> Rows] /\ value \in Rows
  <2>1. Bottom \in Nat /\ Bottom <= Len(slots) /\ Len(slots) \in Nat
    BY <1>1, BottomOfHeap
  <2>2. hole \in 1..Bottom /\ slots \in Seq(Rows) /\ value \in Rows
    BY <1>1 DEF HeapTypeOK
  <2>3. c \in Nat /\ c > 1
    BY <1>2, <2>1
  <2>4. c # hole
    BY <1>2, <2>3, ParentOfPlace
  <2> QED
    BY <1>2, <2>1, <2>2, <2>4
<1> HIDE DEF c
<1>4. slots' \in Seq(Rows) /\ Len(slots') = Len(slots) /\ Rows' = Rows /\ Bottom' = Bottom
  <2>1. slots' \in [1..Len(slots) -> Rows]
    BY <1>1, <1>3
  <2>2. slots' \in Seq(Rows) /\ Len(slots') = Len(slots)
    BY <1>3, <2>1
  <2> QED
    BY <1>1, <2>2 DEF Rows, Bottom
<1>5. HeapTypeOK'
  BY <1>1, <1>3, <1>4 DEF HeapTypeOK
<1>6. Exchanged(Filled, Filled', Len(slots), hole, c)
  <2>1. Filled = [slots EXCEPT ![hole] = value] /\ Filled' = [slots' EXCEPT ![c] = value]
    BY <1>1 DEF Filled
  <2> QED
    BY <1>1, <1>3, <2>1 DEF Exchanged
<1>7. OrderInv'
  <2>1. InOrderAround(RankAt, Bottom, hole) /\ RankAt \in [1..Bottom -> Int]
    BY <1>1, OrderOfRanks, BottomOfHeap DEF RanksInOrder
  <2>2. SizeInv'
    BY <1>1, <1>4 DEF SizeInv
  <2>3. RankAt' \in [1..Bottom -> Int]
    <3>1. (RankAt \in [1..Bottom -> Int])'
      BY <1>5, <2>2, BottomOfHeap, PTL
    <3> QED
      BY <1>4, <3>1
  <2>4. Exchanged(RankAt, RankAt', Bottom, hole, c)
    BY <1>1, <1>3, <1>4, <1>6 DEF Exchanged, RankAt
  <2>5. InOrderAround(RankAt', Bottom, c)
    BY <1>2, <1>3, <2>1, <2>3, <2>4, SinkingKeepsOrder
  <2>6. OrderInv' <=> RanksInOrder'
    BY <1>5, <2>2, OrderOfRanks, PTL
  <2> QED
    BY <1>1, <1>4, <2>5, <2>6 DEF RanksInOrder
<1> QED
  BY <1>1, <1>3, <1>4, <1>5, <1>6, <1>7, ExchangeIsStutter

\* A hole at a leaf has no children to be out of order with.
LEMMA SinkEndsKeeps == HeapInv /\ SinkEnds => Keeps
<1> SUFFICES ASSUME HeapInv, SinkEnds PROVE Keeps
  OBVIOUS
<1>1. /\ HeapTypeOK /\ SizeInv /\ RowsInv /\ OrderInv
      /\ step = "sink" /\ step' = "rise" /\ Moving /\ Moving' /\ Popping /\ Popping'
      /\ 2 * hole > Bottom
      /\ UNCHANGED <<rank, k, pc, i, out, slots, hole, value>>
  BY DEF HeapInv, SinkEnds, Moving, Popping, place
<1>2. UNCHANGED <<Bottom, Filled, Rows>>
  BY <1>1 DEF Bottom, Filled, Rows
<1>3. HeapTypeOK' /\ SizeInv' /\ RowsInv'
  BY <1>1, <1>2 DEF HeapTypeOK, SizeInv, RowsInv
<1>4. UNCHANGED <<Turn, Queued, RankAt>>
  BY <1>1, <1>2 DEF Turn, NextTurn, Queued, RankAt
<1>5. OrderInv'
  <2>1. InOrderAround(RankAt, Bottom, hole) /\ Bottom \in Nat /\ hole \in 1..Bottom
    BY <1>1, OrderOfRanks, BottomOfHeap DEF RanksInOrder, HeapTypeOK
  <2>2. \A p \in 2..Bottom : Parent(p) # hole
    BY <1>1, <2>1, ParentOfPlace
  <2>3. InOrderBut(RankAt, Bottom, hole)
    BY <2>1, <2>2 DEF InOrderBut, InOrderAround
  <2>4. OrderInv' <=> RanksInOrder'
    BY <1>3, OrderOfRanks, PTL
  <2> QED
    BY <1>1, <1>2, <1>4, <2>3, <2>4 DEF RanksInOrder
<1> QED
  BY <1>1, <1>3, <1>4, <1>5 DEF Keeps, HeapInv, Queue!vars

\* A value that need not rise any more has found its place.
LEMMA RestingIsInOrder ==
  ASSUME HeapInv, step \in {"push", "rise"}, ~CanRise
  PROVE  InOrder(RankAt, Bottom)
<1>1. /\ InOrderBut(RankAt, Bottom, hole) /\ Bottom \in Nat /\ RankAt \in [1..Bottom -> Int]
      /\ hole \in 1..Bottom /\ Bottom <= Len(slots) /\ Len(slots) \in Nat
      /\ slots \in [1..Len(slots) -> Rows] /\ Moving
  BY OrderOfRanks, BottomOfHeap DEF HeapInv, RanksInOrder, HeapTypeOK, Moving
<1>2. ASSUME hole > 1 PROVE ~(RankAt[Parent(hole)] < RankAt[hole])
  <2>1. Parent(hole) \in 1..Bottom /\ Parent(hole) # hole
    BY <1>1, <1>2, ParentOfPlace
  <2>2. Filled[hole] = value /\ Filled[Parent(hole)] = slots[Parent(hole)]
    BY <1>1, <2>1 DEF Filled
  <2> QED
    BY <1>1, <1>2, <2>1, <2>2 DEF RankAt, CanRise, Comp
<1> QED
  BY <1>1, <1>2 DEF InOrder, InOrderBut

\* A push ends: the row stands where no order is broken.
LEMMA PushEndsKeeps == HeapInv /\ PushEnds => Keeps
<1> SUFFICES ASSUME HeapInv, PushEnds PROVE Keeps
  OBVIOUS
<1>1. /\ HeapTypeOK /\ SizeInv /\ RowsInv
      /\ step = "push" /\ step' = "size" /\ Moving /\ ~Moving' /\ ~Popping /\ ~Popping' /\ ~CanRise
      /\ slots' = Filled
      /\ UNCHANGED <<rank, k, pc, i, out>>
  BY DEF HeapInv, PushEnds, Moving, Popping
<1>2. /\ Filled \in Seq(Rows) /\ Len(Filled) = Len(slots) /\ Filled' = Filled /\ Rows' = Rows
      /\ Bottom' = Bottom
  BY <1>1, FilledIsRows DEF Filled, Rows, Bottom
<1>3. HeapTypeOK' /\ SizeInv' /\ RowsInv'
  BY <1>1, <1>2 DEF HeapTypeOK, SizeInv, RowsInv
<1>4. UNCHANGED <<Turn, Queued, RankAt>>
  BY <1>1, <1>2 DEF Turn, NextTurn, Queued, RankAt
<1>5. OrderInv'
  <2>1. InOrder(RankAt, Bottom)
    BY <1>1, RestingIsInOrder
  <2>2. OrderInv' <=> RanksInOrder'
    BY <1>3, OrderOfRanks, PTL
  <2> QED
    BY <1>1, <1>2, <1>4, <2>1, <2>2 DEF RanksInOrder
<1> QED
  BY <1>1, <1>3, <1>4, <1>5 DEF Keeps, HeapInv, Queue!vars

\* A pop ends: the row of the last slot has its place, the old top is cut off.
LEMMA PopEndsKeeps == HeapInv /\ PopEnds => Keeps
<1> SUFFICES ASSUME HeapInv, PopEnds PROVE Keeps
  OBVIOUS
<1> DEFINE n == Len(slots)
<1>1. /\ HeapTypeOK /\ SizeInv /\ RowsInv
      /\ step = "rise" /\ step' = "loop" /\ Moving /\ ~Moving' /\ Popping /\ ~Popping' /\ ~CanRise
      /\ slots' = Front(Filled) /\ i' = NextTurn
      /\ UNCHANGED <<rank, k, pc, out>>
  BY DEF HeapInv, PopEnds, Moving, Popping
<1>2. /\ n \in Nat /\ n > 1 /\ Bottom = n - 1 /\ Filled \in Seq(Rows) /\ Len(Filled) = n
      /\ Rows' = Rows /\ pc \in {"scan", "drain"}
  BY <1>1, FilledIsRows DEF SizeInv, Bottom, Rows
<1>3. /\ slots' \in Seq(Rows) /\ Len(slots') = n - 1 /\ Filled' = slots' /\ Bottom' = n - 1
      /\ \A p \in 1..(n - 1) : Filled'[p] = Filled[p]
  <2>1. slots' = SubSeq(Filled, 1, n - 1)
    BY <1>1, <1>2 DEF Front
  <2>2. /\ slots' \in Seq(Rows) /\ Len(slots') = n - 1
        /\ \A p \in 1..(n - 1) : slots'[p] = Filled[p]
    BY <1>2, <2>1
  <2> QED
    BY <1>1, <2>2 DEF Filled, Bottom
<1>4. /\ pc = "scan" => i' = i + 1 /\ i \in Nat /\ i > k /\ n = k + 1 /\ i <= Len(rank) /\ k \in Nat
      /\ pc = "drain" => i' = i - 1 /\ i = n
  BY <1>1, <1>2 DEF NextTurn, SizeInv, HeapTypeOK, RowsInv
<1>5. HeapTypeOK'
  BY <1>1, <1>2, <1>3, <1>4 DEF HeapTypeOK
<1>6. SizeInv'
  <2>1. CASE pc = "scan"
    BY <1>1, <1>2, <1>3, <1>4, <2>1 DEF SizeInv
  <2>2. CASE pc = "drain"
    BY <1>1, <1>2, <1>3, <1>4, <2>2 DEF SizeInv
  <2> QED
    BY <1>2, <2>1, <2>2
<1>7. RowsInv'
  <2>1. \A p \in 1..(n - 1) : p \in 1..n
    BY <1>2
  <2>2. \A p, q \in 1..(n - 1) : p # q => Filled'[p] # Filled'[q]
    BY <1>1, <1>3, <2>1 DEF RowsInv
  <2>3. ASSUME pc = "scan" PROVE \A p \in 1..(n - 1) : Filled'[p] <= i' - 1
    <3>1. \A p \in 1..(n - 1) : Filled[p] <= i
      BY <1>1, <2>1, <2>3 DEF RowsInv
    <3>2. i' - 1 = i
      BY <1>4, <2>3
    <3> QED
      BY <1>3, <3>1, <3>2
  <2> QED
    BY <1>1, <1>3, <2>2, <2>3 DEF RowsInv
<1>8. UNCHANGED <<Turn, Queued, RankAt>>
  BY <1>1, <1>2, <1>3 DEF Turn, Queued, RankAt
<1>9. OrderInv'
  <2>1. InOrder(RankAt, Bottom)
    BY <1>1, RestingIsInOrder
  <2>2. OrderInv' <=> RanksInOrder'
    BY <1>5, <1>6, OrderOfRanks, PTL
  <2> QED
    BY <1>1, <1>2, <1>3, <1>8, <2>1, <2>2 DEF RanksInOrder
<1> QED
  BY <1>1, <1>5, <1>6, <1>7, <1>8, <1>9 DEF Keeps, HeapInv, Queue!vars

\* The row pushed is not in the queue before its turn is over.
LEMMA PushKeeps == HeapInv /\ Push => Keeps
<1> SUFFICES ASSUME HeapInv, Push PROVE Keeps
  OBVIOUS
<1> DEFINE n == Len(slots)
<1>1. /\ HeapTypeOK /\ SizeInv /\ RowsInv
      /\ pc = "scan" /\ step = "loop" /\ step' = "push" /\ i <= Len(rank)
      /\ ~Moving /\ Moving' /\ ~Popping /\ ~Popping'
      /\ slots' = Append(slots, i) /\ hole' = n + 1 /\ value' = i
      /\ UNCHANGED <<rank, k, pc, i, out>>
  BY DEF HeapInv, Push, Moving, Popping
<1>2. /\ n \in Nat /\ slots \in Seq(Rows) /\ Filled = slots /\ Bottom = n /\ Rows' = Rows
      /\ i \in Rows /\ i \in Nat /\ k \in Nat
  BY <1>1, FilledIsRows DEF Filled, Bottom, Rows, HeapTypeOK, SizeInv
<1>3. /\ slots' \in Seq(Rows) /\ Len(slots') = n + 1 /\ Bottom' = n + 1
      /\ Filled' = slots' /\ Filled'[n + 1] = i /\ \A p \in 1..n : Filled'[p] = slots[p]
  <2>1. /\ slots' \in Seq(Rows) /\ Len(slots') = n + 1 /\ slots'[n + 1] = i
        /\ \A p \in 1..n : slots'[p] = slots[p]
    BY <1>1, <1>2
  <2>2. [slots' EXCEPT ![n + 1] = i] = slots'
    BY <2>1
  <2> QED
    BY <1>1, <2>1, <2>2 DEF Filled, Bottom
<1>4. \A p \in 1..n : slots[p] < i /\ slots[p] \in Nat
  <2>1. \A p \in 1..n : slots[p] \in Nat
    BY <1>1, <1>2, FilledIsRows
  <2>2. \A p \in 1..n : slots[p] <= i - 1
    BY <1>1, <1>2 DEF RowsInv
  <2> QED
    BY <1>2, <2>1, <2>2
<1>5. HeapTypeOK'
  BY <1>1, <1>2, <1>3 DEF HeapTypeOK
<1>6. SizeInv'
  BY <1>1, <1>2, <1>3 DEF SizeInv
<1>7. RowsInv'
  <2>1. \A p \in 1..(n + 1) : p \in 1..n \/ p = n + 1
    BY <1>2
  <2>2. \A p, q \in 1..(n + 1) : p # q => Filled'[p] # Filled'[q]
    BY <1>1, <1>2, <1>3, <1>4, <2>1 DEF RowsInv
  <2>3. \A p \in 1..(n + 1) : Filled'[p] <= i
    BY <1>2, <1>3, <1>4, <2>1
  <2> QED
    BY <1>1, <1>2, <1>3, <2>2, <2>3 DEF RowsInv
<1>8. Queued' = Queued /\ Turn' = Turn
  <2>1. {Filled'[p] : p \in 1..(n + 1)} \ {i} = {slots[p] : p \in 1..n}
    <3>1. \A p \in 1..(n + 1) : p \in 1..n \/ p = n + 1
      BY <1>2
    <3>2. \A p \in 1..n : p \in 1..(n + 1) /\ slots[p] # i
      BY <1>2, <1>4
    <3> QED
      BY <1>3, <3>1, <3>2
  <2> QED
    BY <1>1, <1>2, <1>3, <2>1 DEF Queued, Turn
<1>9. OrderInv'
  <2>1. InOrder(RankAt, n) /\ RankAt \in [1..n -> Int]
    BY <1>1, <1>2, OrderOfRanks, BottomOfHeap DEF HeapInv, RanksInOrder
  <2>2. \A p \in 1..n : RankAt'[p] = RankAt[p]
    BY <1>1, <1>2, <1>3 DEF RankAt
  <2>3. \A p \in 2..(n + 1) : Parent(p) \in 1..n /\ (p = n + 1 \/ p \in 2..n) /\ Parent(p) # n + 1
    <3> TAKE p \in 2..(n + 1)
    <3>1. p \in Nat /\ p > 1 /\ p <= n + 1
      BY <1>2
    <3>2. Parent(p) \in Nat /\ Parent(p) >= 1 /\ Parent(p) < p
      BY <3>1, ParentOfPlace
    <3> QED
      BY <1>2, <3>1, <3>2
  <2>4. InOrderBut(RankAt', n + 1, n + 1)
    BY <2>1, <2>2, <2>3 DEF InOrder, InOrderBut
  <2>5. OrderInv' <=> RanksInOrder'
    BY <1>5, <1>6, OrderOfRanks, PTL
  <2> QED
    BY <1>1, <1>3, <2>4, <2>5 DEF RanksInOrder
<1> QED
  BY <1>1, <1>5, <1>6, <1>7, <1>8, <1>9 DEF Keeps, HeapInv, Queue!vars

-----------------------------------------------------------------------------
(* Turns of execute's loops.                                               *)

\* A queue that is not too large has taken the row.
LEMMA KeepKeeps == HeapInv /\ Keep => Keeps
<1> SUFFICES ASSUME HeapInv, Keep PROVE Keeps
  OBVIOUS
<1>1. /\ HeapTypeOK /\ SizeInv /\ RowsInv
      /\ pc = "scan" /\ step = "size" /\ step' = "loop" /\ Len(slots) <= k /\ i' = i + 1
      /\ ~Moving /\ ~Moving' /\ ~Popping /\ ~Popping'
      /\ UNCHANGED <<rank, k, pc, out, slots, hole, value>>
  BY DEF HeapInv, Keep, Moving, Popping, SizeInv, NextTurn, place
<1>2. /\ Filled = slots /\ UNCHANGED <<Filled, Bottom, Rows, RankAt>> /\ Bottom = Len(slots)
      /\ Len(slots) \in Nat /\ i \in Nat /\ k \in Nat
      /\ \A p \in 1..Len(slots) : slots[p] \in Nat
  BY <1>1, FilledIsRows DEF Filled, Bottom, Rows, RankAt, HeapTypeOK
<1>3. i <= k /\ Len(slots) = i /\ i <= Len(rank) /\ \E p \in 1..Len(slots) : slots[p] = i
  BY <1>1, <1>2 DEF SizeInv, RowsInv
<1>4. HeapTypeOK' /\ SizeInv' /\ RowsInv'
  BY <1>1, <1>2, <1>3 DEF HeapTypeOK, SizeInv, RowsInv
<1>5. OrderInv'
  BY <1>1, <1>2 DEF HeapInv, OrderInv, Above, Comp
<1>6. Queue!TakeRow
  <2>1. /\ Queued = {slots[p] : p \in 1..Len(slots)} \ {i} /\ Turn = i /\ Turn' = i + 1
        /\ Queued' = {slots[p] : p \in 1..Len(slots)}
    BY <1>1, <1>2 DEF Queued, Turn
  <2>2. Queued' = Queued \cup {i}
    BY <1>3, <2>1
  <2>3. ~(i > k)
    BY <1>2, <1>3
  <2> QED
    BY <1>1, <1>3, <2>1, <2>2, <2>3 DEF Queue!TakeRow
<1> QED
  BY <1>4, <1>5, <1>6 DEF Keeps, HeapInv, Queue!Next

\* A pop takes the top, which belongs last, out of the queue, and leaves the rest
\* around a hole at the top.
LEMMA PopTakesTop ==
  ASSUME HeapInv, ~Moving, Len(slots) > 0, pc \in {"scan", "drain"}, Pop,
         UNCHANGED <<rank, k, pc>>
  PROVE  /\ slots[1] \in Rows
         /\ \A p \in 1..Len(slots) : rank[slots[p]] <= rank[slots[1]]
         /\ Queued' = {slots[p] : p \in 1..Len(slots)} \ {slots[1]} /\ Turn' = NextTurn
         /\ slots' \in Seq(Rows) /\ step' \in {"loop", "sink"}
         /\ Moving' => value' \in Rows /\ hole' \in 1..Bottom'
         /\ step' = "loop" => Len(slots) = 1 /\ slots' = << >> /\ i' = NextTurn
         /\ step' = "sink" => Len(slots') = Len(slots) /\ Len(slots) > 1 /\ i' = i
         /\ \A p, q \in 1..Len(slots') : p # q => Filled'[p] # Filled'[q]
         /\ step' = "sink" =>
              {Filled'[p] : p \in 1..Len(slots)} = {slots[p] : p \in 1..Len(slots)}
         /\ HeapTypeOK' /\ SizeInv' => OrderInv'
<1> DEFINE n == Len(slots)
<1>1. /\ HeapTypeOK /\ SizeInv /\ RowsInv /\ step \in {"loop", "size"} /\ ~Popping
      /\ n \in Nat /\ n >= 1 /\ Filled = slots /\ Bottom = n
      /\ slots \in Seq(Rows) /\ slots \in [1..n -> Rows] /\ Rows' = Rows
  BY FilledIsRows DEF HeapInv, HeapTypeOK, Moving, Popping, Filled, Bottom, Rows
<1>2. /\ InOrder(RankAt, n) /\ RankAt \in [1..n -> Int]
      /\ \A p \in 1..n : RankAt[p] = rank[slots[p]]
  BY <1>1, OrderOfRanks, BottomOfHeap DEF HeapInv, RanksInOrder, RankAt
<1>3. slots[1] \in Rows /\ \A p \in 1..n : rank[slots[p]] <= rank[slots[1]]
  <2>1. \A p \in 1..n : RankAt[p] <= RankAt[1]
    BY <1>1, <1>2, TopIsLargest
  <2> QED
    BY <1>1, <1>2, <2>1
<1>4. \A p, q \in 1..n : p # q => slots[p] # slots[q]
  BY <1>1 DEF RowsInv
<1> HIDE DEF n
<1>5. CASE n = 1
  <2>1. slots' = << >> /\ i' = NextTurn /\ step' = "loop"
    BY <1>5 DEF Pop, n
  <2>2. ~Moving' /\ ~Popping' /\ Bottom' = 0 /\ Filled' = << >> /\ Len(slots') = 0
    BY <2>1 DEF Moving, Popping, Bottom, Filled
  <2>3. Queued' = {} /\ Turn' = NextTurn
    BY <2>1, <2>2 DEF Queued, Turn
  <2>4. {slots[p] : p \in 1..n} \ {slots[1]} = {}
    BY <1>5
  <2>5. OrderInv'
    BY <2>2 DEF OrderInv
  <2> QED
    BY <1>3, <1>5, <2>1, <2>2, <2>3, <2>4, <2>5 DEF n
<1>6. CASE n # 1
  <2>1. /\ slots' = [slots EXCEPT ![n] = slots[1]] /\ value' = slots[n] /\ hole' = 1
        /\ step' = "sink" /\ i' = i
    BY <1>1, <1>6 DEF Pop, Last, n
  <2>2. /\ n \in 1..n /\ 1 \in 1..n /\ n > 1 /\ n - 1 \in Nat /\ slots[n] \in Rows
        /\ slots' \in [1..n -> Rows] /\ slots' \in Seq(Rows) /\ Len(slots') = n
    <3>1. n \in 1..n /\ 1 \in 1..n /\ n > 1 /\ n - 1 \in Nat /\ slots[n] \in Rows
      BY <1>1, <1>6
    <3>2. slots' \in [1..n -> Rows]
      BY <1>1, <2>1, <3>1
    <3> QED
      BY <1>1, <3>1, <3>2
  <2>3. /\ Moving' /\ Popping' /\ Bottom' = n - 1 /\ Filled' = [slots' EXCEPT ![1] = slots[n]]
        /\ hole' \in 1..Bottom'
    <3>1. Moving' /\ Popping'
      BY <2>1 DEF Moving, Popping
    <3>2. Bottom' = n - 1 /\ Filled' = [slots' EXCEPT ![1] = slots[n]]
      BY <2>1, <2>2, <3>1 DEF Bottom, Filled
    <3> QED
      BY <2>1, <2>2, <3>1, <3>2
  <2>4. Exchanged(slots, Filled', n, 1, n)
    BY <1>1, <2>1, <2>2, <2>3 DEF Exchanged
  <2>5. /\ {Filled'[p] : p \in 1..n} = {slots[p] : p \in 1..n}
        /\ \A p, q \in 1..n : p # q => Filled'[p] # Filled'[q]
    <3> DEFINE a == slots
               b == Filled'
    <3>1. /\ n \in Nat /\ 1 \in 1..n /\ n \in 1..n /\ Exchanged(a, b, n, 1, n)
          /\ \A p, q \in 1..n : p # q => a[p] # a[q]
      BY <1>1, <1>4, <2>2, <2>4
    <3> HIDE DEF a, b
    <3>2. /\ {b[p] : p \in 1..n} = {a[p] : p \in 1..n}
          /\ \A p, q \in 1..n : p # q => b[p] # b[q]
      BY <3>1, ExchangeKeepsValues
    <3> QED
      BY <3>2 DEF a, b
  <2>6. {Filled'[p] : p \in 1..(n - 1)} = {slots[p] : p \in 1..n} \ {slots[1]}
    <3>1. Filled'[n] = slots[1]
      BY <2>4 DEF Exchanged
    <3>2. \A p \in 1..n : p \in 1..(n - 1) \/ p = n
      BY <1>1
    <3>3. \A p \in 1..(n - 1) : p \in 1..n /\ p # n
      BY <1>1
    <3>4. ASSUME NEW p \in 1..(n - 1) PROVE Filled'[p] \in {slots[q] : q \in 1..n} \ {slots[1]}
      <4>1. p \in 1..n /\ n \in 1..n /\ p # n
        BY <2>2, <3>3
      <4>2. Filled'[p] # Filled'[n]
        BY <2>5, <4>1
      <4> QED
        BY <2>5, <3>1, <4>1, <4>2
    <3>5. ASSUME NEW v \in {slots[q] : q \in 1..n}, v # slots[1]
          PROVE  \E p \in 1..(n - 1) : Filled'[p] = v
      <4>1. PICK p \in 1..n : Filled'[p] = v
        BY <2>5
      <4> QED
        BY <3>1, <3>2, <3>5, <4>1
    <3>6. {Filled'[p] : p \in 1..(n - 1)} \subseteq {slots[q] : q \in 1..n} \ {slots[1]}
      BY <3>4
    <3>7. {slots[q] : q \in 1..n} \ {slots[1]} \subseteq {Filled'[p] : p \in 1..(n - 1)}
      BY <3>5
    <3> QED
      BY <3>6, <3>7
  <2>7. Queued' = {slots[p] : p \in 1..n} \ {slots[1]} /\ Turn' = NextTurn
    <3>1. Queued' = {Filled'[p] : p \in 1..Bottom'}
      BY <2>1, <2>3 DEF Queued
    <3>2. Turn' = NextTurn
      BY <2>1, <2>3 DEF Turn, NextTurn
    <3> QED
      BY <2>3, <2>6, <3>1, <3>2
  <2>8. ASSUME HeapTypeOK', SizeInv' PROVE OrderInv'
    <3>1. OrderInv' <=> RanksInOrder'
      BY <2>8, OrderOfRanks, PTL
    <3>2. \A p \in 2..(n - 1) : RankAt'[p] = RankAt[p]
      <4> TAKE p \in 2..(n - 1)
      <4>1. p \in 1..n /\ p # 1 /\ p # n /\ p \in 1..(n - 1)
        BY <1>1
      <4>2. Filled'[p] = slots[p]
        BY <2>4, <4>1 DEF Exchanged
      <4> QED
        BY <1>2, <2>3, <4>1, <4>2 DEF RankAt
    <3>3. InOrderAround(RankAt', n - 1, 1)
      <4>1. ASSUME NEW p \in 2..(n - 1), Parent(p) # 1
            PROVE  ~(RankAt'[Parent(p)] < RankAt'[p])
        <5>1. p \in 2..n /\ p \in Nat /\ p > 1
          BY <1>1
        <5>2. Parent(p) \in 2..(n - 1)
          BY <1>1, <4>1, <5>1, ParentOfPlace
        <5> QED
          BY <1>2, <3>2, <4>1, <5>1, <5>2 DEF InOrder
      <4> QED
        BY <4>1 DEF InOrderAround
    <3> QED
      BY <2>1, <2>3, <3>1, <3>3 DEF RanksInOrder, Moving
  <2> QED
    BY <1>3, <1>6, <2>1, <2>2, <2>3, <2>5, <2>7, <2>8 DEF n
<1> QED
  BY <1>5, <1>6

\* The scan pops a row the queue has too many: it removes a last row.
LEMMA DropKeeps == HeapInv /\ Drop => Keeps
<1> SUFFICES ASSUME HeapInv, Drop PROVE Keeps
  OBVIOUS
<1>1. /\ HeapTypeOK /\ SizeInv /\ RowsInv
      /\ pc = "scan" /\ step = "size" /\ Len(slots) > k /\ Pop /\ UNCHANGED <<rank, k, pc, out>>
      /\ ~Moving /\ ~Popping /\ Filled = slots /\ Bottom = Len(slots)
      /\ Rows' = Rows /\ NextTurn = i + 1
  BY DEF HeapInv, Drop, SizeInv, Moving, Popping, Filled, Bottom, Rows, NextTurn
<1>2. /\ Len(slots) \in Nat /\ Len(slots) > 0 /\ i \in Nat /\ k \in Nat /\ k < Len(rank)
      /\ i > k /\ Len(slots) = k + 1 /\ i <= Len(rank)
      /\ \A p \in 1..Len(slots) : slots[p] <= i
      /\ \E p \in 1..Len(slots) : slots[p] = i
  BY <1>1, FilledIsRows DEF SizeInv, RowsInv, HeapTypeOK
<1>3. /\ slots[1] \in Rows
      /\ \A p \in 1..Len(slots) : rank[slots[p]] <= rank[slots[1]]
      /\ Queued' = {slots[p] : p \in 1..Len(slots)} \ {slots[1]} /\ Turn' = NextTurn
      /\ slots' \in Seq(Rows) /\ step' \in {"loop", "sink"}
      /\ Moving' => value' \in Rows /\ hole' \in 1..Bottom'
      /\ step' = "loop" => Len(slots) = 1 /\ slots' = << >> /\ i' = NextTurn
      /\ step' = "sink" => Len(slots') = Len(slots) /\ Len(slots) > 1 /\ i' = i
      /\ \A p, q \in 1..Len(slots') : p # q => Filled'[p] # Filled'[q]
      /\ step' = "sink" => {Filled'[p] : p \in 1..Len(slots)} = {slots[p] : p \in 1..Len(slots)}
      /\ HeapTypeOK' /\ SizeInv' => OrderInv'
  BY <1>1, <1>2, PopTakesTop
<1>4. HeapTypeOK'
  BY <1>1, <1>2, <1>3 DEF HeapTypeOK
<1>5. SizeInv'
  <2>1. CASE step' = "loop"
    BY <1>1, <1>2, <1>3, <2>1 DEF SizeInv, Popping
  <2>2. CASE step' = "sink"
    BY <1>1, <1>2, <1>3, <2>2 DEF SizeInv, Popping
  <2> QED
    BY <1>3, <2>1, <2>2
<1>6. RowsInv'
  <2>1. CASE step' = "loop"
    BY <1>1, <1>3, <2>1 DEF RowsInv
  <2>2. CASE step' = "sink"
    <3>1. /\ \A p \in 1..Len(slots) : \E q \in 1..Len(slots) : Filled'[p] = slots[q]
          /\ \A p \in 1..Len(slots) : \E q \in 1..Len(slots) : slots[p] = Filled'[q]
      BY <1>3, <2>2, ZenonT(60)
    <3>2. /\ \A p \in 1..Len(slots) : Filled'[p] <= i
          /\ \E p \in 1..Len(slots) : Filled'[p] = i
      BY <1>2, <3>1
    <3> QED
      BY <1>1, <1>2, <1>3, <2>2, <3>2 DEF RowsInv
  <2> QED
    BY <1>3, <2>1, <2>2
<1>7. Queue!TakeRow
  <2> DEFINE pushed == Queued \cup {i}
  <2>1. pushed = {slots[p] : p \in 1..Len(slots)}
    <3>1. Queued = {slots[p] : p \in 1..Len(slots)} \ {i}
      BY <1>1 DEF Queued
    <3> QED
      BY <1>2, <3>1
  <2>2. slots[1] \in Queue!Tops(pushed)
    BY <1>2, <1>3, <2>1 DEF Queue!Tops
  <2>3. Turn = i /\ Turn' = i + 1
    BY <1>1, <1>3 DEF Turn
  <2> QED
    BY <1>1, <1>2, <1>3, <2>1, <2>2, <2>3 DEF Queue!TakeRow
<1> QED
  BY <1>3, <1>4, <1>5, <1>6, <1>7 DEF Keeps, HeapInv, Queue!Next

\* The drain pops the row it has just laid out.
LEMMA DrainTopKeeps == HeapInv /\ DrainTop => Keeps
<1> SUFFICES ASSUME HeapInv, DrainTop PROVE Keeps
  OBVIOUS
<1>1. /\ HeapTypeOK /\ SizeInv /\ RowsInv
      /\ pc = "drain" /\ step = "loop" /\ i > 0 /\ Pop /\ UNCHANGED <<rank, k, pc>>
      /\ out' = [out EXCEPT ![i] = Head(slots)]
      /\ ~Moving /\ ~Popping /\ Filled = slots /\ Bottom = Len(slots)
      /\ Rows' = Rows /\ NextTurn = i - 1
  BY DEF HeapInv, DrainTop, Moving, Popping, Filled, Bottom, Rows, NextTurn
<1>2. /\ Len(slots) = i /\ i \in Nat /\ k \in Nat /\ i <= k /\ k < Len(rank) /\ Len(out) = k
      /\ Len(slots) > 0 /\ out \in Seq(Nat) /\ Rows \subseteq Nat /\ slots \in Seq(Rows)
  BY <1>1, FilledIsRows DEF SizeInv, HeapTypeOK
<1>3. /\ slots[1] \in Rows
      /\ \A p \in 1..Len(slots) : rank[slots[p]] <= rank[slots[1]]
      /\ Queued' = {slots[p] : p \in 1..Len(slots)} \ {slots[1]} /\ Turn' = NextTurn
      /\ slots' \in Seq(Rows) /\ step' \in {"loop", "sink"}
      /\ Moving' => value' \in Rows /\ hole' \in 1..Bottom'
      /\ step' = "loop" => Len(slots) = 1 /\ slots' = << >> /\ i' = NextTurn
      /\ step' = "sink" => Len(slots') = Len(slots) /\ Len(slots) > 1 /\ i' = i
      /\ \A p, q \in 1..Len(slots') : p # q => Filled'[p] # Filled'[q]
      /\ HeapTypeOK' /\ SizeInv' => OrderInv'
  BY <1>1, <1>2, PopTakesTop
<1>4. out' \in Seq(Nat) /\ Len(out') = k
  <2>1. Head(slots) = slots[1]
    BY <1>2
  <2>2. Head(slots) \in Nat
    BY <1>2, <1>3, <2>1
  <2>3. out \in [1..Len(out) -> Nat]
    BY <1>2
  <2>4. out \in [1..k -> Nat]
    BY <1>2, <2>3
  <2>5. out' \in [1..k -> Nat]
    BY <1>1, <2>2, <2>4
  <2> QED
    BY <1>2, <2>5
<1>5. HeapTypeOK'
  BY <1>1, <1>2, <1>3, <1>4 DEF HeapTypeOK
<1>6. SizeInv'
  <2>1. CASE step' = "loop"
    BY <1>1, <1>2, <1>3, <1>4, <2>1 DEF SizeInv, Popping
  <2>2. CASE step' = "sink"
    BY <1>1, <1>2, <1>3, <1>4, <2>2 DEF SizeInv, Popping
  <2> QED
    BY <1>3, <2>1, <2>2
<1>7. RowsInv'
  BY <1>1, <1>3 DEF RowsInv
<1>8. Queue!DrainTop
  <2>1. Queued = {slots[p] : p \in 1..Len(slots)} /\ Turn = i
    BY <1>1 DEF Queued, Turn
  <2>2. slots[1] \in Queue!Tops(Queued)
    BY <1>2, <1>3, <2>1, SMTT(30) DEF Queue!Tops
  <2>3. Head(slots) = slots[1]
    BY <1>2
  <2> QED
    BY <1>1, <1>3, <2>1, <2>2, <2>3 DEF Queue!DrainTop
<1> QED
  BY <1>3, <1>5, <1>6, <1>7, <1>8 DEF Keeps, HeapInv, Queue!Next

\* The steps between the loops, where the queue rests.
LEMMA RestKeeps ==
  HeapInv /\ (SortAll \/ StartScan \/ StartDrain \/ Return \/ UNCHANGED vars) => Keeps
<1> SUFFICES ASSUME HeapInv, SortAll \/ StartScan \/ StartDrain \/ Return \/ UNCHANGED vars
             PROVE  Keeps
  OBVIOUS
<1>1. /\ HeapTypeOK /\ SizeInv /\ RowsInv /\ OrderInv
      /\ UNCHANGED <<rank, k, slots, step, hole, value>>
  BY DEF HeapInv, SortAll, StartScan, StartDrain, Return, vars, place
<1>2. UNCHANGED <<Rows, Moving, Popping, Bottom, Filled>>
  BY <1>1 DEF Rows, Moving, Popping, Bottom, Filled
<1>3. OrderInv'
  BY <1>1, <1>2 DEF OrderInv, Above, Comp
<1>4. /\ Queue!Rows = Rows /\ Rows \subseteq Nat /\ Len(rank) \in Nat /\ k \in Nat
      /\ Len(slots) \in Nat
  BY <1>1, FilledIsRows DEF Queue!Rows, Rows, HeapTypeOK
<1>5. CASE SortAll
  <2>1. /\ pc = "start" /\ pc' = "done" /\ i' = i /\ step = "loop" /\ out' \in Queue!StableOrders
        /\ Len(rank) <= k
    BY <1>1, <1>5 DEF SortAll, SizeInv
  <2>2. out' \in Seq(Nat)
    <3>1. out' \in [1..Len(rank) -> Nat]
      BY <1>4, <2>1 DEF Queue!StableOrders, Rows
    <3> QED
      BY <1>4, <3>1
  <2>3. HeapTypeOK' /\ SizeInv' /\ RowsInv'
    BY <1>1, <1>2, <2>1, <2>2 DEF HeapTypeOK, SizeInv, RowsInv
  <2>4. UNCHANGED <<Queued, Turn>>
    BY <1>1, <1>2, <2>1 DEF Queued, Turn, Popping
  <2>5. Queue!SortAll
    BY <1>1, <2>1, <2>4 DEF Queue!SortAll
  <2> QED
    BY <1>3, <2>3, <2>5 DEF Keeps, HeapInv, Queue!Next
<1>6. CASE StartScan
  <2>1. /\ pc = "start" /\ pc' = "scan" /\ UNCHANGED <<i, out>> /\ step = "loop" /\ Len(rank) > k
        /\ i = 1 /\ slots = << >>
    BY <1>1, <1>6 DEF StartScan, SizeInv
  <2>2. HeapTypeOK' /\ SizeInv' /\ RowsInv'
    BY <1>1, <1>2, <1>4, <2>1 DEF HeapTypeOK, SizeInv, RowsInv, Popping
  <2>3. UNCHANGED <<Queued, Turn>>
    BY <1>1, <1>2, <2>1 DEF Queued, Turn, Popping
  <2>4. Queue!StartScan
    BY <1>1, <2>1, <2>3 DEF Queue!StartScan
  <2> QED
    BY <1>3, <2>2, <2>4 DEF Keeps, HeapInv, Queue!Next
<1>7. CASE StartDrain
  <2>1. /\ pc = "scan" /\ pc' = "drain" /\ i > Len(rank) /\ i' = k /\ step = "loop"
        /\ out' = [x \in 1..k |-> 0]
    BY <1>7 DEF StartDrain
  <2>2. k < Len(rank) /\ i \in Nat /\ Len(slots) = k
    BY <1>1, <1>4, <2>1 DEF SizeInv, HeapTypeOK
  <2>3. out' \in Seq(Nat) /\ Len(out') = k
    BY <1>4, <2>1
  <2>4. HeapTypeOK' /\ SizeInv' /\ RowsInv'
    BY <1>1, <1>2, <1>4, <2>1, <2>2, <2>3 DEF HeapTypeOK, SizeInv, RowsInv, Popping
  <2>5. UNCHANGED Queued /\ Turn = i /\ Turn' = k
    BY <1>1, <1>2, <2>1 DEF Queued, Turn, Popping
  <2>6. Queue!StartDrain
    BY <1>1, <2>1, <2>5 DEF Queue!StartDrain
  <2> QED
    BY <1>3, <2>4, <2>6 DEF Keeps, HeapInv, Queue!Next
<1>8. CASE Return
  <2>1. pc = "drain" /\ pc' = "done" /\ step = "loop" /\ i = 0 /\ UNCHANGED <<i, out>>
    BY <1>8 DEF Return
  <2>2. HeapTypeOK' /\ SizeInv' /\ RowsInv'
    BY <1>1, <1>2, <2>1 DEF HeapTypeOK, SizeInv, RowsInv, Popping
  <2>3. UNCHANGED <<Queued, Turn>> /\ Turn = i
    BY <1>1, <1>2, <2>1 DEF Queued, Turn, Popping
  <2>4. Queue!Return
    BY <1>1, <2>1, <2>3 DEF Queue!Return
  <2> QED
    BY <1>3, <2>2, <2>4 DEF Keeps, HeapInv, Queue!Next
<1>9. CASE UNCHANGED vars
  <2>1. UNCHANGED <<pc, i, out>>
    BY <1>9 DEF vars
  <2>2. HeapTypeOK' /\ SizeInv' /\ RowsInv'
    BY <1>1, <1>2, <2>1 DEF HeapTypeOK, SizeInv, RowsInv
  <2>3. UNCHANGED <<Queued, Turn>>
    BY <1>1, <1>2, <2>1 DEF Queued, Turn, NextTurn
  <2> QED
    BY <1>1, <1>3, <2>1, <2>2, <2>3 DEF Keeps, HeapInv, Queue!vars
<1> QED
  BY <1>5, <1>6, <1>7, <1>8, <1>9

-----------------------------------------------------------------------------
\* Every step keeps the invariant and is a step of the priority queue, or none.
LEMMA StepKeeps == HeapInv /\ [Next]_vars => Keeps
<1> SUFFICES ASSUME HeapInv, [Next]_vars PROVE Keeps
  OBVIOUS
<1> QED
  BY RestKeeps, PushKeeps, RiseKeeps, PushEndsKeeps, KeepKeeps, DropKeeps, SinkKeeps,
     SinkEndsKeeps, PopEndsKeeps, DrainTopKeeps
  DEF Next

\* The call starts in the invariant, and as TopK starts.
LEMMA InitHolds == Init => HeapInv /\ Queue!Init
<1> SUFFICES ASSUME Init PROVE HeapInv /\ Queue!Init
  OBVIOUS
<1>1. /\ rank \in UNION {[1..n -> Ranks] : n \in 0..MaxRows} /\ k \in 0..MaxK /\ pc = "start"
      /\ i = 1 /\ out = << >> /\ slots = << >> /\ step = "loop" /\ hole = 1 /\ value = 1
  BY DEF Init
<1>2. rank \in Seq(Ranks) /\ k \in Nat
  BY <1>1, BoundsAreNaturals
<1>3. ~Moving /\ ~Popping /\ Filled = << >> /\ Bottom = 0
  BY <1>1 DEF Moving, Popping, Filled, Bottom
<1>4. HeapTypeOK /\ SizeInv /\ RowsInv /\ OrderInv
  BY <1>1, <1>2, <1>3 DEF HeapTypeOK, SizeInv, RowsInv, OrderInv
<1>5. Queued = {} /\ Turn = 1
  BY <1>1, <1>3 DEF Queued, Turn
<1> QED
  BY <1>1, <1>4, <1>5 DEF HeapInv, Queue!Init

\* What the loops of push_heap and pop_heap have done so far, at every turn: the
\* inductive invariant of the queue.
THEOREM HeapInductiveInvariant == Spec => []HeapInv
<1>1. HeapInv /\ [Next]_vars => HeapInv'
  BY StepKeeps DEF Keeps
<1> QED
  BY <1>1, InitHolds, PTL DEF Spec

\* The vector is a heap whenever an operation of the queue begins, for every
\* sequence of pushes and pops, every input and every k.
THEOREM VectorIsHeap == Spec => []HeapOrdered
<1>1. HeapInv => HeapOrdered
  <2> SUFFICES ASSUME HeapInv, step \in {"loop", "size"}
               PROVE  /\ IsInjective(slots)
                      /\ \A p \in 2..Len(slots) : ~Comp(slots[Parent(p)], slots[p])
    BY DEF HeapOrdered
  <2>1. /\ ~Moving /\ Filled = slots /\ Bottom = Len(slots) /\ slots \in Seq(Rows)
        /\ RowsInv /\ OrderInv
    BY DEF HeapInv, HeapTypeOK, Moving, Popping, Filled, Bottom
  <2>2. DOMAIN slots = 1..Len(slots)
    BY <2>1
  <2> QED
    BY <2>1, <2>2 DEF IsInjective, RowsInv, OrderInv, Above
<1> QED
  BY <1>1, HeapInductiveInvariant, PTL

\* Every push and pop of the binary heap is one a priority queue may make.
THEOREM HeapIsPriorityQueue == Spec => ImplementsTopK
<1>1. HeapInv /\ [Next]_vars => [Queue!Next]_(Queue!vars)
  BY StepKeeps DEF Keeps
<1> QED
  BY <1>1, InitHolds, HeapInductiveInvariant, PTL DEF Spec, ImplementsTopK, Queue!Spec

\* The queued rows are a best part of the rows seen, and the drain lays them out in
\* order: TopK's invariant holds of the binary heap, whose steps are TopK's.
LEMMA HeapKeepsTopKInv == Spec => [](HeadInv /\ IsHeadOfSort)
<1>1. TP!Spec => []TP!HeadInv
  BY TP!TopKInductiveInvariant, RanksAreIntegers, BoundsAreNaturals
     DEF TP!RanksAreIntegers, TP!BoundsAreNaturals
<1>2. TP!Init <=> Queue!Init
  BY DEF TP!Init, Queue!Init
<1>3. [TP!Next]_(TP!vars) <=> [Queue!Next]_(Queue!vars)
  BY DEF TP!Next, Queue!Next, TP!vars, Queue!vars, TP!SortAll, Queue!SortAll, TP!StartScan,
         Queue!StartScan, TP!TakeRow, Queue!TakeRow, TP!StartDrain, Queue!StartDrain,
         TP!DrainTop, Queue!DrainTop, TP!Return, Queue!Return, TP!Tops, Queue!Tops,
         TP!StableOrders, Queue!StableOrders, TP!StableBefore, Queue!StableBefore,
         TP!Rows, Queue!Rows
<1>4. TP!HeadInv => Queue!HeadInv /\ Queue!IsHeadOfSort
  BY DEF TP!HeadInv, Queue!HeadInv, TP!IsHeadOfSort, Queue!IsHeadOfSort, TP!TypeOK, Queue!TypeOK,
         TP!ScanInv, Queue!ScanInv, TP!DrainInv, Queue!DrainInv, TP!Returned, Queue!Returned,
         TP!Rows, Queue!Rows, TP!Cardinality, Queue!Cardinality
<1>5. Queue!Spec => TP!Spec
  BY <1>2, <1>3, PTL DEF TP!Spec, Queue!Spec
<1> QED
  BY <1>1, <1>4, <1>5, HeapIsPriorityQueue, PTL DEF ImplementsTopK, HeadInv, IsHeadOfSort

\* At every turn the queue has as many rows as fit and none that belongs behind a
\* row thrown out, and what the drain has laid out is in order behind the rest.
THEOREM HeapKeepsBestRows == Spec => []HeadInv
BY HeapKeepsTopKInv, PTL

\* TopK over the binary heap returns the head of the sort up to ties, for every
\* input and k.
THEOREM HeapReturnsHeadOfSort == Spec => []IsHeadOfSort
BY HeapKeepsTopKInv, PTL

-----------------------------------------------------------------------------
(* The end of the call.                                                    *)

\* Four numbers get lower at the first ...
LEMMA LowerFirst ==
  ASSUME NEW new, NEW old, old = <<old[1], old[2], old[3], old[4]>>, new[1] < old[1]
  PROVE  Lower(new, old)
<1>1. 1 \in DOMAIN old /\ \A m \in 1..(1 - 1) : FALSE
  OBVIOUS
<1> QED
  BY <1>1 DEF Lower

\* ... at the second ...
LEMMA LowerSecond ==
  ASSUME NEW new, NEW old, old = <<old[1], old[2], old[3], old[4]>>,
         new[1] = old[1], new[2] < old[2]
  PROVE  Lower(new, old)
<1>1. 2 \in DOMAIN old /\ \A m \in 1..(2 - 1) : m = 1
  OBVIOUS
<1> QED
  BY <1>1 DEF Lower

\* ... at the third ...
LEMMA LowerThird ==
  ASSUME NEW new, NEW old, old = <<old[1], old[2], old[3], old[4]>>,
         new[1] = old[1], new[2] = old[2], new[3] < old[3]
  PROVE  Lower(new, old)
<1>1. 3 \in DOMAIN old /\ \A m \in 1..(3 - 1) : m = 1 \/ m = 2
  OBVIOUS
<1> QED
  BY <1>1 DEF Lower

\* ... or at the fourth.
LEMMA LowerFourth ==
  ASSUME NEW new, NEW old, old = <<old[1], old[2], old[3], old[4]>>,
         new[1] = old[1], new[2] = old[2], new[3] = old[3], new[4] < old[4]
  PROVE  Lower(new, old)
<1>1. 4 \in DOMAIN old /\ \A m \in 1..(4 - 1) : m = 1 \/ m = 2 \/ m = 3
  OBVIOUS
<1> QED
  BY <1>1 DEF Lower

\* The loops and the hole stay within bounds.
LEMMA RemainingIsNatural ==
  ASSUME HeapInv
  PROVE  /\ Remaining \in Nat \X Nat \X Nat \X Nat
         /\ Remaining = <<Remaining[1], Remaining[2], Remaining[3], Remaining[4]>>
<1>1. /\ pc \in {"start", "scan", "drain", "done"}
      /\ step \in {"loop", "push", "size", "sink", "rise"}
      /\ i \in Nat /\ Len(rank) \in Nat
      /\ pc = "scan" => i <= Len(rank) + 1
  BY FilledIsRows DEF HeapInv, HeapTypeOK, SizeInv
<1>2. Bottom \in Nat /\ (Moving => hole \in 1..Bottom)
  BY BottomOfHeap DEF HeapInv, HeapTypeOK
<1>3. LoopsLeft \in Nat /\ StepsLeft \in Nat
  BY <1>1 DEF LoopsLeft, StepsLeft
<1>4. TurnsLeft \in Nat
  BY <1>1 DEF TurnsLeft
<1>5. WayLeft \in Nat
  BY <1>1, <1>2 DEF WayLeft, Moving
<1> QED
  BY <1>3, <1>4, <1>5 DEF Remaining

\* The turn of the caller's loop ends.
LEMMA TurnEnds ==
  ASSUME HeapInv, pc \in {"scan", "drain"}, pc' = pc, rank' = rank, i' = NextTurn
  PROVE  Lower(Remaining', Remaining)
<1> DEFINE old == Remaining
           new == Remaining'
<1>1. old = <<old[1], old[2], old[3], old[4]>>
  BY RemainingIsNatural
<1>2. i \in Nat /\ Len(rank) \in Nat
  BY FilledIsRows DEF HeapInv, HeapTypeOK
<1>3. new[1] = old[1] /\ new[2] < old[2]
  BY <1>2 DEF Remaining, LoopsLeft, TurnsLeft, NextTurn
<1> HIDE DEF old, new
<1>4. Lower(new, old)
  BY <1>1, <1>3, LowerSecond
<1> QED
  BY <1>4 DEF new, old

\* The queue's code goes on to its next loop.
LEMMA LoopEnds ==
  ASSUME HeapInv, UNCHANGED <<rank, pc, i>>,
         \/ step = "loop" /\ step' \in {"push", "sink"}
         \/ step = "push" /\ step' = "size"
         \/ step = "size" /\ step' = "sink"
         \/ step = "sink" /\ step' = "rise"
  PROVE  Lower(Remaining', Remaining)
<1> DEFINE old == Remaining
           new == Remaining'
<1>1. old = <<old[1], old[2], old[3], old[4]>>
  BY RemainingIsNatural
<1>2. pc \in {"start", "scan", "drain", "done"} /\ rank' = rank /\ pc' = pc /\ i' = i
  BY DEF HeapInv, HeapTypeOK
<1>3. LoopsLeft' = LoopsLeft
  BY <1>2 DEF LoopsLeft
<1>4. TurnsLeft' = TurnsLeft
  BY <1>2 DEF TurnsLeft
<1>5. new[1] = old[1] /\ new[2] = old[2]
  BY <1>3, <1>4 DEF Remaining
<1>6. new[3] < old[3]
  BY DEF Remaining, StepsLeft
<1> HIDE DEF old, new
<1>7. Lower(new, old)
  BY <1>1, <1>5, <1>6, LowerThird
<1> QED
  BY <1>7 DEF new, old

\* The loops of execute end.
LEMMA PhaseEnds ==
  ASSUME HeapInv, SortAll \/ StartScan \/ StartDrain \/ Return
  PROVE  Lower(Remaining', Remaining)
<1> DEFINE old == Remaining
           new == Remaining'
<1>1. old = <<old[1], old[2], old[3], old[4]>>
  BY RemainingIsNatural
<1>2. new[1] < old[1]
  BY DEF SortAll, StartScan, StartDrain, Return, Remaining, LoopsLeft
<1> HIDE DEF old, new
<1>3. Lower(new, old)
  BY <1>1, <1>2, LowerFirst
<1> QED
  BY <1>3 DEF new, old

\* The hole moves on.
LEMMA HoleMoves ==
  ASSUME HeapInv, Rise \/ Sink
  PROVE  Lower(Remaining', Remaining)
<1> DEFINE old == Remaining
           new == Remaining'
<1>1. old = <<old[1], old[2], old[3], old[4]>>
  BY RemainingIsNatural
<1>2. UNCHANGED <<rank, pc, i, step>> /\ Moving
  BY DEF Rise, Sink, Moving
<1>3. /\ pc \in {"start", "scan", "drain", "done"}
      /\ step \in {"loop", "push", "size", "sink", "rise"}
  BY DEF HeapInv, HeapTypeOK
<1>4. LoopsLeft' = LoopsLeft /\ StepsLeft' = StepsLeft
  BY <1>3, <1>2 DEF LoopsLeft, StepsLeft
<1>5. TurnsLeft' = TurnsLeft
  BY <1>3, <1>2 DEF TurnsLeft
<1>6. new[1] = old[1] /\ new[2] = old[2] /\ new[3] = old[3]
  BY <1>4, <1>5 DEF Remaining
<1>7. /\ slots \in Seq(Rows) /\ hole \in 1..Bottom /\ hole \in Nat
      /\ Bottom \in Nat /\ Bottom <= Len(slots)
  BY <1>2, BottomOfHeap DEF HeapInv, HeapTypeOK
<1>8. Len(slots') = Len(slots) /\ Bottom' = Bottom
  BY <1>2, <1>7 DEF Rise, Sink, Bottom, Popping
<1>9. CASE Rise
  <2>1. hole' = Parent(hole) /\ hole > 1 /\ step \in {"push", "rise"} /\ step' = step
    BY <1>9 DEF Rise, CanRise
  <2>2. hole' < hole
    BY <1>7, <2>1, ParentOfPlace
  <2>3. old[4] = hole /\ new[4] = hole'
    BY <2>1 DEF Remaining, WayLeft
  <2> HIDE DEF old, new
  <2>4. Lower(new, old)
    BY <1>1, <1>6, <2>2, <2>3, LowerFourth
  <2> QED
    BY <2>4 DEF new, old
<1>10. CASE Sink
  <2>1. hole' = LargerChild /\ step = "sink" /\ step' = step
    BY <1>10 DEF Sink
  <2>2. hole' \in Int /\ hole' > hole
    <3> HIDE DEF Bottom, Comp
    <3> QED
      BY <1>7, <2>1 DEF LargerChild
  <2>3. WayLeft = Bottom - hole /\ WayLeft' = Bottom' - hole'
    BY <2>1 DEF WayLeft
  <2>4. Bottom - hole' < Bottom - hole
    <3>1. \A b, g, h \in Int : h > g => b - h < b - g
      OBVIOUS
    <3>2. Bottom \in Int /\ hole \in Int
      BY <1>7
    <3> QED
      BY <2>2, <3>1, <3>2
  <2>5. new[4] < old[4]
    BY <1>8, <2>3, <2>4 DEF Remaining
  <2> HIDE DEF old, new
  <2>6. Lower(new, old)
    BY <1>1, <1>6, <2>5, LowerFourth
  <2> QED
    BY <2>6 DEF new, old
<1> QED
  BY <1>9, <1>10

\* Every step of the loops lowers it.
LEMMA StepRunsDown ==
  ASSUME HeapInv, Next
  PROVE  Lower(Remaining', Remaining)
<1>1. step # "loop" => pc \in {"scan", "drain"}
  BY DEF HeapInv, SizeInv
<1>2. CASE SortAll \/ StartScan \/ StartDrain \/ Return
  BY <1>2, PhaseEnds
<1>3. CASE Rise \/ Sink
  BY <1>3, HoleMoves
<1>4. CASE Keep \/ PopEnds
  <2>1. pc \in {"scan", "drain"} /\ pc' = pc /\ rank' = rank /\ i' = NextTurn
    BY <1>1, <1>4 DEF Keep, PopEnds
  <2> QED
    BY <2>1, TurnEnds
<1>5. CASE Push \/ PushEnds \/ SinkEnds
  BY <1>5, LoopEnds DEF Push, PushEnds, SinkEnds, place
<1>6. CASE Drop \/ DrainTop
  <2>1. /\ pc \in {"scan", "drain"} /\ UNCHANGED <<rank, pc>> /\ Pop
        /\ step \in {"loop", "size"}
    BY <1>1, <1>6 DEF Drop, DrainTop
  <2>2. \/ i' = NextTurn
        \/ i' = i /\ step' = "sink"
    BY <2>1 DEF Pop
  <2> QED
    BY <2>1, <2>2, TurnEnds, LoopEnds
<1> QED
  BY <1>2, <1>3, <1>4, <1>5, <1>6 DEF Next

\* TopK ends, and no push or pop loops: every step lowers four natural numbers, for
\* all inputs and every k.
THEOREM HeapRunsDown == Spec => RunsDown
<1>1. HeapInv /\ [Next]_vars
        => [Lower(Remaining', Remaining) /\ Remaining \in Nat \X Nat \X Nat \X Nat]_vars
  BY RemainingIsNatural, StepRunsDown
<1> QED
  BY <1>1, HeapInductiveInvariant, PTL DEF Spec, RunsDown
=============================================================================
