----------------------------- MODULE BinaryHeap -----------------------------
(***************************************************************************)
(* TopK with the std::priority_queue the library is built with: a binary   *)
(* heap in a vector, kept by libstdc++'s push_heap and pop_heap, one       *)
(* action per turn of their loops.  Which of several tied rows leaves      *)
(* first is thereby determined.                                            *)
(***************************************************************************)
EXTENDS TopKInputs, Sequences, SequencesExt, Measures

VARIABLES
  rank, k, pc, out,   \* as in TopK
  i,        \* the row the scan takes next, or the place the drain fills next
  slots,    \* the vector behind the queue, its top first
  step,     \* where the queue's code is, "loop" when in none of it
  hole,     \* holeIndex of __adjust_heap and __push_heap: the place left empty
  value     \* the row to be put there in the end

place == <<hole, value>>
vars  == <<rank, k, pc, i, out, slots, step, place>>

Rows == 1..Len(rank)

\* A pop keeps the old top in the last slot, behind the heap; pops and pushes
\* move a hole through the heap.
Popping == step \in {"sink", "rise"}
Moving  == step \in {"push", "sink", "rise"}
Bottom  == IF Popping THEN Len(slots) - 1 ELSE Len(slots)

\* The vector with the value in its hole.
Filled == IF Moving THEN [slots EXCEPT ![hole] = value] ELSE slots

\* The next turn of the caller's loop.
NextTurn == IF pc = "scan" THEN i + 1 ELSE i - 1

\* The refinement: a row enters the queue when its turn ends or one has to
\* leave, and leaves it when the pop begins.
Queued == CASE Popping                  -> {Filled[p] : p \in 1..Bottom}
            [] step \in {"push", "size"} -> {Filled[p] : p \in 1..Bottom} \ {i}
            [] step = "loop"            -> {slots[p] : p \in 1..Bottom}
Turn   == IF Popping THEN NextTurn ELSE i

Queue == INSTANCE TopK WITH heap <- Queued, i <- Turn

\* Bug variant: the comparator of the other sort direction.
CompReversed(r, s) == rank[r] > rank[s]

\* The comparator of the queue: r belongs before s in the answer.
Comp(r, s) == rank[r] < rank[s]

\* Places count from 1: the children of p are 2p and 2p + 1.
Parent(p) == p \div 2

Init ==
  /\ rank \in UNION {[1..n -> Ranks] : n \in 0..MaxRows}
  /\ k \in 0..MaxK
  /\ pc = "start"
  /\ i = 1
  /\ out = << >>
  /\ slots = << >>
  /\ step = "loop"
  /\ hole = 1
  /\ value = 1

\* No more rows than k: the call is a plain sort.
SortAll ==
  /\ pc = "start"
  /\ Len(rank) <= k
  /\ out' \in Queue!StableOrders
  /\ pc' = "done"
  /\ UNCHANGED <<rank, k, i, slots, step, place>>

StartScan ==
  /\ pc = "start"
  /\ Len(rank) > k
  /\ pc' = "scan"
  /\ UNCHANGED <<rank, k, i, out, slots, step, place>>

\* push appends the row, which then rises from the last slot.
Push ==
  /\ pc = "scan"
  /\ step = "loop"
  /\ i <= Len(rank)
  /\ slots' = Append(slots, i)
  /\ step' = "push"
  /\ hole' = Len(slots) + 1
  /\ value' = i
  /\ UNCHANGED <<rank, k, pc, i, out>>

CanRise == hole > 1 /\ Comp(slots[Parent(hole)], value)

\* The loop of __push_heap: a parent that compares below the value moves down.
Rise ==
  /\ step \in {"push", "rise"}
  /\ CanRise
  /\ slots' = [slots EXCEPT ![hole] = slots[Parent(hole)]]
  /\ hole' = Parent(hole)
  /\ UNCHANGED <<rank, k, pc, i, out, step, value>>

PushEnds ==
  /\ step = "push"
  /\ ~CanRise
  /\ slots' = Filled
  /\ step' = "size"
  /\ UNCHANGED <<rank, k, pc, i, out, place>>

\* Bug variant: the queue never drops a row.
KeepsAll ==
  /\ step = "size"
  /\ step' = "loop"
  /\ i' = NextTurn
  /\ UNCHANGED <<rank, k, pc, out, slots, place>>

\* The queue holds no more than k rows, and the scan takes the next.
Keep ==
  /\ step = "size"
  /\ Len(slots) <= k
  /\ step' = "loop"
  /\ i' = NextTurn
  /\ UNCHANGED <<rank, k, pc, out, slots, place>>

\* Bug variant: the last row takes the place of the top and stays there.
PopWithoutSift ==
  /\ slots' = IF Len(slots) = 1 THEN << >> ELSE [Front(slots) EXCEPT ![1] = Last(slots)]
  /\ i' = NextTurn
  /\ step' = "loop"
  /\ UNCHANGED place

\* pop_heap moves the top to the last slot and takes the row there along; it
\* leaves a single row alone, and pop_back removes it.
Pop ==
  IF Len(slots) = 1
  THEN /\ slots' = << >>
       /\ i' = NextTurn
       /\ step' = "loop"
       /\ UNCHANGED place
  ELSE /\ slots' = [slots EXCEPT ![Len(slots)] = Head(slots)]
       /\ value' = Last(slots)
       /\ hole' = 1
       /\ step' = "sink"
       /\ UNCHANGED i

\* Bug variant: a full queue makes room before it looks at the row.
DropsBeforeLast ==
  /\ step = "size"
  /\ Len(slots) >= k
  /\ Pop
  /\ UNCHANGED <<rank, k, pc, out>>

\* One row too many: the scan drops the top.
Drop ==
  /\ step = "size"
  /\ Len(slots) > k
  /\ Pop
  /\ UNCHANGED <<rank, k, pc, out>>

\* Bug variant: a right child in the last place is overlooked.
LastChildMissed ==
  LET right == 2 * hole + 1
  IN  IF right >= Bottom \/ Comp(slots[right], slots[right - 1]) THEN right - 1 ELSE right

\* The child of the hole that moves up: the larger one, the right one on a tie.
LargerChild ==
  LET right == 2 * hole + 1
  IN  IF right > Bottom \/ Comp(slots[right], slots[right - 1]) THEN right - 1 ELSE right

\* The loop of __adjust_heap: the hole sinks to a leaf ...
Sink ==
  /\ step = "sink"
  /\ 2 * hole <= Bottom
  /\ slots' = [slots EXCEPT ![hole] = slots[LargerChild]]
  /\ hole' = LargerChild
  /\ UNCHANGED <<rank, k, pc, i, out, step, value>>

\* ... from where the value rises.
SinkEnds ==
  /\ step = "sink"
  /\ 2 * hole > Bottom
  /\ step' = "rise"
  /\ UNCHANGED <<rank, k, pc, i, out, slots, place>>

\* Bug variant: the loop goes on from the top again.
PopStalls ==
  /\ step = "rise"
  /\ ~CanRise
  /\ slots' = Filled
  /\ step' = "rise"
  /\ UNCHANGED <<rank, k, pc, i, out, place>>

\* pop_back removes the old top.
PopEnds ==
  /\ step = "rise"
  /\ ~CanRise
  /\ slots' = Front(Filled)
  /\ step' = "loop"
  /\ i' = NextTurn
  /\ UNCHANGED <<rank, k, pc, out, place>>

\* All rows are seen, and top_k_indices is made.
StartDrain ==
  /\ pc = "scan"
  /\ step = "loop"
  /\ i > Len(rank)
  /\ pc' = "drain"
  /\ i' = k
  /\ out' = [x \in 1..k |-> 0]
  /\ UNCHANGED <<rank, k, slots, step, place>>

DrainTop ==
  /\ pc = "drain"
  /\ step = "loop"
  /\ i > 0
  /\ out' = [out EXCEPT ![i] = Head(slots)]
  /\ Pop
  /\ UNCHANGED <<rank, k, pc>>

Return ==
  /\ pc = "drain"
  /\ step = "loop"
  /\ i = 0
  /\ pc' = "done"
  /\ UNCHANGED <<rank, k, i, out, slots, step, place>>

Next ==
  \/ SortAll
  \/ StartScan
  \/ Push
  \/ Rise
  \/ PushEnds
  \/ Keep
  \/ Drop
  \/ Sink
  \/ SinkEnds
  \/ PopEnds
  \/ StartDrain
  \/ DrainTop
  \/ Return

\* The loops of execute and of the queue wait for nothing.
Spec == Init /\ [][Next]_vars
FairSpec == Spec /\ WF_vars(Next)

-----------------------------------------------------------------------------
(* Properties *)

\* Between the queue's operations its vector is a heap of rows, none of them
\* twice: what the next pop relies on after any mix of pushes and pops.
HeapOrdered ==
  step \in {"loop", "size"} =>
    /\ IsInjective(slots)
    /\ \A p \in 2..Len(slots) : ~Comp(slots[Parent(p)], slots[p])

\* The heap returns the head of a sort, and keeps what TopK keeps.
IsHeadOfSort == Queue!IsHeadOfSort
HeadInv      == Queue!HeadInv

\* Every operation of the heap is one a priority queue may make.
ImplementsTopK == Queue!Spec

\* The loops of execute left, and the turns of this one.
LoopsLeft ==
  CASE pc = "start" -> 3 [] pc = "scan" -> 2 [] pc = "drain" -> 1 [] pc = "done" -> 0
TurnsLeft ==
  CASE pc = "scan" -> Len(rank) + 1 - i [] pc = "drain" -> i [] pc \in {"start", "done"} -> 0

\* The queue's loops left in this turn, and how far the hole is from where this one
\* ends at the latest.
StepsLeft ==
  CASE step = "loop" -> 4 [] step = "push" -> 3 [] step = "size" -> 2
    [] step = "sink" -> 1 [] step = "rise" -> 0
WayLeft ==
  CASE step = "sink" -> Bottom - hole [] step \in {"push", "rise"} -> hole
    [] step \in {"loop", "size"} -> 0

Remaining == <<LoopsLeft, TurnsLeft, StepsLeft, WayLeft>>

\* Every step leaves less to do: the hole leaves the vector in neither direction,
\* and a value that sinks and rises again does so once.
RunsDown ==
  [][Lower(Remaining', Remaining) /\ Remaining \in Nat \X Nat \X Nat \X Nat]_vars

\* The call returns.
Returns == <>(pc = "done")

\* Report 3.3: a stable order among ties is "required for output equality on
\* sort and head pipelines"; the head of a sort is a prefix of that sort.
HeadOfSortIsStable ==
  pc = "done" => \E s \in Queue!StableOrders : out = SubSeq(s, 1, Len(out))

(* The inductive invariant behind HeapOrdered.                             *)

\* Rows, slots and the hole are within their bounds.
HeapTypeOK ==
  /\ rank \in Seq(Ranks)
  /\ k \in Nat
  /\ pc \in {"start", "scan", "drain", "done"}
  /\ i \in Nat
  /\ out \in Seq(Nat)
  /\ slots \in Seq(Rows)
  /\ step \in {"loop", "push", "size", "sink", "rise"}
  /\ Moving => value \in Rows /\ hole \in 1..Bottom

\* How many rows the vector holds, and where the loops are.
SizeInv ==
  /\ step # "loop" => pc \in {"scan", "drain"} /\ Len(slots) > 0
  /\ step \in {"push", "size"} => pc = "scan"
  /\ Popping => Len(slots) > 1
  /\ pc = "start" => i = 1 /\ slots = << >>
  /\ pc = "scan" =>
       /\ k < Len(rank)
       /\ i \in 1..(Len(rank) + 1)
       /\ Len(slots) = (IF i <= k THEN i - 1 ELSE k) + (IF step = "loop" THEN 0 ELSE 1)
       /\ Popping => i > k
  /\ pc = "drain" => Len(slots) = i /\ i <= k /\ k < Len(rank) /\ Len(out) = k

\* The vector holds rows already taken, none twice, with the value in its hole;
\* the row that was pushed in this turn is one of them.
RowsInv ==
  /\ \A p, q \in 1..Len(slots) : p # q => Filled[p] # Filled[q]
  /\ pc = "scan" =>
       /\ \A p \in 1..Len(slots) : Filled[p] <= IF step = "loop" THEN i - 1 ELSE i
       /\ step # "loop" => i <= Len(rank) /\ \E p \in 1..Len(slots) : Filled[p] = i

\* The row at p may stand above the row at q.
Above(p, q) == ~Comp(Filled[p], Filled[q])

\* The heap order holds but at the hole: a sinking value may be below its
\* children, a rising one above its parent; the hole's parent covers them.
OrderInv ==
  /\ \A p \in 2..Bottom :
       \/ Above(Parent(p), p)
       \/ Moving /\ p = hole
       \/ step = "sink" /\ Parent(p) = hole
  /\ Moving /\ hole > 1 =>
       \A p \in 2..Bottom : Parent(p) = hole => Above(Parent(hole), p)

\* What holds at every turn of the loops, inside a push or pop too.
HeapInv == HeapTypeOK /\ SizeInv /\ RowsInv /\ OrderInv
=============================================================================
