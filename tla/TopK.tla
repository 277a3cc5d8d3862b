-------------------------------- MODULE TopK --------------------------------
(***************************************************************************)
(* TopKPlan::execute, the head of a sort: a priority queue of k rows takes *)
(* the rows one by one and throws out a last one whenever it holds one too *)
(* many; emptied from its top it gives the rows of the answer from the     *)
(* last to the first.  Of several last rows a priority queue may give any. *)
(* The comparator over the sort columns is a rank per row: equal ranks tie.*)
(***************************************************************************)
EXTENDS TopKInputs, FiniteSets, Sequences

VARIABLES
  rank,     \* the rank of each row
  k,        \* k_
  pc,       \* "start", "scan", "drain" or "done"
  i,        \* the row the scan takes next; later the place the drain fills next
  heap,     \* the rows in the queue
  out       \* top_k_indices

vars == <<rank, k, pc, i, heap, out>>

Rows == 1..Len(rank)

\* The rows a priority queue may have on top.
Tops(h) == {r \in h : \A s \in h : rank[s] <= rank[r]}

\* The order sort returns: by rank, ties by row number.
StableBefore(r, s) == rank[r] < rank[s] \/ (rank[r] = rank[s] /\ r < s)
StableOrders == {s \in [Rows -> Rows] : \A x, y \in Rows : x < y => StableBefore(s[x], s[y])}

Init ==
  /\ rank \in UNION {[1..n -> Ranks] : n \in 0..MaxRows}
  /\ k \in 0..MaxK
  /\ pc = "start"
  /\ i = 1
  /\ heap = {}
  /\ out = << >>

\* No more rows than k: the call is a plain sort.
SortAll ==
  /\ pc = "start"
  /\ Len(rank) <= k
  /\ out' \in StableOrders
  /\ pc' = "done"
  /\ UNCHANGED <<rank, k, i, heap>>

StartScan ==
  /\ pc = "start"
  /\ Len(rank) > k
  /\ pc' = "scan"
  /\ UNCHANGED <<rank, k, i, heap, out>>

\* push, then pop if the queue has become larger than k.
TakeRow ==
  /\ pc = "scan"
  /\ i <= Len(rank)
  /\ LET pushed == heap \cup {i}
     IN  IF i > k THEN \E r \in Tops(pushed) : heap' = pushed \ {r} ELSE heap' = pushed
  /\ i' = i + 1
  /\ UNCHANGED <<rank, k, pc, out>>

StartDrain ==
  /\ pc = "scan"
  /\ i > Len(rank)
  /\ pc' = "drain"
  /\ i' = k
  /\ out' = [x \in 1..k |-> 0]
  /\ UNCHANGED <<rank, k, heap>>

DrainTop ==
  /\ pc = "drain"
  /\ i > 0
  /\ \E r \in Tops(heap) :
       /\ heap' = heap \ {r}
       /\ out' = [out EXCEPT ![i] = r]
  /\ i' = i - 1
  /\ UNCHANGED <<rank, k, pc>>

Return ==
  /\ pc = "drain"
  /\ i = 0
  /\ pc' = "done"
  /\ UNCHANGED <<rank, k, i, heap, out>>

Next ==
  \/ SortAll
  \/ StartScan
  \/ TakeRow
  \/ StartDrain
  \/ DrainTop
  \/ Return

Spec == Init /\ [][Next]_vars

-----------------------------------------------------------------------------
(* Properties *)

\* The shape of the state; 0 stands for a place the drain has not reached.
TypeOK ==
  /\ rank \in Seq(Ranks)
  /\ k \in Nat
  /\ pc \in {"start", "scan", "drain", "done"}
  /\ i \in Nat
  /\ pc \in {"start", "scan"} => i > 0
  /\ heap \subseteq Rows
  /\ out \in Seq(Rows \cup {0})

Returned(r) == \E x \in DOMAIN out : out[x] = r

\* TopK returns what the head of a sort returns up to ties: its rows are in
\* order, each once, and no row it leaves out belongs before one it returns.
IsHeadOfSort ==
  pc = "done" =>
    /\ \A x \in DOMAIN out : out[x] \in Rows
    /\ \A x, y \in DOMAIN out : x < y => out[x] # out[y] /\ rank[out[x]] <= rank[out[y]]
    /\ \A r \in Rows : ~Returned(r) => \A x \in DOMAIN out : rank[out[x]] <= rank[r]
    /\ Len(out) = IF Len(rank) < k THEN Len(rank) ELSE k

(* The inductive invariant behind IsHeadOfSort.                            *)

\* The scan has kept as many of its rows as fit, and none it has dropped
\* belongs before one it has kept.
ScanInv ==
  pc \in {"start", "scan"} =>
    /\ i \in 1..(Len(rank) + 1)
    /\ heap \subseteq 1..(i - 1)
    /\ Cardinality(heap) = IF i - 1 < k THEN i - 1 ELSE k
    /\ \A r \in 1..(i - 1) \ heap : \A s \in heap : rank[s] <= rank[r]

\* The drain fills out from its end: what is still queued goes before it, and
\* what is in neither was dropped.
DrainInv ==
  pc = "drain" =>
    /\ Len(out) = k /\ k < Len(rank)
    /\ i <= k
    /\ Cardinality(heap) = i
    /\ \A x \in (i + 1)..k : /\ out[x] \in Rows \ heap
                             /\ \A s \in heap : rank[s] <= rank[out[x]]
    /\ \A x, y \in (i + 1)..k : x < y => out[x] # out[y] /\ rank[out[x]] <= rank[out[y]]
    /\ \A r \in Rows \ heap :
         (\A x \in (i + 1)..k : out[x] # r) =>
           /\ \A s \in heap : rank[s] <= rank[r]
           /\ \A x \in (i + 1)..k : rank[out[x]] <= rank[r]

HeadInv ==
  /\ TypeOK
  /\ ScanInv
  /\ pc = "scan" => k < Len(rank)
  /\ DrainInv
  /\ IsHeadOfSort
=============================================================================
