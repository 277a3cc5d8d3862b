---------------------------- MODULE MCBinaryHeap ----------------------------
(* Up to six rows on three ranks and k up to five: empty inputs, k = 0, k at  *)
(* and above the number of rows, ties inside and across the cut, and heaps    *)
(* deep enough that a value sinks past both children.                         *)
EXTENDS BinaryHeap
=============================================================================
