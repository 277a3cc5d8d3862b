----------------------------- MODULE MCHashJoin -----------------------------
(* Two non-null keys and the null key, up to three rows on each side: equal *)
(* lengths, either side shorter, empty inputs, duplicate keys on both sides, *)
(* and two buckets whose leftover order differs all occur.                   *)
EXTENDS HashJoin
=============================================================================
