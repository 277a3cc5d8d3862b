------------------------------- MODULE Listing -------------------------------
(* Sequences that enumerate a set: how an order left open by the code        *)
(* (unordered_map iteration, group order) is compared with a set of rows.    *)
EXTENDS Integers, Sequences

\* s lists the elements of S, each exactly once.
Lists(s, S) ==
  /\ {s[x] : x \in 1..Len(s)} = S
  /\ \A x, y \in 1..Len(s) : s[x] = s[y] => x = y
=============================================================================
