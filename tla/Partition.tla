----------------------------- MODULE Partition -----------------------------
(* The groups of a sequence of keys, as group_by orders them: groups in the  *)
(* order of their first rows, rows in order within a group.                  *)
EXTENDS Integers, Sequences, FiniteSets

\* A finite set of numbers from the least to the largest.
IsAscending(s, S) ==
  /\ {s[x] : x \in DOMAIN s} = S
  /\ \A x, y \in DOMAIN s : x < y => s[x] < s[y]
Ascending(S) == CHOOSE s \in [1..Cardinality(S) -> S] : IsAscending(s, S)

FirstRows(key) == {i \in DOMAIN key : \A j \in 1..(i - 1) : key[j] # key[i]}

GroupsOf(key) ==
  LET firsts == Ascending(FirstRows(key))
  IN  [g \in DOMAIN firsts |-> Ascending({i \in DOMAIN key : key[i] = key[firsts[g]]})]
=============================================================================
