------------------------------ MODULE Measures ------------------------------
(* What a call that waits for nothing has left to do, as a tuple of natural  *)
(* numbers: steps that lower such tuples cannot go on forever.               *)
EXTENDS Integers, Sequences

\* The first number that changes gets smaller.
Lower(new, old) ==
  \E n \in DOMAIN old : new[n] < old[n] /\ \A m \in 1..(n - 1) : new[m] = old[m]
=============================================================================
