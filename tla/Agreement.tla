----------------------------- MODULE Agreement -----------------------------
(***************************************************************************)
(* When a plan answers as another one does.  A plan has the set of tables  *)
(* its execution may return, none when it throws; a table is a record of   *)
(* its schema and its rows.                                                *)
(***************************************************************************)
EXTENDS Integers, FiniteSets

RowsOf(t)     == {t.rows[i] : i \in DOMAIN t.rows}
Times(row, t) == Cardinality({i \in DOMAIN t.rows : t.rows[i] = row})

\* The same columns, and the same rows as often, in any order.
SameRows(t, u) ==
  /\ t.schema = u.schema
  /\ \A row \in RowsOf(t) \cup RowsOf(u) : Times(row, t) = Times(row, u)

\* Where there were answers, the new ones are among them; where the order of the
\* rows is not promised, up to that order.
Answers(ordered, new, old) ==
  old # {} =>
    /\ new # {}
    /\ IF ordered THEN new \subseteq old ELSE \A t \in new : \E u \in old : SameRows(t, u)
=============================================================================
