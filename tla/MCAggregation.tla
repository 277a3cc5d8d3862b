--------------------------- MODULE MCAggregation ---------------------------
(***************************************************************************)
(* Inputs for Aggregation: every table of up to two key columns over cells *)
(* whose texts look like parts of key strings, with one column of values;  *)
(* and every column of values over a few keys.                             *)
(***************************************************************************)
EXTENDS Aggregation

mcChars == {":", "|", "?", "-", "1", "0", "2"}
Digit   == <<"1", "2">>
\* Enough of std::to_string for texts of up to two characters.
mcDecimal == [n \in 0..2 |-> IF n = 0 THEN <<"0">> ELSE <<Digit[n]>>]

mcTexts == {<< >>, <<"?">>, <<"|", ":">>, <<"1", ":">>}
FewTexts == {<< >>, <<"|", ":">>}

KeyRows(n, texts, rows) == UNION {[1..r -> [1..n -> texts \cup {NULL}]] : r \in 0..rows}
OneEach == <<-1, 1, NULL>>

Input(n, keys, vs, f) == [columns |-> n, keys |-> keys, values |-> vs, fn |-> f]

KeyInputs ==
  UNION {{Input(n, keys, [i \in DOMAIN keys |-> OneEach[i]], "sum") :
            keys \in KeyRows(n, IF n = 1 THEN mcTexts ELSE FewTexts, 3)} : n \in 0..2}
  \cup {Input(2, keys, [i \in DOMAIN keys |-> OneEach[i]], "count") :
            keys \in KeyRows(2, mcTexts, 2)}

ValueInputs ==
  UNION {{Input(1, keys, vs, f) : vs \in [DOMAIN keys -> InWidth \cup {NULL}], f \in AggregateFunctions} :
           keys \in {<< <<NULL>>, <<NULL>>, <<NULL>> >>,
                     << <<NULL>>, << << >> >>, <<NULL>> >>}}

mcInputs == KeyInputs \cup ValueInputs
=============================================================================
