----------------------------- MODULE KeyStrings -----------------------------
(***************************************************************************)
(* grouping_helper, the string group_by and join look a row's key up by:   *)
(* every cell is written as its length, a colon and its text, the cells    *)
(* are separated by bars.  Strings are sequences of characters; the text   *)
(* of a cell is what Scalar::ToString returns for it (1 or 0 for a bool).  *)
(***************************************************************************)
EXTENDS Integers, Sequences

CONSTANTS
  Chars,      \* the characters
  Texts,      \* the texts cells may have: any strings over them
  NULL,       \* a cell that is not valid
  Decimal     \* std::to_string of the length of a text

ASSUME CharsAssumption == {":", "|", "?", "-", "1"} \subseteq Chars
ASSUME TextsAssumption == Texts \subseteq Seq(Chars) /\ NULL \notin Texts

\* Distinct numbers are written differently, with digits only.
ASSUME DecimalAssumption ==
  /\ Decimal \in [{Len(t) : t \in Texts} -> Seq(Chars)]
  /\ \A m, n \in DOMAIN Decimal : Decimal[m] = Decimal[n] => m = n
  /\ \A n \in DOMAIN Decimal :
       /\ Decimal[n] # <<"-", "1">>
       /\ \A x \in DOMAIN Decimal[n] : Decimal[n][x] # ":"

Cells == Texts \cup {NULL}

\* What stands before the colon, and what stands after it.
Tag(c)  == IF c = NULL THEN <<"-", "1">> ELSE Decimal[Len(c)]
Body(c) == IF c = NULL THEN <<"?">> ELSE c

\* Bug variant: the lengths are not written.
KeyPartWithoutLength(c) == <<":">> \o Body(c)

KeyPart(c) == Tag(c) \o <<":">> \o Body(c)

\* The bar between the cells of n key columns.
Bar(column, n) == IF column < n THEN <<"|">> ELSE << >>
=============================================================================
