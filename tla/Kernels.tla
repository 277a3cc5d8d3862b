------------------------------- MODULE Kernels -------------------------------
(***************************************************************************)
(* Column types, nullable cells and the element-wise kernels of kernel.h   *)
(* and kernel.cpp, one cell at a time.  A cell is NULL or an exact number  *)
(* <<n, d>> in lowest terms: int64 cells have d = 1, booleans are 0 and 1, *)
(* a string is its rank in byte order.  Doubles are exact (no rounding, no *)
(* NaN) and int64 does not overflow in this module.                        *)
(***************************************************************************)
EXTENDS KleeneBits, Sequences, SequencesExt, TLC

CONSTANTS
  NULL,           \* the cell whose validity bit is 0
  StringResult    \* StringResult[<<fn, arg>>][r]: fn(arg) of the string of rank r

\* What an evaluation may answer instead of a type: the kernel throws or returns a Status.
ERROR == "error"

IsNumeric(t) == t \in {"int64", "double"}

Magnitude(n) == IF n < 0 THEN -n ELSE n

Gcd(a, b) == CHOOSE g \in 1..(a + b) :
               /\ a % g = 0 /\ b % g = 0
               /\ \A h \in (g + 1)..(a + b) : ~(a % h = 0 /\ b % h = 0)

\* n / d in lowest terms; d # 0.
Number(n, d) ==
  LET g == Gcd(Magnitude(n), Magnitude(d))
  IN  IF d > 0 THEN <<n \div g, d \div g>> ELSE <<-n \div g, (-d) \div g>>

Whole(n) == <<n, 1>>
True  == Whole(1)
False == Whole(0)
Bool(b) == IF b THEN True ELSE False

Less(a, b) == a[1] * b[2] < b[1] * a[2]

\* a / b rounded towards zero, as C++ divides integers.
Truncated(a, b) ==
  LET n == a[1] * b[2]
      d == a[2] * b[1]
      q == Magnitude(n) \div Magnitude(d)
  IN  IF (n < 0) = (d < 0) THEN q ELSE -q

(* The types of the arrays the kernels return.                             *)

\* promote_arrays: equal types stay, a double wins, everything else is int64.
PromotedType(l, r) ==
  IF l = r THEN l
  ELSE IF "string" \in {l, r} THEN ERROR
  ELSE IF "double" \in {l, r} THEN "double"
  ELSE "int64"

\* Two equal types the numeric kernels do not know are read as an Int64Array:
\* what that returns is undefined, and no run may get here.
NoReinterpretation(l, r) ==
  Assert(~(l = r /\ l \in {"bool", "string"}), "array read through the wrong class")

Comparisons == {"==", "!=", "<", "<=", ">", ">="}
Arithmetic  == {"+", "-", "*", "/", "%"}

BinaryType(op, l, r) ==
  CASE op \in {"&", "|"} ->
         IF Assert(l = "bool" /\ r = "bool", "array read through the wrong class")
         THEN "bool" ELSE ERROR
    [] op \in Comparisons ->
         IF l = "string" /\ r = "string" THEN "bool"
         ELSE IF NoReinterpretation(l, r) /\ PromotedType(l, r) # ERROR THEN "bool" ELSE ERROR
    [] OTHER ->
         IF NoReinterpretation(l, r) THEN PromotedType(l, r) ELSE ERROR

UnaryType(op, t) ==
  CASE op \in {"is_null", "is_not_null"} -> "bool"
    [] op = "~" -> IF t = "bool" THEN "bool" ELSE ERROR
    [] OTHER -> IF IsNumeric(t) THEN t ELSE ERROR

StringFnType(fn) ==
  CASE fn = "length" -> "int64"
    [] fn \in {"to_lower", "to_upper"} -> "string"
    [] OTHER -> "bool"

(* The values.                                                             *)

\* BinaryNumericKernel and BinaryComparisonKernel: NULL in, NULL out, and a
\* division by zero is NULL.  type is the promoted type of the operands.
Compute(op, type, a, b) ==
  CASE op = "+" -> Number(a[1] * b[2] + b[1] * a[2], a[2] * b[2])
    [] op = "-" -> Number(a[1] * b[2] - b[1] * a[2], a[2] * b[2])
    [] op = "*" -> Number(a[1] * b[1], a[2] * b[2])
    [] op = "/" -> IF b = Whole(0) THEN NULL
                   ELSE IF type = "double" THEN Number(a[1] * b[2], a[2] * b[1])
                   ELSE Whole(Truncated(a, b))
    [] op = "%" -> IF b = Whole(0) THEN NULL
                   ELSE Number(a[1] * b[2] - Truncated(a, b) * b[1] * a[2], a[2] * b[2])
    [] op = "==" -> Bool(a = b)
    [] op = "!=" -> Bool(a # b)
    [] op = "<"  -> Bool(Less(a, b))
    [] op = "<=" -> Bool(~Less(b, a))
    [] op = ">"  -> Bool(Less(b, a))
    [] op = ">=" -> Bool(~Less(a, b))

\* The bits of a boolean cell, and back; LazyProofs shows that the data bit of a
\* NULL does not matter.
LaneOf(a) == Lane(a # NULL, a = True)
FromLane(lane) == IF lane.valid THEN Bool(lane.data) ELSE NULL

BinaryCell(op, type, a, b) ==
  CASE op = "&" -> FromLane(AndKleeneOp(LaneOf(a), LaneOf(b)))
    [] op = "|" -> FromLane(OrKleeneOp(LaneOf(a), LaneOf(b)))
    [] OTHER -> IF NULL \in {a, b} THEN NULL ELSE Compute(op, type, a, b)

UnaryCell(op, a) ==
  CASE op = "is_null" -> Bool(a = NULL)
    [] op = "is_not_null" -> Bool(a # NULL)
    [] op = "~" -> FromLane(NotKleeneOp(LaneOf(a)))
    [] OTHER -> IF a = NULL THEN NULL
                ELSE CASE op = "abs" -> <<Magnitude(a[1]), a[2]>>
                       [] op = "-"   -> <<-a[1], a[2]>>

StringCell(fn, arg, a) == IF a = NULL THEN NULL ELSE StringResult[<<fn, arg>>][a[1]]

\* The state of an aggregate after one more valid cell.
Accumulate(fn, type, a, b) ==
  CASE fn = "min" -> IF Less(b, a) THEN b ELSE a
    [] fn = "max" -> IF Less(a, b) THEN b ELSE a
    [] OTHER -> Compute("+", type, a, b)

\* Bug variant: the mean of integers keeps its fraction.
FinalizeExactMean(fn, type, state, count) ==
  IF fn = "mean" THEN Compute("/", "double", state, Whole(count)) ELSE state

\* The mean of integers is an integer division.
Finalize(fn, type, state, count) ==
  IF fn = "mean" THEN Compute("/", type, state, Whole(count)) ELSE state

\* AggregateNumericKernel over the cells of one group: NULLs are skipped, and
\* nothing left gives NULL (0 for count).
AggregateCell(fn, type, cells) ==
  LET valid == SelectSeq(cells, LAMBDA c : c # NULL)
      Step(a, b) == Accumulate(fn, type, a, b)
  IN  IF fn = "count" THEN Whole(Len(valid))
      ELSE IF valid = << >> THEN NULL
      ELSE Finalize(fn, type, FoldLeft(Step, Head(valid), Tail(valid)), Len(valid))
=============================================================================
