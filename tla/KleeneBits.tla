----------------------------- MODULE KleeneBits -----------------------------
(***************************************************************************)
(* The boolean kernels: conjunction, disjunction and negation of nullable  *)
(* booleans, computed bit by bit from a validity and a data bitmap.  Where *)
(* the validity bit is 0 the data bit may be either.                       *)
(***************************************************************************)
EXTENDS Integers

\* One lane of the byte-wise operators: the bits of one cell.
Lane(valid, data) == [valid |-> valid, data |-> data]

\* Bug variant: a null in either operand yields null.
AndKleeneStrict(a, b) == Lane(a.valid /\ b.valid, a.data /\ b.data)

AndKleeneOp(a, b) ==
  Lane((a.valid /\ b.valid) \/ (a.valid /\ ~a.data) \/ (b.valid /\ ~b.data),
       a.data /\ b.data)

OrKleeneOp(a, b) ==
  Lane((a.valid /\ b.valid) \/ (a.valid /\ a.data) \/ (b.valid /\ b.data),
       a.data \/ b.data)

NotKleeneOp(a) == Lane(a.valid, ~a.data)

\* A BooleanArray is a slice of its bitmaps: cell j has bit offset + j.  No
\* validity bitmap (hasValid is FALSE) means that every cell is valid.
BooleanArrays ==
  [length : Nat, offset : Nat, hasValid : BOOLEAN,
   valid : [Nat -> BOOLEAN], data : [Nat -> BOOLEAN]]

BytesForBits(n) == (n + 7) \div 8

\* What the kernels read: Concatenate moves a slice to offset 0, whatever it
\* puts in the rest of the last byte.
Aligned(a) ==
  IF a.offset = 0 THEN a
  ELSE [a EXCEPT !.offset = 0,
                 !.valid = [j \in Nat |-> a.valid[a.offset + j]],
                 !.data  = [j \in Nat |-> a.data[a.offset + j]]]

\* Bit j as the kernels load it, 0xFF for a bitmap that is not there.
LaneAt(a, j) == Lane(~a.hasValid \/ a.valid[j], a.data[j])

\* The lanes of an operand, byte after byte.
Lanes(a) == [j \in 0..(8 * BytesForBits(a.length) - 1) |-> LaneAt(Aligned(a), j)]

\* BinaryKleeneKernel of equally long arrays, UnaryKleeneKernel of one: the
\* lanes of the output's bitmaps.
AndKleene(a, b) == [j \in DOMAIN Lanes(a) |-> AndKleeneOp(Lanes(a)[j], Lanes(b)[j])]
OrKleene(a, b)  == [j \in DOMAIN Lanes(a) |-> OrKleeneOp(Lanes(a)[j], Lanes(b)[j])]
NotKleene(a)    == [j \in DOMAIN Lanes(a) |-> NotKleeneOp(Lanes(a)[j])]

-----------------------------------------------------------------------------
(* What they promise: three-valued logic, cell by cell.                    *)

CellOf(lane) == IF ~lane.valid THEN "null" ELSE IF lane.data THEN "true" ELSE "false"

\* Cell j of an array, as its user sees it.
CellAt(a, j) == CellOf(LaneAt(a, a.offset + j))

And3(p, q) == IF "false" \in {p, q} THEN "false" ELSE IF "null" \in {p, q} THEN "null" ELSE "true"
Or3(p, q)  == IF "true" \in {p, q} THEN "true" ELSE IF "null" \in {p, q} THEN "null" ELSE "false"
Not3(p)    == CASE p = "true" -> "false" [] p = "false" -> "true" [] OTHER -> "null"
=============================================================================
