------------------------------ MODULE CsvFiles ------------------------------
(***************************************************************************)
(* What read_csv makes of a csv file whose writing broke off.  WriteCSV    *)
(* sends the header and then the rows straight to the file; the reader     *)
(* takes whatever whole rows it finds, a last one without its line end     *)
(* included.  It rejects an empty file, a header without its line end, and *)
(* a row with too few cells.                                               *)
(***************************************************************************)
EXTENDS EagerDataFrame

\* Whole rows: all of them, or fewer, or none but the header.
CutRows(t) == {[t EXCEPT !.rows = LeadingRows(@, n)] : n \in 0..Len(t.rows)}

\* The text ends after the last comma of a row: its last cell is empty, which a
\* column of numbers reads as null.  Numbers are of one digit, so a cell that is
\* cut is empty; of a table of one column the row would be an empty line, which
\* the reader skips.
CutCell(t) ==
  {[u EXCEPT !.rows[Len(u.rows)][Len(t.schema)] = NULL] :
     u \in {v \in CutRows(t) : v.rows # << >> /\ Len(t.schema) > 1}}

\* The tables a csv text of this table, cut short, is read as.
ReadCut(t) == CutRows(t) \cup CutCell(t)
=============================================================================
