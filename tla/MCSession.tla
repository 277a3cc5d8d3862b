----------------------------- MODULE MCSession -----------------------------
(***************************************************************************)
(* Two scanned files, the csv of them also a sink, and a parquet file that *)
(* is only written; the scores come with and without a column v.           *)
(***************************************************************************)
EXTENDS Session, ScanSchemas, CsvFiles

On(files) == INSTANCE PlanExecution WITH Sources <- files
mcRun(p, files) == On(files)!Execute(p)
mcOrdered(q) == On({})!OrderIsPromised(q)

K == Column("k")
V == Column("v")
W == Column("w")
I(n) == Literal("int64", Whole(n))
Whole64(name) == Field(name, "int64")

People == Table(<<Whole64("k"), Whole64("v")>>,
                << <<Whole(1), Whole(1)>>, <<Whole(2), NULL>>, <<Whole(1), Whole(0)>> >>)
Scores == Table(<<Whole64("k"), Whole64("w")>>, << <<Whole(1), Whole(1)>>, <<Whole(2), Whole(2)>> >>)
NewScores == Table(<<Whole64("k"), Whole64("w"), Whole64("v")>>, << <<Whole(1), Whole(2), Whole(1)>> >>)

mcContents == [f \in {"people", "scores", "out"} |->
                 IF f = "people" THEN {People}
                 ELSE IF f = "scores" THEN {Scores, NewScores} ELSE {}]

ScanPeople == Scan("people", NoSchema)
ScanScores == Scan("scores", NoSchema)
Joined(how) == JoinPlan(ScanPeople, ScanScores, <<"k">>, how)
mcStringResult == << >>

mcQueries ==
  {FilterPlan(Joined("inner"), BinaryOp("==", V, I(1))),
   FilterPlan(Joined("left"), BinaryOp(">", W, I(1))),
   FilterPlan(SortPlan(ScanPeople, <<"v">>, TRUE), Literal("bool", False)),
   LimitPlan(FilterPlan(ScanPeople, BinaryOp(">", K, I(0))), 2)}
=============================================================================
