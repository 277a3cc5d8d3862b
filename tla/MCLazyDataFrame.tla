-------------------------- MODULE MCLazyDataFrame --------------------------
(***************************************************************************)
(* Small tables and argument menus for lazy queries.                       *)
(***************************************************************************)
EXTENDS Pipeline

K == Column("k")
V == Column("v")
D == Column("d")
I(n) == Literal("int64", Whole(n))
B(b) == Literal("bool", b)

\* k: distinct keys; v: ties and a NULL; d: doubles; s: strings of rank 0..2.
People ==
  Table(<<Field("k", "int64"), Field("v", "int64"), Field("d", "double"), Field("s", "string")>>,
        << <<Whole(2), Whole(1), <<1, 2>>, Whole(1)>>,
           <<Whole(0), NULL,     <<3, 2>>, Whole(0)>>,
           <<Whole(1), Whole(1), NULL,     Whole(2)>> >>)

\* A right side that shares k and v with People; one row has no partner.
Scores ==
  Table(<<Field("k", "int64"), Field("v", "int64"), Field("w", "int64")>>,
        << <<Whole(1), Whole(5), Whole(1)>>,
           <<Whole(2), Whole(0), Whole(2)>>,
           <<Whole(2), NULL,     NULL>>,
           <<NULL,     Whole(1), Whole(1)>> >>)

mcSources == [f \in {"people", "scores"} |-> {IF f = "people" THEN People ELSE Scores}]
mcStringResult == [call \in {<<"length", "">>} |-> [r \in 0..2 |-> Whole(r + 1)]]

PipeNames == {<<"k", "v">>, <<"v">>, <<"k", "v", "d", "s">>}
PipeExprs == {<<K, Alias(BinaryOp("+", V, BinaryOp("*", K, I(1))), "v")>>}
PipePredicates ==
  {BinaryOp(">", K, I(0)),
   BinaryOp("&", BinaryOp(">=", V, I(1)), UnaryOp("~", UnaryOp("~", BinaryOp("<", K, I(2))))),
   BinaryOp("|", B(True), BinaryOp("==", V, I(1))),
   BinaryOp("&", UnaryOp("is_not_null", V), B(False)),
   UnaryOp("~", BinaryOp("&", BinaryOp("==", V, I(1)), B(False))),
   BinaryOp("==", StringFn("length", "", Column("s")), I(2))}
PipeColumns == {[name |-> "v", expr |-> BinaryOp("/", BinaryOp("-", V, I(0)), D)],
                [name |-> "n", expr |-> UnaryOp("-", UnaryOp("-", K))]}
PipeSorts == {[columns |-> <<"k">>, ascending |-> TRUE],
              [columns |-> <<"v", "k">>, ascending |-> FALSE]}
PipeHeads == {1, 2}
PipeGroupings == {[keys |-> <<"v">>, aggs |-> PairsToExprs(<< <<"k", "sum">>, <<"d", "count">> >>)],
                  [keys |-> << >>, aggs |-> <<AggFn("mean", K), AggFn("max", D)>>]}

\* Joins: predicates on a left, a right, a shared, a renamed and a key column.
W == Column("w")
JoinNames == {<<"k", "v">>, <<"k", "w">>}
JoinPredicates ==
  {BinaryOp("==", V, I(1)), BinaryOp(">", W, I(1)), BinaryOp("<=", K, I(1)),
   BinaryOp("&", BinaryOp(">=", Column("v_right"), I(0)), BinaryOp("<", K, W)),
   UnaryOp("is_null", W), B(False)}
JoinColumns == {[name |-> "w", expr |-> BinaryOp("+", K, I(0))]}
JoinSorts == {[columns |-> <<"v", "k">>, ascending |-> TRUE]}
JoinGroupings == {[keys |-> <<"k">>, aggs |-> <<AggFn("count", V), Alias(AggFn("min", V), "w")>>]}
(* Queries the documentation's claims are about.                           *)
FoldPredicates == {BinaryOp(">", K, BinaryOp("+", I(1), I(1)))}
ZeroColumns    == {[name |-> "z", expr |-> BinaryOp("*", V, I(0))]}
MixedPredicates == {BinaryOp("==", V, W)}
InnerJoins     == {[file |-> "scores", on |-> <<"k">>, how |-> "inner"]}
DroppingNames  == {<<"v">>}
KeyPredicates  == {BinaryOp(">", K, I(0))}
mcJoins == {[file |-> "scores", on |-> <<"k">>, how |-> how] : how \in JoinTypes}
           \cup {[file |-> "people", on |-> <<"k", "v">>, how |-> "inner"]}

(* The menus.                                                              *)
PipeMenu ==
  [Menu({"people"}) EXCEPT
     !.names = PipeNames, !.exprs = PipeExprs, !.predicates = PipePredicates,
     !.columns = PipeColumns, !.sorts = PipeSorts, !.heads = PipeHeads,
     !.groupings = PipeGroupings]
JoinMenu ==
  [Menu({"people", "scores"}) EXCEPT
     !.names = JoinNames, !.predicates = JoinPredicates, !.columns = JoinColumns,
     !.sorts = JoinSorts, !.groupings = JoinGroupings, !.joins = mcJoins]

BothMenus  == {PipeMenu, JoinMenu}
SwapMenus  == {[Menu({"people"}) EXCEPT !.names = PipeNames, !.predicates = KeyPredicates]}
FoldMenus  == {[Menu({"people"}) EXCEPT !.predicates = FoldPredicates]}
ZeroMenus  == {[Menu({"people"}) EXCEPT !.columns = ZeroColumns]}
MixedMenus == {[Menu({"people"}) EXCEPT !.predicates = MixedPredicates, !.joins = InnerJoins]}
DropMenus  == {[Menu({"people"}) EXCEPT !.names = DroppingNames, !.predicates = KeyPredicates]}
=============================================================================
