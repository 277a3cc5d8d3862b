----------------------------- MODULE PlanDrawing -----------------------------
(***************************************************************************)
(* explain: the DOT text of a plan and of its optimized form.  to_graphviz *)
(* walks a plan with one node_counter for both, writes a box for each node *)
(* and, after the walk through a child, an arrow to it.  The boxes carry   *)
(* the kind of their node; the rest of to_string is left out.              *)
(***************************************************************************)
EXTENDS LogicalPlan

Blank == [node_counter |-> 0, boxes |-> << >>, arrows |-> << >>]

\* The children of a node, in the order they are drawn.
Children(p) ==
  CASE p.kind \in {"Scan", "EmptyTable"} -> << >>
    [] p.kind = "Join" -> <<p.left, p.right>>
    [] OTHER -> <<p.child>>

Label(p) == IF p.kind = "ProjectExprs" THEN "Project" ELSE p.kind

RECURSIVE ToGraphviz(_, _)
ToGraphviz(out, p) ==
  LET my_id == out.node_counter
      box   == [out EXCEPT !.node_counter = @ + 1,
                           !.boxes = Append(@, [id |-> my_id, label |-> Label(p)])]
      Below(o, c) == [ToGraphviz(o, c) EXCEPT
                        !.arrows = Append(@, <<my_id, o.node_counter>>)]
  IN  FoldLeft(Below, box, Children(p))

\* Bug variant: each plan is numbered from 0.
ExplainRestarts(plan, optimized_plan) ==
  ToGraphviz([ToGraphviz(Blank, plan) EXCEPT !.node_counter = 0], optimized_plan)

Explain(plan, optimized_plan) == ToGraphviz(ToGraphviz(Blank, plan), optimized_plan)

-----------------------------------------------------------------------------
(* Reading a drawing back.                                                 *)

RECURSIVE Shape(_)
Shape(p) == <<Label(p), [x \in DOMAIN Children(p) |-> Shape(Children(p)[x])]>>

RECURSIVE ShapeAt(_, _)
ShapeAt(drawing, id) ==
  LET arrows == SelectSeq(drawing.arrows, LAMBDA a : a[1] = id)
  IN  <<(CHOOSE b \in Range(drawing.boxes) : b.id = id).label,
        [x \in DOMAIN arrows |-> ShapeAt(drawing, arrows[x][2])]>>

\* The boxes no arrow points to, in the order they were drawn.
Roots(drawing) ==
  SelectSeq([x \in DOMAIN drawing.boxes |-> drawing.boxes[x].id],
            LAMBDA id : \A a \in Range(drawing.arrows) : a[2] # id)

\* A drawing of these plans: no two boxes have one name, and what hangs from its
\* roots are the plans, inputs of joins in their order.
Draws(drawing, plans) ==
  /\ \A x, y \in DOMAIN drawing.boxes : drawing.boxes[x].id = drawing.boxes[y].id => x = y
  /\ [x \in DOMAIN Roots(drawing) |-> ShapeAt(drawing, Roots(drawing)[x])]
       = [x \in DOMAIN plans |-> Shape(plans[x])]
=============================================================================
