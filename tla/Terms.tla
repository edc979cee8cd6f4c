--------------------------------- MODULE Terms ---------------------------------
(***************************************************************************)
(* Expressions as the wire has them: a sequence of nodes in which an       *)
(* operator comes before its operands.  What an expression answers         *)
(* (Operators) is found from its last node to its first, on a stack of     *)
(* what the expressions behind a node answer.                              *)
(***************************************************************************)
EXTENDS Operators

\* An operator or a leaf; `ty` is a literal's type or a cast's target, `v` a
\* literal's value or a reference's index.
Node(op, ty, v) == [op |-> op, ty |-> ty, v |-> v]
Const(ty, v) == <<Node("Const", ty, v)>>
Ref(i) == <<Node("Value", "none", i)>>
NoExpr == << >>

Arity(op) ==
  CASE op \in {"Value", "Const"} -> 0
    [] op \in UnaryOp \cup {"As"} -> 1
    [] op \in TernaryOp -> 3
    [] OTHER -> 2

Leading(s, n) == [k \in 1 .. n |-> s[k]]
Behind(s, n) == [k \in 1 .. Len(s) - n |-> s[k + n]]

\* A node's answer takes the place of its operands' on a stack s.
Joined(tp, x, s) ==
  LET answer == CASE x.op = "Const" -> Constant(x.ty, x.v)
                  [] x.op = "Value" -> ValueAt(tp, x.v)
                  [] OTHER -> Composite(x.op, x.ty, Leading(s, Arity(x.op)))
  IN <<answer>> \o Behind(s, Arity(x.op))

Answer(tp, e) ==
  LET after[k \in 0 .. Len(e)] == IF k = 0 THEN << >> ELSE Joined(tp, e[Len(e) + 1 - k], after[k - 1])
  IN after[Len(e)][1]

\* eval_expr.
Eval(tp, dst, e) == Answer(tp, e).out[dst]

=============================================================================
