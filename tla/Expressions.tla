------------------------------ MODULE Expressions ------------------------------
(***************************************************************************)
(* Expressions of ifx_assert, ifx_if_else and Eval bindings.  A Frame      *)
(* holds the values of earlier bindings; a client composes an expression   *)
(* over them, operator by operator, and a let binds it.                    *)
(*                                                                         *)
(* A builder's nested calls work like a stack: leaves are pushed, an       *)
(* operator takes its operands from the top and pushes itself, and every   *)
(* tree of operators is composed in this way.  Of an expression the stack  *)
(* holds what the program answers for it on this tape (Operators).         *)
(* `meant` is not in the code: it is what the expressions on the stack     *)
(* mean.                                                                   *)
(***************************************************************************)
EXTENDS Operators

CONSTANTS
  Loads,         \* the tapes of loaded values that a session may start with
  Literals,      \* Literals[l]: the literals used after the loads l
  MaxOperators,  \* MaxOperators[l]: bound on the operators of an expression
  MaxEvals       \* bound on the Eval bindings of a session

\* Loaded values and literals fit their types (value_codec.rs, wire/expr.rs).
ASSUME ExpressionsAssumption ==
  \A l \in Loads :
    /\ l \in Seq(TypedValue)
    /\ \A k \in 1 .. Len(l) : Fits(l[k])
    /\ \A x \in Literals[l] : Fits(x)
    /\ MaxOperators[l] \in Nat
ASSUME MaxEvalsAssumption == MaxEvals \in Nat

VARIABLES
  loaded,  \* the values that the session's first let loaded
  tape,    \* the session's typed values, in order
  stack,   \* the expressions being composed
  meant,   \* what they mean
  built    \* the operators applied since the stack was empty

exprVars == <<loaded, tape, stack, meant, built>>

-----------------------------------------------------------------------------
(* Composing.                                                              *)

\* n operators have been applied, and those left can still join what is on a
\* stack of this height.
Combinable(height, n) == height - 1 <= 2 * (MaxOperators[loaded] - n)

Push(answer, meaning) ==
  /\ Combinable(Len(stack) + 1, built) /\ Len(tape) < Len(loaded) + MaxEvals
  /\ stack' = Append(stack, answer) /\ meant' = Append(meant, meaning)
  /\ UNCHANGED <<loaded, tape, built>>

PushConst == \E x \in Literals[loaded] : Push(Constant(x.ty, x.v), x)

\* A value of the Frame; the last of these indices is not bound yet.
PushValue ==
  \E i \in 0 .. Len(tape) : Push(ValueAt(tape, i), IF i < Len(tape) THEN tape[i + 1] ELSE None)

Top(s, n) == [k \in 1 .. n |-> s[Len(s) - n + k]]
Replace(s, n, x) == Append(SubSeq(s, 1, Len(s) - n), x)

\* An operator on the n expressions on top.
Operate(n, op, target) ==
  /\ Len(stack) >= n /\ built < MaxOperators[loaded]
  /\ Combinable(Len(stack) - n + 1, built + 1)
  /\ stack' = Replace(stack, n, Composite(op, target, Top(stack, n)))
  /\ meant' = Replace(meant, n, Meaning(op, target, Top(meant, n), Types(Top(stack, n))))
  /\ built' = built + 1
  /\ UNCHANGED <<loaded, tape>>

ComposeUnary == (\E op \in UnaryOp : Operate(1, op, "none")) \/ (\E ty \in Int_ : Operate(1, "As", ty))
ComposeBinary == \E op \in BinaryOp : Operate(2, op, "none")
ComposeTernary == \E op \in TernaryOp : Operate(3, op, "none")

-----------------------------------------------------------------------------
(* Binding.                                                                *)

Composed == Len(stack) = 1
Discard == stack' = << >> /\ meant' = << >> /\ built' = 0 /\ UNCHANGED loaded

\* An Eval binding: the inferred type is the wanted one and the stored one.
LetEval ==
  /\ Composed /\ stack[1].ty # "none"
  /\ LET out == stack[1].out[stack[1].ty] IN
     out.err = "Ok" /\ tape' = Append(tape, [ty |-> stack[1].ty, v |-> out.v])
  /\ Discard

\* The let fails, or a new session starts.
Reset ==
  /\ stack # << >> \/ tape # loaded
  /\ tape' = loaded
  /\ Discard

ExprInit == loaded \in Loads /\ tape = loaded /\ stack = << >> /\ meant = << >> /\ built = 0

ExprNext == PushConst \/ PushValue \/ ComposeUnary \/ ComposeBinary \/ ComposeTernary \/ LetEval \/ Reset

ExprSpec == ExprInit /\ [][ExprNext]_exprVars

-----------------------------------------------------------------------------
(* Correctness.                                                            *)

\* Every bound value fits its type; every expression on the stack has a meaning
\* or none.
ExprTypeOK ==
  /\ loaded \in Loads /\ built \in 0 .. MaxOperators[loaded]
  /\ tape \in Seq(TypedValue) /\ Len(tape) <= Len(loaded) + MaxEvals
  /\ \A i \in 1 .. Len(tape) : Fits(tape[i])
  /\ Len(meant) = Len(stack)

\* The type that planners and eval_binding infer is the only type at which an
\* expression ever evaluates (infer_expr_ty looks at the left operand only,
\* eval_expr is told the type it must yield), and what it then yields fits it.
InferredIsEvaluated ==
  \A k \in 1 .. Len(stack) : \A ty \in Type :
    stack[k].out[ty].err = "Ok" => stack[k].ty = ty /\ stack[k].out[ty].v \in Values(ty)

\* Inferring, then evaluating top down at the inferred type, gives exactly
\* what the expression means, and fails exactly when it means nothing: no
\* operation that has a result is refused, none without a result gives one,
\* what Select does not take cannot fail it.  A result is wrapped or rounded
\* the wrong way in the two cases of Departs alone, and there as GivenInstead
\* says; that a cast between signed types keeps the low bits is documented
\* (docs/ir-completeness.zh-CN.md:116).
EvalIsMeaning ==
  \A k \in 1 .. Len(stack) :
    LET x == stack[k]
        m == meant[k]
    IN IF m = None THEN x.ty = "none" \/ x.out[x.ty].err # "Ok"
       ELSE m.ty = x.ty /\ x.out[m.ty] = Ok(m.v)

\* crates/ifx-core/src/wire/expr.rs:89: DivFloor is "Floor division".
DivFloorIsFloor ==
  (Len(stack) = 2 /\ \A k \in 1 .. 2 : meant[k].ty \in Int_) =>
    LET x == Composite("DivFloor", "none", stack)
        out == x.out[x.ty]
    IN x.ty # "none" /\ out.err = "Ok" => IsFloor(out.v, meant[1].v, meant[2].v)

=============================================================================
