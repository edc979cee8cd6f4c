------------------------------- MODULE Operators -------------------------------
(***************************************************************************)
(* The operators of the expression language, one at a time: the type that  *)
(* is inferred for an operator from its operands' (ifx-core                *)
(* infer_expr_ty), its evaluation at a wanted type (let_exec.rs) and the   *)
(* arithmetic of the values (value_ops.rs).                                *)
(*                                                                         *)
(* Inference and evaluation recur into operands.  Here an operand is what  *)
(* the recursive calls answer for it: its inferred type, "none" for an     *)
(* error, and the outcome of evaluating it at each type.  An expression is *)
(* then composed of its operands' answers.                                 *)
(*                                                                         *)
(* Types keep the names of the code and have Modulus[ty] values, so that   *)
(* every overflow is met with small numbers.  Booleans are 0 and 1, keys   *)
(* are numbers that are only compared; F32 and F64 are the small float     *)
(* type of Floats.                                                         *)
(*                                                                         *)
(* What the code and its documents promise is a second evaluation,         *)
(* `Meaning`: one pass, bottom up, over unbounded integers.                *)
(***************************************************************************)
EXTENDS Floats, Sequences

CONSTANTS
  Modulus,   \* how many values each type has: 2^8 of U8 and I8, and so on
  BpsDenom   \* BPS_DENOM

Unsigned == {"U8", "U16", "U32", "U64", "U128"}
WideSigned == {"I64", "I128"}
Signed == {"I8", "I16", "I32"} \cup WideSigned
Int_ == Unsigned \cup Signed
Float == {"F32", "F64"}
Ordered == Int_ \cup Float
Type == Ordered \cup {"Bool", "Pubkey"}
Negatable == Signed \cup Float

\* The operands that widen to a U64 (is_bps_operand_ty).
BpsOperand == {"U8", "U16", "U32", "U64"}

\* As in the code: no unsigned operand that widens to U64 is wider, U128 holds
\* a product of two U64, BPS_DENOM is a U64.
ASSUME OperatorsAssumption ==
  /\ Modulus \in [Int_ \cup {"Bool", "Pubkey"} -> Nat \ {0}]
  /\ Modulus["Bool"] = 2
  /\ \A ty \in Signed : Modulus[ty] % 2 = 0
  /\ \A ty \in BpsOperand : Modulus[ty] <= Modulus["U64"]
  /\ Modulus["U128"] = Modulus["U64"] * Modulus["U64"]
  /\ \A ty \in Int_ : Modulus[ty] <= Modulus["U128"]
  /\ Modulus["I128"] = Modulus["U128"]
  /\ BpsDenom \in 1 .. Modulus["U64"] - 1

High(ty) == IF ty \in Signed THEN Modulus[ty] \div 2 - 1 ELSE Modulus[ty] - 1
Low(ty) == IF ty \in Signed THEN - (Modulus[ty] \div 2) ELSE 0
Values(ty) == IF ty \in Float THEN Floats ELSE Low(ty) .. High(ty)

TypedValue == [ty : Type, v : Int]
Fits(value) == value \in TypedValue /\ value.v \in Values(value.ty)

Arith == {"Add", "Sub", "Mul", "Div", "Min", "Max"}
Numeric == Arith \cup {"DivFloor", "DivCeil", "SaturatingSub"}
Compare == {"Eq", "Ne", "Gt", "Ge", "Lt", "Le"}
Logic == {"And", "Or"}
Bps == {"BpsMulFloor", "BpsMulCeil"}
MulDiv == {"MulDivFloor", "MulDivCeil"}
UnaryOp == {"Not", "Neg", "IsZero", "NonZero"}
BinaryOp == Numeric \cup Compare \cup Logic \cup Bps
TernaryOp == MulDiv \cup {"Clamp", "Select"}
BoolOp == Compare \cup Logic \cup {"Not", "IsZero", "NonZero"}

-----------------------------------------------------------------------------
(* Type inference, from the operands' types t.                             *)

Inferred(op, target, t) ==
  CASE op = "As" -> target
    [] op \in BoolOp -> "Bool"
    [] op \in Bps -> "U64"
    [] op = "Neg" -> IF t[1] \in Negatable THEN t[1] ELSE "none"
    [] op \in Numeric -> IF t[1] # "Bool" THEN t[1] ELSE "none"
    [] op \in MulDiv \cup {"Clamp"} -> t[1]
    [] op = "Select" -> IF t[2] = t[3] THEN t[2] ELSE "none"

-----------------------------------------------------------------------------
(* Values.                                                                 *)

Ok(v) == [err |-> "Ok", v |-> v]
Err(err) == [err |-> err, v |-> 0]
Truth(p) == Ok(IF p THEN 1 ELSE 0)

\* Slip: wrapping in place of checked operations.
FitWrapped(ty, n, err) == Ok(n)

\* A result that its type cannot hold is an error.
Fit(ty, n, err) == IF n \in Values(ty) THEN Ok(n) ELSE Err(err)
Abs(n) == IF n < 0 THEN - n ELSE n
Ceil(a, b) == (a + b - 1) \div b

Trunc(a, b) == IF (a < 0) = (b < 0) THEN Abs(a) \div Abs(b) ELSE - (Abs(a) \div Abs(b))
Euclid(a, b) == IF b > 0 THEN a \div b ELSE - (a \div (- b))

IntegerArith(op, ty, a, b) ==
  CASE op = "Add" -> Fit(ty, a + b, "IntegerOverflow")
    [] op = "Sub" -> Fit(ty, a - b, "IntegerUnderflow")
    [] op = "Mul" -> Fit(ty, a * b, "IntegerOverflow")
    [] op = "Div" -> IF b = 0 THEN Err("DivisionByZero") ELSE Fit(ty, Trunc(a, b), "DivisionByZero")
    [] op = "Min" -> Ok(IF a <= b THEN a ELSE b)
    [] op = "Max" -> Ok(IF a >= b THEN a ELSE b)

FiniteOperands(vs) == vs \subseteq Finite

\* A rounded result may overflow to infinity, which no further arithmetic takes.
FloatArith(op, a, b) ==
  IF ~ FiniteOperands({a, b}) THEN Err("FloatUnordered")
  ELSE IF op = "Div" /\ b = 0 THEN Err("DivisionByZero")
  ELSE Ok(CASE op = "Add" -> FloatSum(a, b)
            [] op = "Sub" -> FloatDifference(a, b)
            [] op = "Mul" -> FloatProduct(a, b)
            [] op = "Div" -> FloatQuotient(a, b)
            [] op = "Min" -> IF a <= b THEN a ELSE b
            [] op = "Max" -> IF a >= b THEN a ELSE b)

FloatDivRound(op, a, b) ==
  IF b = 0 THEN Err("DivisionByZero")
  ELSE IF ~ FiniteOperands({a, b}) THEN Err("FloatUnordered")
  ELSE Ok(IF op = "DivFloor" THEN FloatFloor(FloatQuotient(a, b)) ELSE FloatCeil(FloatQuotient(a, b)))

ApplyArith(op, ty, a, b) ==
  IF ty \notin Ordered THEN Err("UnsupportedBinaryOp")
  ELSE IF ty \in Float THEN FloatArith(op, a, b) ELSE IntegerArith(op, ty, a, b)

\* Slip: signed operands divide like unsigned ones.
TruncDivFloor(ty, a, b) ==
  IF ty \in Float THEN FloatDivRound("DivFloor", a, b)
  ELSE IF ty \notin Unsigned \cup WideSigned THEN Err("UnsupportedBinaryOp")
  ELSE IF b = 0 THEN Err("DivisionByZero") ELSE Fit(ty, Trunc(a, b), "panic")

\* div_euclid of the least value by -1 panics.
ApplyDivFloor(ty, a, b) ==
  IF ty \in Float THEN FloatDivRound("DivFloor", a, b)
  ELSE IF ty \notin Unsigned \cup WideSigned THEN Err("UnsupportedBinaryOp")
  ELSE IF b = 0 THEN Err("DivisionByZero") ELSE Fit(ty, Euclid(a, b), "panic")

ApplyDivCeil(ty, a, b) ==
  IF ty \in Float THEN FloatDivRound("DivCeil", a, b)
  ELSE IF ty \notin Unsigned THEN Err("UnsupportedBinaryOp")
  ELSE IF b = 0 THEN Err("DivisionByZero") ELSE Ok(Ceil(a, b))

SaturatingSub(ty, a, b) ==
  IF ty \notin Int_ THEN Err("UnsupportedBinaryOp")
  ELSE Ok(IF a - b < Low(ty) THEN Low(ty) ELSE IF a - b > High(ty) THEN High(ty) ELSE a - b)

\* The product of two U64 has a U128 to itself; that of two U128 must fit one.
ApplyMulDiv(op, ty, a, b, c) ==
  IF c = 0 THEN Err("DivisionByZero")
  ELSE IF a * b > High("U128") THEN Err("IntegerOverflow")
  ELSE Fit(ty, IF op \in {"MulDivFloor", "BpsMulFloor"} THEN (a * b) \div c ELSE Ceil(a * b, c),
           "IntegerOverflow")

\* To an unsigned type a cast is checked, to a signed one it truncates.
ApplyCast(target, src, n) ==
  IF src \notin Int_ THEN Err("InvalidExprOperand")
  ELSE IF target \in Unsigned THEN Fit(target, n, "CastOverflow")
  ELSE IF n > High("I128") THEN Err("CastOverflow")
  ELSE Ok(((n - Low(target)) % Modulus[target]) + Low(target))

ApplyCompare(op, ty, a, b) ==
  IF ty \in {"Bool", "Pubkey"} /\ op \notin {"Eq", "Ne"} THEN Err("UnsupportedBinaryOp")
  ELSE IF ty \in Float /\ NaN \in {a, b} THEN Err("FloatUnordered")
  ELSE Truth(CASE op = "Eq" -> a = b [] op = "Ne" -> a # b
               [] op = "Gt" -> a > b [] op = "Ge" -> a >= b
               [] op = "Lt" -> a < b [] op = "Le" -> a <= b)

ApplyNeg(ty, a) ==
  IF ty \notin Float THEN Fit(ty, - a, "IntegerOverflow")
  ELSE IF FiniteOperands({a}) THEN Ok(- a) ELSE Err("FloatUnordered")

ApplyIsZero(ty, a) == IF ty = "Pubkey" THEN Err("InvalidExprOperand") ELSE Truth(a = 0)
ApplyNonZero(ty, a) == IF ty = "Pubkey" THEN Err("InvalidExprOperand") ELSE Truth(a # 0)

ApplyClamp(ty, value, lo, hi) ==
  LET maxed == ApplyArith("Max", ty, value, lo) IN
  IF maxed.err # "Ok" THEN maxed ELSE ApplyArith("Min", ty, maxed.v, hi)

\* Operator `op` with target `target` on operand values v, the first of type ty.
Apply(op, target, ty, v) ==
  CASE op = "Not" -> Truth(v[1] = 0)
    [] op = "Neg" -> ApplyNeg(ty, v[1])
    [] op = "IsZero" -> ApplyIsZero(ty, v[1])
    [] op = "NonZero" -> ApplyNonZero(ty, v[1])
    [] op = "As" -> ApplyCast(target, ty, v[1])
    [] op \in Compare -> ApplyCompare(op, ty, v[1], v[2])
    [] op = "And" -> Truth(v[1] = 1 /\ v[2] = 1)
    [] op = "Or" -> Truth(v[1] = 1 \/ v[2] = 1)
    [] op \in Arith -> ApplyArith(op, ty, v[1], v[2])
    [] op = "DivFloor" -> ApplyDivFloor(ty, v[1], v[2])
    [] op = "DivCeil" -> ApplyDivCeil(ty, v[1], v[2])
    [] op = "SaturatingSub" -> SaturatingSub(ty, v[1], v[2])
    [] op \in Bps -> ApplyMulDiv(op, "U64", v[1], v[2], BpsDenom)
    [] op \in MulDiv -> ApplyMulDiv(op, ty, v[1], v[2], v[3])
    [] op = "Clamp" -> ApplyClamp(ty, v[1], v[2], v[3])

-----------------------------------------------------------------------------
(* Evaluation at a wanted type.                                            *)

Narrower(ty, wide) == ty \in Unsigned /\ wide \in Unsigned /\ Modulus[ty] <= Modulus[wide]

\* Slip: a cast evaluates to its target whatever type is wanted.
AnyTarget(dst, target) == TRUE

IsTarget(dst, target) == dst = target

\* The types at which the operands are evaluated (t: their inferred types),
\* or why the expression is refused.
OperandTypes(dst, op, target, t) ==
  LET Refuse(err) == [err |-> err, tys |-> <<>>]
      Use(tys) == [err |-> "Ok", tys |-> tys]
      inferred == CASE op \in {"Not", "Neg"} \cup Logic -> {}
                    [] op \in Bps -> {2}
                    [] OTHER -> DOMAIN t
  IN
  IF op \in BoolOp /\ dst # "Bool" THEN Refuse("ExprTypeMismatch")
  ELSE IF \E k \in inferred : t[k] = "none" THEN Refuse("TypeError")
  ELSE CASE op \in {"Not"} \cup Logic -> Use([k \in DOMAIN t |-> "Bool"])
    [] op = "Neg" -> IF dst \in Negatable THEN Use(<<dst>>) ELSE Refuse("UnsupportedUnaryOp")
    [] op \in {"IsZero", "NonZero"} -> Use(t)
    [] op = "As" -> IF IsTarget(dst, target) THEN Use(t) ELSE Refuse("ExprTypeMismatch")
    [] op \in Compare ->
         IF t[1] # t[2] THEN Refuse("LoadTypeMismatch") ELSE Use(t)
    [] op \in Numeric ->
         IF t[1] # t[2] THEN Refuse("LoadTypeMismatch")
         ELSE IF dst # t[1] THEN Refuse("ExprTypeMismatch")
         ELSE IF dst = "Bool" THEN Refuse("UnsupportedBinaryOp") ELSE Use(t)
    [] op \in Bps ->
         IF dst # "U64" THEN Refuse("ExprTypeMismatch")
         ELSE IF ~ Narrower(t[2], "U64") THEN Refuse("UnsupportedBinaryOp")
         ELSE Use(<<"U64", t[2]>>)
    [] op \in MulDiv ->
         IF t[1] # t[2] THEN Refuse("LoadTypeMismatch")
         ELSE IF t[1] \notin {"U64", "U128"} THEN Refuse("UnsupportedBinaryOp")
         ELSE IF dst # t[1] THEN Refuse("ExprTypeMismatch")
         ELSE IF ~ Narrower(t[3], t[1]) THEN Refuse("LoadTypeMismatch") ELSE Use(t)
    [] op = "Clamp" ->
         IF t[1] # t[2] \/ t[2] # t[3] THEN Refuse("LoadTypeMismatch")
         ELSE IF t[1] = "Bool" THEN Refuse("UnsupportedBinaryOp")
         ELSE IF dst # t[1] THEN Refuse("ExprTypeMismatch") ELSE Use(t)
    [] op = "Select" ->
         IF t[1] # "Bool" \/ dst # t[2] THEN Refuse("ExprTypeMismatch")
         ELSE IF t[2] # t[3] THEN Refuse("LoadTypeMismatch") ELSE Use(t)

Taken(c) == IF c = 1 THEN 2 ELSE 3

\* The inferred types of operands x.
Types(x) == [k \in DOMAIN x |-> x[k].ty]

\* The outcomes of the operands, evaluated in order up to the first that fails.
Combined(op, target, ty, outcomes) ==
  LET failing == {k \in DOMAIN outcomes : outcomes[k].err # "Ok"} IN
  IF failing # {} THEN outcomes[CHOOSE k \in failing : \A m \in failing : k <= m]
  ELSE Apply(op, target, ty, [k \in DOMAIN outcomes |-> outcomes[k].v])

\* Only the arm that the condition takes is evaluated.
Selected(outcomes) ==
  IF outcomes[1].err # "Ok" THEN outcomes[1] ELSE outcomes[Taken(outcomes[1].v)]

\* What the operands x answer for `op`.
Evaluated(dst, op, target, x) ==
  LET typing == OperandTypes(dst, op, target, Types(x))
      outcomes == [k \in DOMAIN x |-> x[k].out[typing.tys[k]]]
  IN
  IF typing.err # "Ok" THEN Err(typing.err)
  ELSE IF op = "Select" THEN Selected(outcomes)
  ELSE Combined(op, target, typing.tys[1], outcomes)

-----------------------------------------------------------------------------
(* Expressions: what is answered for a leaf and for an operator.           *)

Constant(ty, v) ==
  [ty |-> ty, out |-> [dst \in Type |-> IF ty = dst THEN Ok(v) ELSE Err("LoadTypeMismatch")]]

\* A value of the Frame answers like a literal.
ValueAt(tp, i) ==
  IF i < Len(tp) THEN Constant(tp[i + 1].ty, tp[i + 1].v)
  ELSE [ty |-> "none", out |-> [dst \in Type |-> Err("InvalidValueIndex")]]

Composite(op, target, x) ==
  [ty |-> Inferred(op, target, Types(x)),
   out |-> [dst \in Type |-> Evaluated(dst, op, target, x)]]

-----------------------------------------------------------------------------
(* What an expression means, in one pass from the leaves up: a typed       *)
(* value, or None.  Operators mean what crates/ifx-core/src/wire/expr.rs   *)
(* says, casts what docs/ir-completeness.zh-CN.md:112-119 does.            *)

None == [ty |-> "none", v |-> 0]

\* The type of op on operands of types t, "none" if they do not fit together.
ResultType(op, target, t) ==
  CASE op = "Not" -> IF t[1] = "Bool" THEN "Bool" ELSE "none"
    [] op = "Neg" -> IF t[1] \in Negatable THEN t[1] ELSE "none"
    [] op \in {"IsZero", "NonZero"} -> IF t[1] \in Ordered \cup {"Bool"} THEN "Bool" ELSE "none"
    [] op = "As" -> IF t[1] \in Int_ THEN target ELSE "none"
    [] op = "DivFloor" ->
         IF t[1] = t[2] /\ t[1] \in Unsigned \cup WideSigned \cup Float THEN t[1] ELSE "none"
    [] op = "DivCeil" -> IF t[1] = t[2] /\ t[1] \in Unsigned \cup Float THEN t[1] ELSE "none"
    [] op = "SaturatingSub" -> IF t[1] = t[2] /\ t[1] \in Int_ THEN t[1] ELSE "none"
    [] op \in Arith -> IF t[1] = t[2] /\ t[1] \in Ordered THEN t[1] ELSE "none"
    [] op \in {"Eq", "Ne"} -> IF t[1] = t[2] THEN "Bool" ELSE "none"
    [] op \in Compare \ {"Eq", "Ne"} -> IF t[1] = t[2] /\ t[1] \in Ordered THEN "Bool" ELSE "none"
    [] op \in Logic -> IF t = <<"Bool", "Bool">> THEN "Bool" ELSE "none"
    [] op \in Bps -> IF t[1] = "U64" /\ t[2] \in BpsOperand THEN "U64" ELSE "none"
    [] op \in MulDiv ->
         IF t[1] = t[2] /\ t[1] \in {"U64", "U128"}
            /\ (t[3] \in BpsOperand \/ t[3] = t[1]) THEN t[1] ELSE "none"
    [] op = "Clamp" ->
         IF t[1] = t[2] /\ t[2] = t[3] /\ t[1] \in Ordered THEN t[1] ELSE "none"

IsFloor(q, a, b) == b # 0 /\ Abs(a - q * b) < Abs(b) /\ (a - q * b) * b >= 0
IsCeil(q, a, b) == b # 0 /\ Abs(a - q * b) < Abs(b) /\ (a - q * b) * b <= 0
Nearest(q, n, S) == q \in S /\ \A x \in S : Abs(n - q) <= Abs(n - x)

\* Floats that have no order, or no finite value to calculate with.
Undefined(op, vs) ==
  IF op \in Compare THEN NaN \in vs
  ELSE op \in Numeric \cup {"Neg", "Clamp"} /\ ~ vs \subseteq Finite

\* q is the result of op on finite floats; it is rounded before it is floored.
IsFloatResult(op, a, b, q) ==
  LET quotient == IF b > 0 THEN Round(2 * a, b) ELSE Round(- 2 * a, - b) IN
  CASE op = "Add" -> q = Round(a + b, 1)
    [] op = "Sub" -> q = Round(a - b, 1)
    [] op = "Mul" -> q = Round(a * b, 2)
    [] op = "Div" -> b # 0 /\ q = quotient
    [] op = "DivFloor" ->
         b # 0 /\ IF quotient \in Finite THEN q % 2 = 0 /\ quotient - q \in {0, 1} ELSE q = quotient
    [] op = "DivCeil" ->
         b # 0 /\ IF quotient \in Finite THEN q % 2 = 0 /\ q - quotient \in {0, 1} ELSE q = quotient

\* q is the result of op, of type ty, on values v, the first of type src.
IsResult(op, ty, src, v, q) ==
  IF src \in Float /\ op \in Numeric \ {"Min", "Max"} THEN IsFloatResult(op, v[1], v[2], q)
  ELSE CASE op = "Not" -> q = 1 - v[1]
    [] op = "Neg" -> q + v[1] = 0
    [] op = "IsZero" -> (q = 1) = (v[1] = 0)
    [] op = "NonZero" -> (q = 0) = (v[1] = 0)
    [] op = "As" -> IF src \in Signed /\ ty \in Signed THEN (q - v[1]) % Modulus[ty] = 0 ELSE q = v[1]
    [] op = "Add" -> q = v[1] + v[2]
    [] op = "Sub" -> q + v[2] = v[1]
    [] op = "Mul" -> q = v[1] * v[2]
    [] op = "Div" -> Abs(v[1] - q * v[2]) < Abs(v[2]) /\ (v[1] - q * v[2]) * v[1] >= 0
    [] op = "DivFloor" -> IsFloor(q, v[1], v[2])
    [] op = "DivCeil" -> IsCeil(q, v[1], v[2])
    [] op = "Min" -> q \in {v[1], v[2]} /\ q <= v[1] /\ q <= v[2]
    [] op = "Max" -> q \in {v[1], v[2]} /\ q >= v[1] /\ q >= v[2]
    [] op = "SaturatingSub" -> Nearest(q, v[1] - v[2], Values(ty))
    [] op = "Eq" -> (q = 1) = (v[1] = v[2])
    [] op = "Ne" -> (q = 0) = (v[1] = v[2])
    [] op = "Gt" -> (q = 1) = (v[2] < v[1])
    [] op = "Ge" -> (q = 0) = (v[1] < v[2])
    [] op = "Lt" -> (q = 1) = (v[1] < v[2])
    [] op = "Le" -> (q = 0) = (v[2] < v[1])
    [] op = "And" -> q = v[1] * v[2]
    [] op = "Or" -> (q = 0) = (v[1] + v[2] = 0)
    [] op = "BpsMulFloor" -> IsFloor(q, v[1] * v[2], BpsDenom)
    [] op = "BpsMulCeil" -> IsCeil(q, v[1] * v[2], BpsDenom)
    [] op = "MulDivFloor" -> IsFloor(q, v[1] * v[2], v[3]) /\ v[1] * v[2] <= High("U128")
    [] op = "MulDivCeil" -> IsCeil(q, v[1] * v[2], v[3]) /\ v[1] * v[2] <= High("U128")
    [] op = "Clamp" -> Nearest(q, v[1], IF v[2] <= v[3] THEN v[2] .. v[3] ELSE {v[3]})

\* Where the program departs from that: a quotient by a negative divisor that is
\* not whole (the run expr_floor), and an unsigned value above what a signed
\* target holds (docs/ir-completeness.zh-CN.md:117 says CastOverflow).
Departs(op, ty, src, v) ==
  \/ op = "DivFloor" /\ src \in Int_ /\ v[2] < 0 /\ v[1] % (- v[2]) # 0
  \/ op = "As" /\ src \in Unsigned /\ ty \in Signed /\ v[1] \in High(ty) + 1 .. High("I128")

\* What it gives there: the quotient above the floor; the value that wraps.
GivenInstead(op, ty, v, q) ==
  IF op = "DivFloor" THEN IsFloor(q - 1, v[1], v[2]) ELSE (q - v[1]) % Modulus[ty] = 0

Means(op, ty, src, v, q) ==
  IF Departs(op, ty, src, v) THEN GivenInstead(op, ty, v, q) ELSE IsResult(op, ty, src, v, q)

\* The meaning of op on operands that mean m and have the inferred types t.
Meaning(op, target, m, t) ==
  IF op = "Select" THEN
    IF m[1].ty = "Bool" /\ t[2] = t[3] THEN m[IF m[1].v = 1 THEN 2 ELSE 3] ELSE None
  ELSE
    LET tys == [k \in DOMAIN m |-> m[k].ty]
        v == [k \in DOMAIN m |-> m[k].v]
        ty == IF None \in {m[k] : k \in DOMAIN m} THEN "none" ELSE ResultType(op, target, tys)
        results == {q \in Values(ty) : Means(op, ty, tys[1], v, q)}
    IN IF ty = "none" \/ (tys[1] \in Float /\ Undefined(op, {v[k] : k \in DOMAIN v})) \/ results = {}
         THEN None
       ELSE [ty |-> ty, v |-> CHOOSE q \in results : TRUE]

=============================================================================
