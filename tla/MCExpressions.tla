----------------------------- MODULE MCExpressions -----------------------------
(* Instances of Expressions, with types of 2, 3 and 6 bits.  Values: every *)
(* operator on every pair and triple of literals.  Trees: two operators,   *)
(* on a Frame that already holds two values; the same for floats.          *)
EXTENDS Expressions, TLC

MCModulus == [Bool |-> 2, Pubkey |-> 2, U8 |-> 4, I8 |-> 4, U16 |-> 4, I16 |-> 4, U32 |-> 8, I32 |-> 4,
              U64 |-> 8, I64 |-> 8, U128 |-> 64, I128 |-> 64]

Value(ty, v) == [ty |-> ty, v |-> v]

\* All literals of the narrow types, the boundary ones of the widest.
ValueLiterals ==
  UNION {{Value(ty, v) : v \in Values(ty)} : ty \in {"Bool", "Pubkey", "U8", "U64", "I8", "I64"}}
    \cup {Value("U128", v) : v \in {0, 1, 7, 8, 32, 63}}
    \cup {Value("I128", v) : v \in {-32, -1, 0, 31}}

TreeLiterals == {Value("U64", 0), Value("U8", 3), Value("I64", -1)}
TwoLoaded == <<Value("U64", 5), Value("Bool", 1)>>

\* A float literal is never NaN (the wire refuses it), a loaded float may be.
NaNLoaded == <<Value("F64", NaN)>>
FloatLiterals == {Value("F64", f) : f \in Finite \cup {Inf, - Inf}} \cup {Value("U64", 1), Value("Bool", 1)}

FloatsLoaded == <<Value("F64", 12), Value("F64", -3)>>
FloatTreeLiterals == {Value("F64", 1), Value("F32", 1), Value("Bool", 0)}

MCLiterals == <<>> :> ValueLiterals @@ TwoLoaded :> TreeLiterals
                @@ NaNLoaded :> FloatLiterals @@ FloatsLoaded :> FloatTreeLiterals
MCLoads == DOMAIN MCLiterals
MCMaxOperators == [l \in MCLoads |-> IF l \in {<<>>, NaNLoaded} THEN 1 ELSE 2]

=============================================================================
