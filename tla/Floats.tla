--------------------------------- MODULE Floats ---------------------------------
(***************************************************************************)
(* A small binary floating-point type in place of F32 and F64, with all    *)
(* that IEEE 754 has: two significant bits, subnormal numbers, rounding to *)
(* the nearest with ties to even, overflow to infinity, NaN.  A finite     *)
(* float is the integer of its halves: 3 is 1.5.  No operator of the code  *)
(* tells a negative zero from zero, so there is one zero.                  *)
(***************************************************************************)
EXTENDS Integers

Inf == 100
NaN == 1000

Positive == {1, 2, 3, 4, 6, 8, 12}
Finite == {0} \cup Positive \cup {- f : f \in Positive}
Floats == Finite \cup {Inf, - Inf, NaN}

\* The floats a rounded result may fall on; 16 stands for what overflows.
Grid == Finite \cup {16, -16}
EvenSignificand == {0, 2, 4, 8, 16, -2, -4, -8, -16}

Magnitude(n) == IF n < 0 THEN - n ELSE n

\* The quotient n / d of integers, d > 0, in halves, rounded.
Round(n, d) ==
  LET Dist(f) == Magnitude(n - f * d)
      near == {f \in Grid : \A g \in Grid : Dist(f) <= Dist(g)}
      f == IF near \cap EvenSignificand # {}
             THEN CHOOSE g \in near \cap EvenSignificand : TRUE ELSE CHOOSE g \in near : TRUE
  IN IF f = 16 THEN Inf ELSE IF f = -16 THEN - Inf ELSE f

FloatSum(a, b) == Round(a + b, 1)
FloatDifference(a, b) == Round(a - b, 1)
FloatProduct(a, b) == Round(a * b, 2)
FloatQuotient(a, b) == IF b > 0 THEN Round(2 * a, b) ELSE Round(-2 * a, - b)

\* floor and ceil of a quotient: infinities stay what they are.
FloatFloor(f) == IF f \in Finite THEN 2 * (f \div 2) ELSE f
FloatCeil(f) == IF f \in Finite THEN - (2 * ((- f) \div 2)) ELSE f

=============================================================================
