---------------------------- MODULE Language_proofs ----------------------------
(***************************************************************************)
(* Proofs about the language of the program, for all widths of the types.  *)
(*                                                                         *)
(* Expressions.  The lemmas go from the arithmetic of one operator (its    *)
(* result is exact or refused) to what an operator answers on operands:    *)
(* `Answers(x, m)` says that x is what the program answers for an          *)
(* expression that means m, and CompositeAnswers that operators preserve   *)
(* it.  The invariant of the machine is that every expression on its stack *)
(* answers what it means.                                                  *)
(*                                                                         *)
(* Instruction data.  What is read from any bytes is typed, and the number *)
(* of nodes of an expression is what their arities ask for: DecodeTyped.   *)
(* `Spells(w, rest, b)` says that the bytes b are w and then the rest;     *)
(* every reader takes the bytes that the writer gives for what was read,   *)
(* from numbers and tags to statements: DecodeRegains.                     *)
(***************************************************************************)
EXTENDS Expressions, Wire, DataLemmas

-----------------------------------------------------------------------------
(* Types.                                                                  *)

\* The bounds of the integer types.
LEMMA UnsignedBounds ==
  ASSUME NEW ty \in Unsigned
  PROVE  /\ Modulus[ty] \in Nat \ {0} /\ Low(ty) = 0 /\ High(ty) = Modulus[ty] - 1
         /\ Values(ty) = 0 .. Modulus[ty] - 1
<1>1. ty \in Int_ /\ ty \notin Signed /\ ty \notin Float
  BY DEF Unsigned, Signed, WideSigned, Int_, Float
<1>2. Modulus[ty] \in Nat \ {0}
  BY <1>1, OperatorsAssumption
<1> QED
  BY <1>1, <1>2 DEF Low, High, Values

LEMMA SignedBounds ==
  ASSUME NEW ty \in Signed
  PROVE  /\ Modulus[ty] \in Nat \ {0}
         /\ Low(ty) \in Int /\ Low(ty) < 0 /\ High(ty) = - Low(ty) - 1
         /\ Modulus[ty] = - 2 * Low(ty)
         /\ Values(ty) = Low(ty) .. High(ty)
<1>1. ty \in Int_ /\ ty \notin Float
  BY DEF Unsigned, Signed, WideSigned, Int_, Float
<1>2. Modulus[ty] \in Nat \ {0} /\ Modulus[ty] % 2 = 0
  BY <1>1, OperatorsAssumption
<1> QED
  BY <1>1, <1>2 DEF Low, High, Values

LEMMA Bounds ==
  ASSUME NEW ty \in Int_
  PROVE  /\ Values(ty) = Low(ty) .. High(ty)
         /\ Low(ty) \in Int /\ High(ty) \in Int /\ Low(ty) <= 0 /\ 0 <= High(ty)
         /\ Modulus[ty] \in Nat \ {0} /\ Modulus[ty] = High(ty) - Low(ty) + 1
<1>1. CASE ty \in Unsigned
  BY <1>1, UnsignedBounds
<1>2. CASE ty \in Signed
  BY <1>2, SignedBounds
<1> QED
  BY <1>1, <1>2 DEF Int_

\* A value is an integer; a Boolean is 0 or 1.
LEMMA ValuesAreIntegers ==
  /\ Floats \subseteq Int /\ Finite \subseteq Floats
  /\ \A ty \in Float : Values(ty) = Floats
  /\ Values("Bool") = 0 .. 1
  /\ \A ty \in Type : Values(ty) \subseteq Int
<1>1. Floats \subseteq Int /\ Finite \subseteq Floats
  BY DEF Floats, Finite, Positive, Inf, NaN
<1>2. \A ty \in Float : Values(ty) = Floats
  BY DEF Values
<1>3. Values("Bool") = 0 .. 1
  BY OperatorsAssumption DEF Values, Low, High, Float, Signed, WideSigned
<1>4. Values("Pubkey") \subseteq Int
  BY OperatorsAssumption DEF Values, Low, High, Float, Signed, WideSigned
<1>5. ASSUME NEW ty \in Type PROVE Values(ty) \subseteq Int
  <2>1. CASE ty \in Int_
    BY <2>1, Bounds
  <2>2. CASE ty \in Float
    BY <2>2, <1>1, <1>2
  <2>3. CASE ty \in {"Bool", "Pubkey"}
    BY <2>3, <1>3, <1>4
  <2> QED
    BY <2>1, <2>2, <2>3 DEF Type, Ordered
<1> QED
  BY <1>1, <1>2, <1>3, <1>5

-----------------------------------------------------------------------------
(* Division, rounding and casts, over unbounded integers.                  *)

LEMMA TimesAtLeast ==
  ASSUME NEW x \in Int, NEW b \in Int, x >= 1, b >= 0
  PROVE  x * b >= b
OBVIOUS

LEMMA MinusTimes ==
  ASSUME NEW x \in Int, NEW b \in Int, x <= -1, b >= 0
  PROVE  x * b <= - b
OBVIOUS

LEMMA DivMod ==
  ASSUME NEW a \in Int, NEW b \in Int, b > 0
  PROVE  /\ a \div b \in Int
         /\ 0 <= a - (a \div b) * b /\ a - (a \div b) * b < b
OBVIOUS

LEMMA QuotientUnique ==
  ASSUME NEW a \in Int, NEW b \in Int, b > 0, NEW p \in Int, NEW q \in Int,
         a - p * b < b, 0 <= a - q * b
  PROVE  q <= p
<1> SUFFICES ASSUME q > p PROVE FALSE
  OBVIOUS
<1>1. (q - p) * b >= b
  BY TimesAtLeast
<1>2. q * b - p * b >= b
  BY <1>1
<1> QED
  BY <1>2

\* Flooring division by a positive number, for every dividend.
LEMMA FloorIs ==
  ASSUME NEW a \in Int, NEW b \in Int, b > 0
  PROVE  /\ a \div b \in Int
         /\ \A q \in Int : (0 <= a - q * b /\ a - q * b < b) <=> q = a \div b
<1> DEFINE p == a \div b
<1>1. p \in Int /\ 0 <= a - p * b /\ a - p * b < b
  BY DivMod
<1>2. ASSUME NEW q \in Int, 0 <= a - q * b, a - q * b < b
      PROVE  q = p
  <2> HIDE DEF p
  <2>1. q <= p /\ p <= q
    BY <1>1, <1>2, QuotientUnique
  <2> QED
    BY <2>1, <1>1
<1> QED
  BY <1>1, <1>2

LEMMA EuclidIs ==
  ASSUME NEW a \in Int, NEW b \in Int, b # 0
  PROVE  /\ Euclid(a, b) \in Int
         /\ \A q \in Int : (a - q * b \in 0 .. Abs(b) - 1) <=> q = Euclid(a, b)
<1>1. CASE b > 0
  <2>1. Euclid(a, b) = a \div b /\ Abs(b) = b
    BY <1>1 DEF Euclid, Abs
  <2>2. ASSUME NEW q \in Int
        PROVE  (a - q * b \in 0 .. b - 1) <=> (0 <= a - q * b /\ a - q * b < b)
    OBVIOUS
  <2> QED
    BY <1>1, <2>1, <2>2, FloorIs
<1>2. CASE b < 0
  <2> DEFINE c == - b
             p == a \div c
  <2>1. c \in Int /\ c > 0
    BY <1>2
  <2>2. p \in Int /\ \A q \in Int : (0 <= a - q * c /\ a - q * c < c) <=> q = p
    BY <2>1, FloorIs
  <2>3. Euclid(a, b) = - p /\ Abs(b) = c
    BY <1>2 DEF Euclid, Abs
  <2>4. ASSUME NEW q \in Int
        PROVE  (a - q * b \in 0 .. c - 1) <=> q = - p
    <3>1. a - q * b = a - (- q) * c
      OBVIOUS
    <3>2. (0 <= a - (- q) * c /\ a - (- q) * c < c) <=> - q = p
      BY <2>2
    <3> HIDE DEF p
    <3>3. (a - q * b \in 0 .. c - 1) <=> (0 <= a - q * b /\ a - q * b < c)
      BY <2>1
    <3>4. (- q = p) <=> (q = - p)
      BY <2>2
    <3> QED
      BY <3>1, <3>2, <3>3, <3>4
  <2> QED
    BY <2>2, <2>3, <2>4
<1> QED
  BY <1>1, <1>2

LEMMA CeilIs ==
  ASSUME NEW a \in Int, NEW b \in Int, b > 0
  PROVE  /\ Ceil(a, b) \in Int
         /\ \A q \in Int : (0 <= q * b - a /\ q * b - a < b) <=> q = Ceil(a, b)
<1> DEFINE n == a + b - 1
<1>1. n \in Int /\ n \div b \in Int /\ \A q \in Int : (0 <= n - q * b /\ n - q * b < b) <=> q = n \div b
  BY FloorIs
<1>2. Ceil(a, b) = n \div b
  BY DEF Ceil
<1>3. ASSUME NEW q \in Int
      PROVE  (0 <= n - q * b /\ n - q * b < b) <=> (0 <= q * b - a /\ q * b - a < b)
  <2>1. q * b \in Int
    OBVIOUS
  <2> QED
    BY <2>1
<1> QED
  BY <1>1, <1>2, <1>3

\* Quotients of a natural number are no larger than it.
LEMMA FloorAtMost ==
  ASSUME NEW a \in Nat, NEW b \in Int, b > 0
  PROVE  a \div b \in 0 .. a
OBVIOUS

LEMMA CeilAtMost ==
  ASSUME NEW a \in Nat, NEW b \in Int, b > 0
  PROVE  Ceil(a, b) \in 0 .. a
<1> DEFINE q == Ceil(a, b)
<1>1. q \in Int /\ 0 <= q * b - a /\ q * b - a < b
  BY CeilIs
<1> HIDE DEF q
<1>2. q >= 0
  BY <1>1, MinusTimes
<1>3. q <= a
  <2>1. CASE q <= 0
    BY <2>1, <1>1
  <2>2. CASE q >= 1
    <3>1. (q - 1) * (b - 1) >= 0
      BY <2>2, <1>1
    <3>2. (q - 1) * (b - 1) = q * b - q - b + 1
      BY <1>1
    <3> QED
      BY <3>1, <3>2, <1>1
  <2> QED
    BY <2>1, <2>2, <1>1
<1> QED
  BY <1>1, <1>2, <1>3 DEF q

LEMMA IsFloorIs ==
  ASSUME NEW a \in Int, NEW b \in Int, b > 0
  PROVE  \A q \in Int : IsFloor(q, a, b) <=> q = a \div b
<1>1. ASSUME NEW q \in Int
      PROVE  IsFloor(q, a, b) <=> (0 <= a - q * b /\ a - q * b < b)
  <2> DEFINE r == a - q * b
  <2>1. r \in Int
    OBVIOUS
  <2> HIDE DEF r
  <2>2. (b # 0 /\ Abs(r) < Abs(b) /\ r * b >= 0) <=> (0 <= r /\ r < b)
    BY <2>1 DEF Abs
  <2> QED
    BY <2>2 DEF IsFloor, r
<1> QED
  BY <1>1, FloorIs

LEMMA IsCeilIs ==
  ASSUME NEW a \in Int, NEW b \in Int, b > 0
  PROVE  \A q \in Int : IsCeil(q, a, b) <=> q = Ceil(a, b)
<1>1. ASSUME NEW q \in Int
      PROVE  IsCeil(q, a, b) <=> (0 <= q * b - a /\ q * b - a < b)
  <2> DEFINE r == a - q * b
  <2>1. r \in Int /\ q * b - a = - r
    OBVIOUS
  <2> HIDE DEF r
  <2>2. (b # 0 /\ Abs(r) < Abs(b) /\ r * b <= 0) <=> (0 <= - r /\ - r < b)
    BY <2>1 DEF Abs
  <2> QED
    BY <2>1, <2>2 DEF IsCeil, r
<1> QED
  BY <1>1, CeilIs

\* A dividend is a multiple of a divisor or leaves something of it.
LEMMA RemainderIs ==
  ASSUME NEW a \in Int, NEW c \in Int, c > 0, NEW q \in Int, a - q * c = 0
  PROVE  a % c = 0
<1>1. 0 <= a - q * c /\ a - q * c < c
  OBVIOUS
<1>2. q = a \div c
  BY <1>1, FloorIs
<1>3. a % c = a - (a \div c) * c
  OBVIOUS
<1> QED
  BY <1>2, <1>3

LEMMA WholeIs ==
  ASSUME NEW a \in Int, NEW c \in Int, c > 0, a % c = 0, NEW q \in Int,
         0 <= a - q * c, a - q * c < c
  PROVE  a - q * c = 0
<1>1. q = a \div c
  BY FloorIs
<1>2. a % c = a - (a \div c) * c
  OBVIOUS
<1> QED
  BY <1>1, <1>2

\* The quotient that leaves nothing below zero is the floor, or the one above it
\* where the divisor is negative and something is left.
LEMMA AboveTheFloor ==
  ASSUME NEW a \in Int, NEW b \in Int, b < 0, a % (- b) # 0, NEW q \in Int
  PROVE  IsFloor(q - 1, a, b) <=> b # 0 /\ a - q * b \in 0 .. Abs(b) - 1
<1> DEFINE c == - b
           r == a - q * b
<1>1. c \in Int /\ c > 0 /\ Abs(b) = c /\ r \in Int
  BY DEF Abs
<1>2. a - (q - 1) * b = r - c
  OBVIOUS
<1>3. r # 0
  <2>1. r = a - (- q) * c
    OBVIOUS
  <2> HIDE DEF c, r
  <2>2. a - (- q) * c = 0 => a % c = 0
    BY <1>1, RemainderIs
  <2> QED
    BY <2>1, <2>2 DEF c
<1>4. r # c
  <2>1. r - c = a - (1 - q) * c
    OBVIOUS
  <2> HIDE DEF c, r
  <2>2. a - (1 - q) * c = 0 => a % c = 0
    BY <1>1, RemainderIs
  <2>3. r = c => r - c = 0
    BY <1>1
  <2> QED
    BY <2>1, <2>2, <2>3 DEF c
<1>5. IsFloor(q - 1, a, b) <=> Abs(r - c) < c /\ (r - c) * b >= 0
  BY <1>1, <1>2 DEF IsFloor
<1>6. (r - c) * b >= 0 <=> r - c <= 0
  <2> DEFINE d == r - c
  <2>1. d \in Int
    BY <1>1
  <2> HIDE DEF d
  <2>2. d * b >= 0 <=> d <= 0
    BY <2>1
  <2> QED
    BY <2>2 DEF d
<1> HIDE DEF c, r
<1>7. Abs(r - c) < c /\ r - c <= 0 <=> r \in 0 .. c - 1
  BY <1>1, <1>3, <1>4 DEF Abs
<1> QED
  BY <1>1, <1>5, <1>6, <1>7 DEF r

LEMMA OnTheFloor ==
  ASSUME NEW a \in Int, NEW b \in Int, ~ (b < 0 /\ a % (- b) # 0), NEW q \in Int
  PROVE  IsFloor(q, a, b) <=> b # 0 /\ a - q * b \in 0 .. Abs(b) - 1
<1> DEFINE r == a - q * b
<1>1. r \in Int
  OBVIOUS
<1>2. CASE b = 0
  BY <1>2 DEF IsFloor
<1>3. CASE b > 0
  <2> HIDE DEF r
  <2>1. (b # 0 /\ Abs(r) < Abs(b) /\ r * b >= 0) <=> r \in 0 .. Abs(b) - 1
    BY <1>1, <1>3 DEF Abs
  <2> QED
    BY <1>3, <2>1 DEF IsFloor, r
<1>4. CASE b < 0
  <2> DEFINE c == - b
  <2>1. c \in Int /\ c > 0 /\ Abs(b) = c /\ a % c = 0
    BY <1>4 DEF Abs
  <2>2. r * b >= 0 <=> r <= 0
    <3> HIDE DEF r
    <3> QED
      BY <1>1, <1>4
  <2>3. r = a - (- q) * c /\ r + c = a - (- q - 1) * c
    OBVIOUS
  <2> HIDE DEF c, r
  <2>4. r \in 0 .. c - 1 => r = 0
    <3>1. - q \in Int
      OBVIOUS
    <3>2. 0 <= a - (- q) * c /\ a - (- q) * c < c => a - (- q) * c = 0
      BY <2>1, <3>1, WholeIs
    <3> QED
      BY <1>1, <2>1, <2>3, <3>2
  <2>5. - c < r /\ r <= 0 => r = 0
    <3>1. - q - 1 \in Int
      OBVIOUS
    <3>2. 0 <= a - (- q - 1) * c /\ a - (- q - 1) * c < c => a - (- q - 1) * c = 0
      BY <2>1, <3>1, WholeIs
    <3> QED
      BY <1>1, <2>1, <2>3, <3>2
  <2>6. Abs(r) < c /\ r <= 0 <=> r \in 0 .. c - 1
    BY <1>1, <2>1, <2>4, <2>5 DEF Abs
  <2> QED
    BY <1>4, <2>1, <2>2, <2>6 DEF IsFloor, r
<1> QED
  BY <1>2, <1>3, <1>4

LEMMA TruncIs ==
  ASSUME NEW a \in Int, NEW b \in Int, b # 0
  PROVE  /\ Trunc(a, b) \in Int
         /\ \A q \in Int : (Abs(a - q * b) < Abs(b) /\ (a - q * b) * a >= 0) <=> q = Trunc(a, b)
<1> DEFINE c == Abs(a)
           d == Abs(b)
           p == c \div d
           s == IF (a < 0) = (b < 0) THEN 1 ELSE -1
           u == IF a < 0 THEN -1 ELSE 1
<1>1. c \in Int /\ d \in Int /\ d > 0 /\ c >= 0
  BY DEF Abs
<1>2. p \in Int /\ \A q \in Int : (0 <= c - q * d /\ c - q * d < d) <=> q = p
  BY <1>1, FloorIs
<1>3. p >= 0
  BY <1>1, <1>2
<1>4. Trunc(a, b) = s * p
  BY <1>2 DEF Trunc
<1>5. ASSUME NEW q \in Int
      PROVE  (Abs(a - q * b) < d /\ (a - q * b) * a >= 0) <=> (0 <= c - (s * q) * d /\ c - (s * q) * d < d)
  <2>1. a - q * b = u * (c - (s * q) * d)
    BY DEF Abs
  <2> DEFINE r == c - (s * q) * d
  <2>2. r \in Int
    BY <1>1
  <2>3. (a - q * b) * a = r * c
    BY <2>1, <2>2 DEF Abs
  <2>4. Abs(a - q * b) = Abs(r)
    BY <2>1, <2>2 DEF Abs
  <2>5. (Abs(r) < d /\ r * c >= 0) <=> (0 <= r /\ r < d)
    <3>1. CASE c = 0
      <4> DEFINE k == s * q
      <4>1. k \in Int
        OBVIOUS
      <4>2. r = c - k * d
        OBVIOUS
      <4> HIDE DEF r, c, d, k
      <4>3. k = 0 \/ k * d >= d \/ k * d <= - d
        BY <4>1, <1>1, TimesAtLeast, MinusTimes
      <4> QED
        BY <4>1, <4>2, <4>3, <3>1, <1>1, <2>2 DEF Abs
    <3>2. CASE c > 0
      <4> HIDE DEF r, c
      <4>1. (r * c >= 0) <=> (r >= 0)
        BY <2>2, <1>1, <3>2
      <4> QED
        BY <4>1, <2>2, <1>1 DEF Abs
    <3> QED
      BY <3>1, <3>2, <1>1
  <2> QED
    BY <2>3, <2>4, <2>5
<1>6. ASSUME NEW q \in Int PROVE (s * q = p) <=> (q = s * p)
  BY <1>2
<1> QED
  BY <1>1, <1>2, <1>4, <1>5, <1>6

LEMMA CastIs ==
  ASSUME NEW n \in Int, NEW lo \in Int, NEW M \in Int, M > 0
  PROVE  /\ ((n - lo) % M) + lo \in lo .. lo + M - 1
         /\ \A q \in lo .. lo + M - 1 : (q - n) % M = 0 <=> q = ((n - lo) % M) + lo
<1> DEFINE a == n - lo
           k == a \div M
           r == (a % M) + lo
<1>1. a \in Int /\ k \in Int /\ a % M = a - k * M /\ a % M \in 0 .. M - 1
  OBVIOUS
<1>2. (r - n) % M = 0
  <2>1. r - n = (- k) * M
    BY <1>1
  <2>2. \A j \in Int : (j * M) % M = 0
    OBVIOUS
  <2> QED
    BY <2>1, <2>2, <1>1
<1>3. ASSUME NEW q \in lo .. lo + M - 1, (q - n) % M = 0
      PROVE  q = r
  <2>1. PICK j \in Int : q - n = j * M
    BY <1>3
  <2>2. q - lo = a - (- j) * M
    BY <2>1
  <2>3. 0 <= a - (- j) * M /\ a - (- j) * M < M
    BY <2>2
  <2>4. - j = k
    BY <2>3, <1>1, FloorIs
  <2> QED
    BY <2>2, <2>4, <1>1
<1> QED
  BY <1>1, <1>2, <1>3

\* The number of an interval nearest to n.
LEMMA NearestInInterval ==
  ASSUME NEW n \in Int, NEW lo \in Int, NEW hi \in Int, lo <= hi
  PROVE  \A q \in Int : Nearest(q, n, lo .. hi) <=> q = IF n < lo THEN lo ELSE IF n > hi THEN hi ELSE n
<1> DEFINE m == IF n < lo THEN lo ELSE IF n > hi THEN hi ELSE n
<1>1. m \in lo .. hi
  OBVIOUS
<1>2. \A x \in lo .. hi : Abs(n - m) <= Abs(n - x)
  BY DEF Abs
<1>3. \A q \in lo .. hi : Abs(n - q) <= Abs(n - m) => q = m
  BY DEF Abs
<1> QED
  BY <1>1, <1>2, <1>3 DEF Nearest

-----------------------------------------------------------------------------
(* What Apply computes, operator by operator.                              *)

LEMMA ApplyOperator ==
  ASSUME NEW target, NEW ty, NEW v
  PROVE  /\ Apply("Not", target, ty, v) = Truth(v[1] = 0)
         /\ Apply("Neg", target, ty, v) = ApplyNeg(ty, v[1])
         /\ Apply("IsZero", target, ty, v) = ApplyIsZero(ty, v[1])
         /\ Apply("NonZero", target, ty, v) = ApplyNonZero(ty, v[1])
         /\ Apply("As", target, ty, v) = ApplyCast(target, ty, v[1])
         /\ Apply("And", target, ty, v) = Truth(v[1] = 1 /\ v[2] = 1)
         /\ Apply("Or", target, ty, v) = Truth(v[1] = 1 \/ v[2] = 1)
         /\ Apply("DivFloor", target, ty, v) = ApplyDivFloor(ty, v[1], v[2])
         /\ Apply("DivCeil", target, ty, v) = ApplyDivCeil(ty, v[1], v[2])
         /\ Apply("SaturatingSub", target, ty, v) = SaturatingSub(ty, v[1], v[2])
         /\ Apply("Clamp", target, ty, v) = ApplyClamp(ty, v[1], v[2], v[3])
BY DEF Apply, Arith, Compare, Bps, MulDiv

LEMMA ApplySorts ==
  ASSUME NEW op, NEW target, NEW ty, NEW v
  PROVE  /\ op \in Compare => Apply(op, target, ty, v) = ApplyCompare(op, ty, v[1], v[2])
         /\ op \in Arith => Apply(op, target, ty, v) = ApplyArith(op, ty, v[1], v[2])
         /\ op \in Bps => Apply(op, target, ty, v) = ApplyMulDiv(op, "U64", v[1], v[2], BpsDenom)
         /\ op \in MulDiv => Apply(op, target, ty, v) = ApplyMulDiv(op, ty, v[1], v[2], v[3])
BY DEF Apply, Arith, Compare, Bps, MulDiv

-----------------------------------------------------------------------------
(* Outcomes that are exactly the result of an operator.                    *)

\* The outcome is the result of the operator if it has one, and an error if not.
Exact(op, ty, src, v, out) ==
  /\ out.err = "Ok" => out.v \in Values(ty) /\ Means(op, ty, src, v, out.v)
  /\ \A q \in Values(ty) : Means(op, ty, src, v, q) => out = Ok(q)

LEMMA OkExact ==
  ASSUME NEW op, NEW ty, NEW src, NEW v, NEW n \in Values(ty),
         \A q \in Values(ty) : Means(op, ty, src, v, q) <=> q = n
  PROVE  Exact(op, ty, src, v, Ok(n))
BY DEF Exact, Ok

LEMMA ErrExact ==
  ASSUME NEW op, NEW ty, NEW src, NEW v, NEW err, err # "Ok",
         \A q \in Values(ty) : ~ Means(op, ty, src, v, q)
  PROVE  Exact(op, ty, src, v, Err(err))
BY DEF Exact, Ok, Err

LEMMA FitExact ==
  ASSUME NEW op, NEW ty, NEW src, NEW v, NEW n, NEW err, err # "Ok",
         \A q \in Values(ty) : Means(op, ty, src, v, q) <=> q = n
  PROVE  Exact(op, ty, src, v, Fit(ty, n, err))
<1>1. CASE n \in Values(ty)
  BY <1>1, OkExact DEF Fit
<1>2. CASE n \notin Values(ty)
  <2>1. \A q \in Values(ty) : ~ Means(op, ty, src, v, q)
    BY <1>2
  <2> QED
    BY <1>2, <2>1, ErrExact DEF Fit
<1> QED
  BY <1>1, <1>2

\* A verdict is a Boolean.
LEMMA TruthExact ==
  ASSUME NEW op, NEW src, NEW v, NEW p \in BOOLEAN,
         \A q \in 0 .. 1 : Means(op, "Bool", src, v, q) <=> (q = IF p THEN 1 ELSE 0)
  PROVE  Exact(op, "Bool", src, v, Truth(p))
BY ValuesAreIntegers, OkExact DEF Truth

LEMMA UnaryExact ==
  ASSUME NEW src \in Ordered \cup {"Bool"}, NEW v, v[1] \in Values(src)
  PROVE  /\ src = "Bool" => Exact("Not", "Bool", src, v, Truth(v[1] = 0))
         /\ src \in Signed => Exact("Neg", src, src, v, ApplyNeg(src, v[1]))
         /\ Exact("IsZero", "Bool", src, v, ApplyIsZero(src, v[1]))
         /\ Exact("NonZero", "Bool", src, v, ApplyNonZero(src, v[1]))
<1>1. v[1] \in Int /\ src # "Pubkey"
  BY ValuesAreIntegers DEF Type, Ordered, Int_, Unsigned, Signed, WideSigned, Float
<1>2. ASSUME src = "Bool" PROVE Exact("Not", "Bool", src, v, Truth(v[1] = 0))
  <2>1. v[1] \in 0 .. 1
    BY <1>2, ValuesAreIntegers
  <2>2. ASSUME NEW q \in 0 .. 1
        PROVE  Means("Not", "Bool", src, v, q) <=> q = IF v[1] = 0 THEN 1 ELSE 0
    <3>1. Means("Not", "Bool", src, v, q) <=> q = 1 - v[1]
      BY DEF Means, Departs, IsResult, Numeric, Arith
    <3> QED
      BY <2>1, <3>1
  <2> QED
    BY <2>2, TruthExact
<1>3. ASSUME src \in Signed PROVE Exact("Neg", src, src, v, ApplyNeg(src, v[1]))
  <2>1. src \notin Float /\ Values(src) \subseteq Int
    BY <1>3, ValuesAreIntegers DEF Signed, WideSigned, Float, Type, Ordered, Int_
  <2>2. ASSUME NEW q \in Values(src)
        PROVE  Means("Neg", src, src, v, q) <=> q = - v[1]
    <3>1. Means("Neg", src, src, v, q) <=> q + v[1] = 0
      BY <2>1 DEF Means, Departs, IsResult
    <3> QED
      BY <2>1, <3>1, <1>1
  <2> QED
    BY <2>1, <2>2, FitExact DEF ApplyNeg
<1>4. Exact("IsZero", "Bool", src, v, ApplyIsZero(src, v[1]))
  <2>1. ASSUME NEW q \in 0 .. 1
        PROVE  Means("IsZero", "Bool", src, v, q) <=> q = IF v[1] = 0 THEN 1 ELSE 0
    BY DEF Means, Departs, IsResult, Numeric, Arith
  <2> QED
    BY <1>1, <2>1, TruthExact DEF ApplyIsZero
<1>5. Exact("NonZero", "Bool", src, v, ApplyNonZero(src, v[1]))
  <2>1. ASSUME NEW q \in 0 .. 1
        PROVE  Means("NonZero", "Bool", src, v, q) <=> q = IF v[1] # 0 THEN 1 ELSE 0
    BY DEF Means, Departs, IsResult, Numeric, Arith
  <2> QED
    BY <1>1, <2>1, TruthExact DEF ApplyNonZero
<1> QED
  BY <1>2, <1>3, <1>4, <1>5

LEMMA CastExact ==
  ASSUME NEW src \in Int_, NEW target \in Int_, NEW v, v[1] \in Values(src)
  PROVE  Exact("As", target, src, v, ApplyCast(target, src, v[1]))
<1>1. v[1] \in Int
  BY ValuesAreIntegers DEF Type, Ordered
<1>2. CASE target \in Unsigned
  <2>1. ASSUME NEW q PROVE Means("As", target, src, v, q) <=> q = v[1]
    BY <1>2 DEF Means, Departs, IsResult, Numeric, Arith, Signed, WideSigned, Unsigned
  <2> QED
    BY <1>2, <2>1, FitExact DEF ApplyCast
<1>3. CASE target \in Signed
  <2> DEFINE M == Modulus[target]
             lo == Low(target)
             top == High("I128")
             n == ((v[1] - lo) % M) + lo
  <2>1. target \notin Unsigned
    BY <1>3 DEF Signed, WideSigned, Unsigned
  <2>2. top \in Int /\ High(target) \in Int
    BY <1>3, Bounds DEF Int_, Signed, WideSigned
  <2>3. lo \in Int /\ M \in Int /\ M > 0 /\ Values(target) = lo .. lo + M - 1
    BY <1>3, SignedBounds
  <2>4. High(target) <= top /\ lo <= 0 /\ High(target) = lo + M - 1
    <3>1. /\ M % 2 = 0 /\ M <= Modulus["I128"] /\ Modulus["I128"] % 2 = 0
          /\ M \in Nat /\ Modulus["I128"] \in Nat
      BY <1>3, OperatorsAssumption DEF Int_, Signed, WideSigned
    <3>2. High(target) = M \div 2 - 1 /\ top = Modulus["I128"] \div 2 - 1 /\ lo = - (M \div 2)
      BY <1>3 DEF High, Low, Signed, WideSigned
    <3> QED
      BY <3>1, <3>2
  <2>5. n \in lo .. lo + M - 1 /\ \A q \in lo .. lo + M - 1 : (q - v[1]) % M = 0 <=> q = n
    <3> HIDE DEF M, lo
    <3> QED
      BY <2>3, <1>1, CastIs, Zenon
  <2>6. CASE v[1] > top
    <3>1. ApplyCast(target, src, v[1]) = Err("CastOverflow")
      BY <2>1, <2>6 DEF ApplyCast
    <3>2. src \in Unsigned
      <4>1. ASSUME src \in Signed PROVE FALSE
        <5>1. /\ Modulus[src] <= Modulus["I128"] /\ Modulus["I128"] % 2 = 0 /\ Modulus[src] % 2 = 0
              /\ Modulus[src] \in Nat /\ Modulus["I128"] \in Nat
          BY <4>1, OperatorsAssumption DEF Int_, Signed, WideSigned
        <5>2. v[1] <= Modulus[src] \div 2 - 1 /\ top = Modulus["I128"] \div 2 - 1
          BY <4>1, <1>1, <5>1 DEF Values, High, Low, Float, Signed, WideSigned
        <5> QED
          BY <5>1, <5>2, <2>6, <1>1
      <4> QED
        BY <4>1 DEF Int_
    <3>3. ASSUME NEW q \in Values(target) PROVE ~ Means("As", target, src, v, q)
      <4>1. q < v[1]
        <5> HIDE DEF M, lo, top
        <5> QED
          BY <2>2, <2>3, <2>4, <2>6, <1>1
      <4>2. Means("As", target, src, v, q) <=> q = v[1]
        BY <1>3, <2>2, <2>6, <3>2, <1>1 DEF Means, Departs, IsResult, Numeric, Arith, Signed, WideSigned, Unsigned
      <4> QED
        BY <4>1, <4>2, <1>1
    <3> QED
      BY <3>1, <3>3, ErrExact
  <2>7. CASE ~ (v[1] > top)
    <3>1. v[1] <= top
      BY <2>2, <2>7, <1>1
    <3>2. ApplyCast(target, src, v[1]) = Ok(n)
      BY <2>1, <2>7 DEF ApplyCast
    <3>3. ASSUME NEW q \in Values(target) PROVE Means("As", target, src, v, q) <=> q = n
      <4>1. (q - v[1]) % M = 0 <=> q = n
        <5> HIDE DEF M, lo, n
        <5> QED
          BY <2>3, <2>5
      <4>2. CASE src \in Signed
        BY <1>3, <4>1, <4>2 DEF Means, Departs, IsResult, Numeric, Arith, Signed, WideSigned, Unsigned
      <4>3. CASE src \in Unsigned /\ v[1] > High(target)
        <5>1. v[1] \in High(target) + 1 .. High("I128")
          BY <1>1, <2>2, <3>1, <4>3
        <5> QED
          BY <1>3, <4>1, <4>3, <5>1 DEF Means, Departs, GivenInstead
      <4>4. CASE src \in Unsigned /\ ~ (v[1] > High(target))
        <5>1. v[1] >= 0
          BY <4>4, UnsignedBounds, <1>1
        <5>2. v[1] \in lo .. lo + M - 1 /\ (v[1] - v[1]) % M = 0
          <6> HIDE DEF M, lo
          <6> QED
            BY <1>1, <2>2, <2>3, <2>4, <4>4, <5>1
        <5>3. v[1] = n
          <6> HIDE DEF M, lo, n
          <6> QED
            BY <2>5, <5>2
        <5>4. v[1] \notin High(target) + 1 .. High("I128")
          BY <1>1, <2>2, <4>4
        <5> HIDE DEF n
        <5> QED
          BY <1>3, <4>4, <5>3, <5>4
             DEF Means, Departs, IsResult, Numeric, Arith, Signed, WideSigned, Unsigned
      <4> QED
        BY <4>2, <4>3, <4>4 DEF Int_
    <3>4. n \in Values(target)
      <4> HIDE DEF M, lo, n
      <4> QED
        BY <2>3, <2>5
    <3> HIDE DEF n
    <3> QED
      BY <3>2, <3>3, <3>4, OkExact
  <2> QED
    BY <2>6, <2>7
<1> QED
  BY <1>2, <1>3 DEF Int_

LEMMA IntegerArithExact ==
  ASSUME NEW ty \in Int_, NEW v, v[1] \in Values(ty), v[2] \in Values(ty)
  PROVE  /\ Exact("Add", ty, ty, v, IntegerArith("Add", ty, v[1], v[2]))
         /\ Exact("Sub", ty, ty, v, IntegerArith("Sub", ty, v[1], v[2]))
         /\ Exact("Mul", ty, ty, v, IntegerArith("Mul", ty, v[1], v[2]))
         /\ Exact("Div", ty, ty, v, IntegerArith("Div", ty, v[1], v[2]))
<1> DEFINE a == v[1]
           b == v[2]
<1>1. a \in Int /\ b \in Int /\ Values(ty) \subseteq Int /\ ty \notin Float
  BY ValuesAreIntegers DEF Type, Ordered, Int_, Unsigned, Signed, WideSigned, Float
<1>2. Exact("Add", ty, ty, v, IntegerArith("Add", ty, a, b))
  <2>1. ASSUME NEW q PROVE Means("Add", ty, ty, v, q) <=> q = a + b
    BY <1>1 DEF Means, Departs, IsResult
  <2>2. IntegerArith("Add", ty, a, b) = Fit(ty, a + b, "IntegerOverflow")
    BY DEF IntegerArith
  <2> QED
    BY <2>1, <2>2, FitExact
<1>3. Exact("Sub", ty, ty, v, IntegerArith("Sub", ty, a, b))
  <2>1. ASSUME NEW q \in Values(ty) PROVE Means("Sub", ty, ty, v, q) <=> q = a - b
    <3>1. Means("Sub", ty, ty, v, q) <=> q + b = a
      BY <1>1 DEF Means, Departs, IsResult
    <3> QED
      BY <3>1, <1>1
  <2>2. IntegerArith("Sub", ty, a, b) = Fit(ty, a - b, "IntegerUnderflow")
    BY DEF IntegerArith
  <2> QED
    BY <2>1, <2>2, FitExact
<1>4. Exact("Mul", ty, ty, v, IntegerArith("Mul", ty, a, b))
  <2>1. ASSUME NEW q PROVE Means("Mul", ty, ty, v, q) <=> q = a * b
    BY <1>1 DEF Means, Departs, IsResult
  <2>2. IntegerArith("Mul", ty, a, b) = Fit(ty, a * b, "IntegerOverflow")
    BY DEF IntegerArith
  <2> QED
    BY <2>1, <2>2, FitExact
<1>5. Exact("Div", ty, ty, v, IntegerArith("Div", ty, a, b))
  <2>1. ASSUME NEW q
        PROVE  Means("Div", ty, ty, v, q) <=> Abs(a - q * b) < Abs(b) /\ (a - q * b) * a >= 0
    BY <1>1 DEF Means, Departs, IsResult
  <2>2. CASE b = 0
    <3>1. IntegerArith("Div", ty, a, b) = Err("DivisionByZero")
      BY <2>2 DEF IntegerArith
    <3>2. ASSUME NEW q \in Values(ty) PROVE ~ Means("Div", ty, ty, v, q)
      <4>1. a - q * b \in Int
        BY <1>1
      <4>2. ~ (Abs(a - q * b) < Abs(b))
        BY <4>1, <2>2 DEF Abs
      <4> QED
        BY <2>1, <4>2
    <3> QED
      BY <3>1, <3>2, ErrExact
  <2>3. CASE b # 0
    <3>1. IntegerArith("Div", ty, a, b) = Fit(ty, Trunc(a, b), "DivisionByZero")
      BY <2>3 DEF IntegerArith
    <3>2. ASSUME NEW q \in Values(ty) PROVE Means("Div", ty, ty, v, q) <=> q = Trunc(a, b)
      <4>1. (Abs(a - q * b) < Abs(b) /\ (a - q * b) * a >= 0) <=> q = Trunc(a, b)
        BY <1>1, <2>3, TruncIs
      <4> QED
        BY <2>1, <4>1
    <3> QED
      BY <3>1, <3>2, FitExact
  <2> QED
    BY <2>2, <2>3
<1> QED
  BY <1>2, <1>3, <1>4, <1>5

LEMMA DivRoundExact ==
  ASSUME NEW ty \in Int_, NEW v, v[1] \in Values(ty), v[2] \in Values(ty)
  PROVE  /\ ty \in Unsigned \cup WideSigned => Exact("DivFloor", ty, ty, v, ApplyDivFloor(ty, v[1], v[2]))
         /\ ty \in Unsigned => Exact("DivCeil", ty, ty, v, ApplyDivCeil(ty, v[1], v[2]))
<1> DEFINE a == v[1]
           b == v[2]
<1>1. a \in Int /\ b \in Int /\ Values(ty) \subseteq Int /\ ty \notin Float
  BY ValuesAreIntegers DEF Type, Ordered, Int_, Unsigned, Signed, WideSigned, Float
<1>2. ASSUME ty \in Unsigned \cup WideSigned
      PROVE  Exact("DivFloor", ty, ty, v, ApplyDivFloor(ty, a, b))
  <2>1. ASSUME NEW q \in Int
        PROVE  Means("DivFloor", ty, ty, v, q) <=> b # 0 /\ a - q * b \in 0 .. Abs(b) - 1
    <3>1. CASE b < 0 /\ a % (- b) # 0
      <4>1. Means("DivFloor", ty, ty, v, q) <=> IsFloor(q - 1, a, b)
        BY <3>1 DEF Means, Departs, GivenInstead
      <4> QED
        BY <3>1, <4>1, <1>1, AboveTheFloor
    <3>2. CASE ~ (b < 0 /\ a % (- b) # 0)
      <4>1. Means("DivFloor", ty, ty, v, q) <=> IsFloor(q, a, b)
        BY <3>2, <1>1 DEF Means, Departs, IsResult
      <4> QED
        BY <3>2, <4>1, <1>1, OnTheFloor
    <3> QED
      BY <3>1, <3>2
  <2>2. CASE b = 0
    <3>1. ApplyDivFloor(ty, a, b) = Err("DivisionByZero")
      BY <1>1, <1>2, <2>2 DEF ApplyDivFloor
    <3>2. ASSUME NEW q \in Values(ty) PROVE ~ Means("DivFloor", ty, ty, v, q)
      BY <1>1, <2>1, <2>2
    <3> QED
      BY <3>1, <3>2, ErrExact
  <2>3. CASE b # 0
    <3>1. ApplyDivFloor(ty, a, b) = Fit(ty, Euclid(a, b), "panic")
      BY <1>1, <1>2, <2>3 DEF ApplyDivFloor
    <3>2. ASSUME NEW q \in Values(ty) PROVE Means("DivFloor", ty, ty, v, q) <=> q = Euclid(a, b)
      <4>1. q \in Int /\ ((a - q * b \in 0 .. Abs(b) - 1) <=> q = Euclid(a, b))
        BY <1>1, <2>3, EuclidIs
      <4> QED
        BY <2>1, <2>3, <4>1
    <3> QED
      BY <3>1, <3>2, FitExact
  <2> QED
    BY <2>2, <2>3
<1>3. ASSUME ty \in Unsigned PROVE Exact("DivCeil", ty, ty, v, ApplyDivCeil(ty, a, b))
  <2>1. ASSUME NEW q PROVE Means("DivCeil", ty, ty, v, q) <=> IsCeil(q, a, b)
    BY <1>1 DEF Means, Departs, IsResult
  <2>2. CASE b = 0
    <3>1. ApplyDivCeil(ty, a, b) = Err("DivisionByZero")
      BY <1>1, <1>3, <2>2 DEF ApplyDivCeil
    <3>2. ASSUME NEW q \in Values(ty) PROVE ~ Means("DivCeil", ty, ty, v, q)
      BY <2>1, <2>2 DEF IsCeil
    <3> QED
      BY <3>1, <3>2, ErrExact
  <2>3. CASE b # 0
    <3>1. ApplyDivCeil(ty, a, b) = Ok(Ceil(a, b))
      BY <1>1, <1>3, <2>3 DEF ApplyDivCeil
    <3>2. Values(ty) = 0 .. Modulus[ty] - 1 /\ Modulus[ty] \in Nat /\ a \in Nat /\ b > 0
      BY <1>1, <1>3, <2>3, UnsignedBounds
    <3> HIDE DEF a, b
    <3>3. Ceil(a, b) \in 0 .. a
      BY <3>2, <1>1, CeilAtMost
    <3>4. Ceil(a, b) \in Values(ty)
      BY <3>2, <3>3 DEF a
    <3>5. ASSUME NEW q \in Values(ty) PROVE Means("DivCeil", ty, ty, v, q) <=> q = Ceil(a, b)
      BY <2>1, <3>2, <1>1, IsCeilIs
    <3> QED
      BY <3>1, <3>4, <3>5, OkExact
  <2> QED
    BY <2>2, <2>3
<1> QED
  BY <1>2, <1>3

LEMMA SaturatingSubExact ==
  ASSUME NEW ty \in Int_, NEW v, v[1] \in Values(ty), v[2] \in Values(ty)
  PROVE  Exact("SaturatingSub", ty, ty, v, SaturatingSub(ty, v[1], v[2]))
<1> DEFINE n == v[1] - v[2]
           m == IF n < Low(ty) THEN Low(ty) ELSE IF n > High(ty) THEN High(ty) ELSE n
<1>1. v[1] \in Int /\ v[2] \in Int /\ ty \notin Float
  BY ValuesAreIntegers DEF Type, Ordered, Int_, Unsigned, Signed, WideSigned, Float
<1>2. Low(ty) \in Int /\ High(ty) \in Int /\ Low(ty) <= High(ty) /\ Values(ty) = Low(ty) .. High(ty)
  BY Bounds
<1>3. ASSUME NEW q \in Values(ty)
      PROVE  Means("SaturatingSub", ty, ty, v, q) <=> q = m
  <2>1. Means("SaturatingSub", ty, ty, v, q) <=> Nearest(q, n, Low(ty) .. High(ty))
    BY <1>1, <1>2 DEF Means, Departs, IsResult
  <2>2. n \in Int /\ q \in Int
    BY <1>1, <1>2
  <2> HIDE DEF n
  <2>3. Nearest(q, n, Low(ty) .. High(ty)) <=> q = m
    BY <1>2, <2>2, NearestInInterval
  <2> QED
    BY <2>1, <2>3
<1>4. SaturatingSub(ty, v[1], v[2]) = Ok(m)
  BY DEF SaturatingSub
<1>5. m \in Values(ty)
  BY <1>1, <1>2
<1> HIDE DEF m
<1> QED
  BY <1>3, <1>4, <1>5, OkExact

\* A product of U64 or U128 values, divided; the divisor fits the type too.
LEMMA MulDivExact ==
  ASSUME NEW op \in Bps \cup MulDiv, NEW ty \in {"U64", "U128"}, NEW src, NEW v, NEW c,
         v[1] \in Values(ty), v[2] \in Values("U128"), c \in Nat,
         op \in Bps => ty = "U64" /\ c = BpsDenom /\ v[2] \in Values("U64"),
         op \in MulDiv => c = v[3]
  PROVE  Exact(op, ty, src, v, ApplyMulDiv(op, ty, v[1], v[2], c))
<1> DEFINE a == v[1]
           b == v[2]
           top == High("U128")
           floor == op \in {"MulDivFloor", "BpsMulFloor"}
           n == IF floor THEN (a * b) \div c ELSE Ceil(a * b, c)
<1>1. a \in Nat /\ b \in Nat /\ top \in Int /\ Values(ty) \subseteq Int
  <2>1. "U64" \in Unsigned /\ "U128" \in Unsigned /\ ty \in Unsigned
    BY DEF Unsigned
  <2>2. top = Modulus["U128"] - 1 /\ Modulus["U128"] \in Nat
    BY <2>1, UnsignedBounds
  <2>3. b \in 0 .. Modulus["U128"] - 1
    BY <2>1, UnsignedBounds
  <2>4. a \in 0 .. Modulus[ty] - 1 /\ Modulus[ty] \in Nat /\ Values(ty) = 0 .. Modulus[ty] - 1
    BY <2>1, UnsignedBounds
  <2> HIDE DEF a, b, top
  <2> QED
    BY <2>2, <2>3, <2>4
<1>2. a * b \in Nat
  BY <1>1
<1>3. op \in Bps => c # 0 /\ a * b <= top
  <2>1. ASSUME op \in Bps PROVE c # 0 /\ a * b <= top
    <3> DEFINE M == Modulus["U64"]
    <3>1. a \in 0 .. M - 1 /\ b \in 0 .. M - 1 /\ M \in Nat /\ top = M * M - 1
      BY <2>1, UnsignedBounds, OperatorsAssumption DEF Unsigned
    <3> HIDE DEF a, b, M, top
    <3>2. a * b <= (M - 1) * (M - 1)
      BY <3>1
    <3>3. (M - 1) * (M - 1) <= M * M - 1 \/ M = 0
      BY <3>1
    <3> QED
      BY <3>1, <3>2, <3>3, <2>1, OperatorsAssumption
  <2> QED
    BY <2>1
<1>4. ASSUME NEW q
      PROVE  Means(op, ty, src, v, q)
               <=> (IF floor THEN IsFloor(q, a * b, c) ELSE IsCeil(q, a * b, c)) /\ (op \in MulDiv => a * b <= top)
  <2>1. CASE op \in Bps
    BY <2>1 DEF Means, Departs, IsResult, Bps, MulDiv, Numeric, Arith
  <2>2. CASE op \in MulDiv
    BY <2>2 DEF Means, Departs, IsResult, Bps, MulDiv, Numeric, Arith
  <2> QED
    BY <2>1, <2>2
<1> HIDE DEF a, b, top
<1>5. CASE c = 0
  <2>1. ApplyMulDiv(op, ty, a, b, c) = Err("DivisionByZero")
    BY <1>5 DEF ApplyMulDiv
  <2>2. \A q : ~ Means(op, ty, src, v, q)
    BY <1>4, <1>5 DEF IsFloor, IsCeil
  <2> QED
    BY <2>1, <2>2, ErrExact DEF a, b
<1>6. CASE c # 0 /\ a * b > top
  <2>1. ApplyMulDiv(op, ty, a, b, c) = Err("IntegerOverflow")
    BY <1>6 DEF ApplyMulDiv, top
  <2>2. op \in MulDiv /\ ~ (a * b <= top)
    BY <1>1, <1>2, <1>3, <1>6
  <2>3. \A q : ~ Means(op, ty, src, v, q)
    BY <1>4, <2>2
  <2> QED
    BY <2>1, <2>3, ErrExact DEF a, b
<1>7. CASE c # 0 /\ ~ (a * b > top)
  <2>1. ApplyMulDiv(op, ty, a, b, c) = Fit(ty, n, "IntegerOverflow")
    BY <1>7 DEF ApplyMulDiv, top
  <2>2. a * b <= top /\ c > 0
    BY <1>1, <1>2, <1>7
  <2>3. ASSUME NEW q \in Values(ty) PROVE Means(op, ty, src, v, q) <=> q = n
    <3> DEFINE p == a * b
    <3>1. p \in Int /\ q \in Int
      BY <1>1, <1>2
    <3> HIDE DEF p
    <3>2. (IsFloor(q, p, c) <=> q = p \div c) /\ (IsCeil(q, p, c) <=> q = Ceil(p, c))
      BY <2>2, <3>1, IsFloorIs, IsCeilIs
    <3> QED
      BY <3>2, <1>4, <2>2 DEF p
  <2> HIDE DEF n
  <2> QED
    BY <2>1, <2>3, FitExact DEF a, b
<1> QED
  BY <1>5, <1>6, <1>7

LEMMA LogicExact ==
  ASSUME NEW v, v[1] \in 0 .. 1, v[2] \in 0 .. 1
  PROVE  /\ Exact("And", "Bool", "Bool", v, Truth(v[1] = 1 /\ v[2] = 1))
         /\ Exact("Or", "Bool", "Bool", v, Truth(v[1] = 1 \/ v[2] = 1))
<1>1. ASSUME NEW q \in 0 .. 1
      PROVE  Means("And", "Bool", "Bool", v, q) <=> q = IF v[1] = 1 /\ v[2] = 1 THEN 1 ELSE 0
  <2>1. Means("And", "Bool", "Bool", v, q) <=> q = v[1] * v[2]
    BY DEF Means, Departs, IsResult, Numeric, Arith
  <2>2. v[1] * v[2] = IF v[1] = 1 /\ v[2] = 1 THEN 1 ELSE 0
    OBVIOUS
  <2> QED
    BY <2>1, <2>2
<1>2. ASSUME NEW q \in 0 .. 1
      PROVE  Means("Or", "Bool", "Bool", v, q) <=> q = IF v[1] = 1 \/ v[2] = 1 THEN 1 ELSE 0
  <2>1. Means("Or", "Bool", "Bool", v, q) <=> ((q = 0) <=> (v[1] + v[2] = 0))
    BY DEF Means, Departs, IsResult, Numeric, Arith
  <2> QED
    BY <2>1
<1> QED
  BY <1>1, <1>2, TruthExact

\* Values that have an order, or keys and Booleans that are only told apart.
LEMMA CompareExact ==
  ASSUME NEW op \in Compare, NEW src \in Type, NEW v, v[1] \in Values(src), v[2] \in Values(src),
         src \in Float => v[1] # NaN /\ v[2] # NaN,
         op \in {"Eq", "Ne"} \/ src \in Ordered
  PROVE  Exact(op, "Bool", src, v, ApplyCompare(op, src, v[1], v[2]))
<1> DEFINE a == v[1]
           b == v[2]
<1>1. a \in Int /\ b \in Int
  BY ValuesAreIntegers
<1>2. ApplyCompare(op, src, a, b)
        = Truth(CASE op = "Eq" -> a = b [] op = "Ne" -> a # b
                  [] op = "Gt" -> a > b [] op = "Ge" -> a >= b
                  [] op = "Lt" -> a < b [] op = "Le" -> a <= b)
  BY DEF ApplyCompare, Ordered, Int_, Unsigned, Signed, WideSigned, Float
<1> HIDE DEF a, b
<1>3. CASE op = "Eq"
  <2>1. ApplyCompare(op, src, a, b) = Truth(a = b)
    BY <1>2, <1>3
  <2>2. ASSUME NEW q \in 0 .. 1 PROVE Means("Eq", "Bool", src, v, q) <=> q = IF a = b THEN 1 ELSE 0
    BY DEF Means, Departs, IsResult, Numeric, Arith, a, b
  <2> QED
    BY <1>3, <2>1, <2>2, TruthExact DEF a, b
<1>4. CASE op = "Ne"
  <2>1. ApplyCompare(op, src, a, b) = Truth(a # b)
    BY <1>2, <1>4
  <2>2. ASSUME NEW q \in 0 .. 1 PROVE Means("Ne", "Bool", src, v, q) <=> q = IF a # b THEN 1 ELSE 0
    BY DEF Means, Departs, IsResult, Numeric, Arith, a, b
  <2> QED
    BY <1>4, <2>1, <2>2, TruthExact DEF a, b
<1>5. CASE op = "Gt"
  <2> DEFINE p == a > b
  <2>1. ApplyCompare(op, src, a, b) = Truth(p)
    BY <1>2, <1>5
  <2>2. ASSUME NEW q \in 0 .. 1 PROVE Means("Gt", "Bool", src, v, q) <=> q = IF p THEN 1 ELSE 0
    <3>1. Means("Gt", "Bool", src, v, q) <=> ((q = 1) <=> (b < a))
      BY DEF Means, Departs, IsResult, Numeric, Arith, a, b
    <3> QED
      BY <3>1, <1>1
  <2>3. p \in BOOLEAN
    BY <1>1
  <2> HIDE DEF p
  <2> QED
    BY <1>5, <2>1, <2>2, <2>3, TruthExact DEF a, b
<1>6. CASE op = "Ge"
  <2> DEFINE p == a >= b
  <2>1. ApplyCompare(op, src, a, b) = Truth(p)
    BY <1>2, <1>6
  <2>2. ASSUME NEW q \in 0 .. 1 PROVE Means("Ge", "Bool", src, v, q) <=> q = IF p THEN 1 ELSE 0
    <3>1. Means("Ge", "Bool", src, v, q) <=> ((q = 0) <=> (a < b))
      BY DEF Means, Departs, IsResult, Numeric, Arith, a, b
    <3> QED
      BY <3>1, <1>1
  <2>3. p \in BOOLEAN
    BY <1>1
  <2> HIDE DEF p
  <2> QED
    BY <1>6, <2>1, <2>2, <2>3, TruthExact DEF a, b
<1>7. CASE op = "Lt"
  <2> DEFINE p == a < b
  <2>1. ApplyCompare(op, src, a, b) = Truth(p)
    BY <1>2, <1>7
  <2>2. ASSUME NEW q \in 0 .. 1 PROVE Means("Lt", "Bool", src, v, q) <=> q = IF p THEN 1 ELSE 0
    BY DEF Means, Departs, IsResult, Numeric, Arith, a, b
  <2>3. p \in BOOLEAN
    BY <1>1
  <2> HIDE DEF p
  <2> QED
    BY <1>7, <2>1, <2>2, <2>3, TruthExact DEF a, b
<1>8. CASE op = "Le"
  <2> DEFINE p == a <= b
  <2>1. ApplyCompare(op, src, a, b) = Truth(p)
    BY <1>2, <1>8
  <2>2. ASSUME NEW q \in 0 .. 1 PROVE Means("Le", "Bool", src, v, q) <=> q = IF p THEN 1 ELSE 0
    <3>1. Means("Le", "Bool", src, v, q) <=> ((q = 0) <=> (b < a))
      BY DEF Means, Departs, IsResult, Numeric, Arith, a, b
    <3> QED
      BY <3>1, <1>1
  <2>3. p \in BOOLEAN
    BY <1>1
  <2> HIDE DEF p
  <2> QED
    BY <1>8, <2>1, <2>2, <2>3, TruthExact DEF a, b
<1> QED
  BY <1>3, <1>4, <1>5, <1>6, <1>7, <1>8 DEF Compare

\* The lesser and the greater of two values that have an order.
LEMMA MinMaxExact ==
  ASSUME NEW ty \in Ordered, NEW v, v[1] \in Values(ty), v[2] \in Values(ty),
         ty \in Float => v[1] \in Finite /\ v[2] \in Finite
  PROVE  /\ Exact("Min", ty, ty, v, ApplyArith("Min", ty, v[1], v[2]))
         /\ Exact("Max", ty, ty, v, ApplyArith("Max", ty, v[1], v[2]))
         /\ ApplyArith("Min", ty, v[1], v[2]) = Ok(IF v[1] <= v[2] THEN v[1] ELSE v[2])
         /\ ApplyArith("Max", ty, v[1], v[2]) = Ok(IF v[1] >= v[2] THEN v[1] ELSE v[2])
<1> DEFINE a == v[1]
           b == v[2]
           lesser == IF a <= b THEN a ELSE b
           greater == IF a >= b THEN a ELSE b
<1>1. a \in Int /\ b \in Int /\ Values(ty) \subseteq Int
  BY ValuesAreIntegers DEF Type
<1>2. ApplyArith("Min", ty, a, b) = Ok(lesser) /\ ApplyArith("Max", ty, a, b) = Ok(greater)
  <2>1. CASE ty \in Float
    BY <2>1 DEF ApplyArith, FloatArith, FiniteOperands
  <2>2. CASE ty \notin Float
    BY <2>2 DEF ApplyArith, IntegerArith
  <2> QED
    BY <2>1, <2>2
<1>3. lesser \in Values(ty) /\ greater \in Values(ty)
  OBVIOUS
<1>4. ASSUME NEW q \in Values(ty)
      PROVE  /\ Means("Min", ty, ty, v, q) <=> q = lesser
             /\ Means("Max", ty, ty, v, q) <=> q = greater
  <2>1. /\ Means("Min", ty, ty, v, q) <=> q \in {a, b} /\ q <= a /\ q <= b
        /\ Means("Max", ty, ty, v, q) <=> q \in {a, b} /\ q >= a /\ q >= b
    BY DEF Means, Departs, IsResult
  <2> HIDE DEF a, b
  <2> QED
    BY <2>1, <1>1
<1> HIDE DEF lesser, greater
<1> QED
  BY <1>2, <1>3, <1>4, OkExact DEF lesser, greater

LEMMA ClampExact ==
  ASSUME NEW ty \in Ordered, NEW v,
         v[1] \in Values(ty), v[2] \in Values(ty), v[3] \in Values(ty),
         ty \in Float => v[1] \in Finite /\ v[2] \in Finite /\ v[3] \in Finite
  PROVE  Exact("Clamp", ty, ty, v, ApplyClamp(ty, v[1], v[2], v[3]))
<1> DEFINE a == v[1]
           lo == v[2]
           hi == v[3]
           maxed == IF a >= lo THEN a ELSE lo
           n == IF maxed <= hi THEN maxed ELSE hi
           w == <<maxed, hi>>
<1>1. a \in Int /\ lo \in Int /\ hi \in Int /\ Values(ty) \subseteq Int
  BY ValuesAreIntegers DEF Type
<1>2. ApplyArith("Max", ty, a, lo) = Ok(maxed)
  BY MinMaxExact
<1>3. ApplyArith("Min", ty, maxed, hi) = Ok(n)
  <2>1. w[1] = maxed /\ w[2] = hi
    OBVIOUS
  <2>2. w[1] \in Values(ty) /\ w[2] \in Values(ty) /\ (ty \in Float => w[1] \in Finite /\ w[2] \in Finite)
    BY <2>1
  <2> HIDE DEF w
  <2>3. ApplyArith("Min", ty, w[1], w[2]) = Ok(IF w[1] <= w[2] THEN w[1] ELSE w[2])
    BY <2>2, MinMaxExact
  <2> QED
    BY <2>1, <2>3
<1>4. ApplyClamp(ty, a, lo, hi) = Ok(n)
  <2> HIDE DEF maxed, n, a, lo, hi
  <2>1. Ok(maxed).err = "Ok" /\ Ok(maxed).v = maxed
    BY DEF Ok
  <2> QED
    BY <1>2, <1>3, <2>1 DEF ApplyClamp
<1>5. n \in Values(ty)
  OBVIOUS
<1>6. ASSUME NEW q \in Values(ty) PROVE Means("Clamp", ty, ty, v, q) <=> q = n
  <2>1. Means("Clamp", ty, ty, v, q) <=> Nearest(q, a, IF lo <= hi THEN lo .. hi ELSE {hi})
    BY DEF Means, Departs, IsResult, Numeric, Arith
  <2> HIDE DEF a, lo, hi
  <2>2. CASE lo <= hi
    <3>1. q \in Int
      BY <1>1
    <3>2. Nearest(q, a, lo .. hi) <=> q = IF a < lo THEN lo ELSE IF a > hi THEN hi ELSE a
      BY <1>1, <2>2, <3>1, NearestInInterval
    <3> QED
      BY <2>1, <2>2, <3>2, <1>1
  <2>3. CASE ~ (lo <= hi)
    <3>1. Nearest(q, a, {hi}) <=> q = hi
      BY <1>1 DEF Nearest, Abs
    <3> QED
      BY <2>1, <2>3, <3>1, <1>1
  <2> QED
    BY <2>2, <2>3
<1> HIDE DEF n
<1> QED
  BY <1>4, <1>5, <1>6, OkExact

-----------------------------------------------------------------------------
(* Floats.                                                                 *)

\* Some float is nearest to a quotient, so that rounding yields a float.
LEMMA RoundIsFloat ==
  ASSUME NEW n \in Int, NEW d \in Int, d > 0
  PROVE  Round(n, d) \in Floats
<1> DEFINE Dist(f) == Magnitude(n - f * d)
           T == {Dist(f) : f \in Grid}
           near == {f \in Grid : \A g \in Grid : Dist(f) <= Dist(g)}
           f == IF near \cap EvenSignificand # {}
                  THEN CHOOSE g \in near \cap EvenSignificand : TRUE ELSE CHOOSE g \in near : TRUE
<1>1. Grid \subseteq Int /\ 0 \in Grid
  BY DEF Grid, Finite, Positive
<1>2. T \subseteq Nat
  BY <1>1 DEF Magnitude
<1>3. T # {}
  BY <1>1
<1>4. PICK x \in T : \A y \in T : x <= y
  BY <1>2, <1>3, NatMin
<1>5. near # {}
  <2> HIDE DEF Dist
  <2>1. PICK g \in Grid : x = Dist(g)
    BY <1>4
  <2>2. \A h \in Grid : Dist(g) <= Dist(h)
    BY <1>4, <2>1
  <2> QED
    BY <2>1, <2>2
<1>6. f \in near
  <2> HIDE DEF near
  <2> QED
    BY <1>5
<1>7. f \in Grid
  BY <1>6
<1>8. Round(n, d) = IF f = 16 THEN Inf ELSE IF f = -16 THEN - Inf ELSE f
  BY DEF Round
<1> HIDE DEF f
<1> QED
  BY <1>7, <1>8 DEF Grid, Floats

LEMMA FloatArithExact ==
  ASSUME NEW ty \in Float, NEW v, v[1] \in Finite, v[2] \in Finite
  PROVE  /\ \A op \in {"Add", "Sub", "Mul", "Div"} : Exact(op, ty, ty, v, FloatArith(op, v[1], v[2]))
         /\ \A op \in {"DivFloor", "DivCeil"} : Exact(op, ty, ty, v, FloatDivRound(op, v[1], v[2]))
<1> DEFINE a == v[1]
           b == v[2]
           quotient == FloatQuotient(a, b)
<1>1. a \in Int /\ b \in Int /\ Values(ty) = Floats /\ Finite \subseteq Floats /\ a \in Finite /\ b \in Finite
  BY ValuesAreIntegers
<1>2. ASSUME NEW op, NEW q
      PROVE  op \in {"Add", "Sub", "Mul", "Div", "DivFloor", "DivCeil"} =>
               (Means(op, ty, ty, v, q) <=> IsFloatResult(op, a, b, q))
  <2>1. ty \notin Int_
    BY DEF Float, Int_, Unsigned, Signed, WideSigned
  <2> QED
    BY <2>1 DEF Means, Departs, IsResult, Numeric, Arith
<1>3. b # 0 => quotient \in Floats
  <2>1. CASE b > 0
    <3>1. Round(2 * a, b) \in Floats
      BY <1>1, <2>1, RoundIsFloat
    <3> QED
      BY <2>1, <3>1 DEF FloatQuotient
  <2>2. CASE b < 0
    <3>1. Round(- 2 * a, - b) \in Floats
      BY <1>1, <2>2, RoundIsFloat
    <3> QED
      BY <2>2, <3>1, <1>1 DEF FloatQuotient
  <2> QED
    BY <1>1, <2>1, <2>2
<1> HIDE DEF a, b
<1>4. Exact("Add", ty, ty, v, FloatArith("Add", a, b))
  <2>1. FloatArith("Add", a, b) = Ok(Round(a + b, 1))
    BY <1>1 DEF FloatArith, FiniteOperands, FloatSum
  <2>2. Round(a + b, 1) \in Values(ty)
    BY <1>1, RoundIsFloat
  <2>3. ASSUME NEW q PROVE Means("Add", ty, ty, v, q) <=> q = Round(a + b, 1)
    <3>1. IsFloatResult("Add", a, b, q) <=> q = Round(a + b, 1)
      BY DEF IsFloatResult
    <3> QED
      BY <3>1, <1>2
  <2> QED
    BY <2>1, <2>2, <2>3, OkExact
<1>5. Exact("Sub", ty, ty, v, FloatArith("Sub", a, b))
  <2>1. FloatArith("Sub", a, b) = Ok(Round(a - b, 1))
    BY <1>1 DEF FloatArith, FiniteOperands, FloatDifference
  <2>2. Round(a - b, 1) \in Values(ty)
    BY <1>1, RoundIsFloat
  <2>3. ASSUME NEW q PROVE Means("Sub", ty, ty, v, q) <=> q = Round(a - b, 1)
    <3>1. IsFloatResult("Sub", a, b, q) <=> q = Round(a - b, 1)
      BY DEF IsFloatResult
    <3> QED
      BY <3>1, <1>2
  <2> QED
    BY <2>1, <2>2, <2>3, OkExact
<1>6. Exact("Mul", ty, ty, v, FloatArith("Mul", a, b))
  <2>1. FloatArith("Mul", a, b) = Ok(Round(a * b, 2))
    BY <1>1 DEF FloatArith, FiniteOperands, FloatProduct
  <2>2. Round(a * b, 2) \in Values(ty)
    BY <1>1, RoundIsFloat
  <2>3. ASSUME NEW q PROVE Means("Mul", ty, ty, v, q) <=> q = Round(a * b, 2)
    <3>1. IsFloatResult("Mul", a, b, q) <=> q = Round(a * b, 2)
      BY DEF IsFloatResult
    <3> QED
      BY <3>1, <1>2
  <2> QED
    BY <2>1, <2>2, <2>3, OkExact
<1>7. Exact("Div", ty, ty, v, FloatArith("Div", a, b))
  <2>1. ASSUME NEW q PROVE Means("Div", ty, ty, v, q) <=> b # 0 /\ q = quotient
    <3>1. IsFloatResult("Div", a, b, q) <=> b # 0 /\ q = quotient
      BY DEF IsFloatResult, FloatQuotient
    <3> HIDE DEF quotient
    <3> QED
      BY <3>1, <1>2
  <2> HIDE DEF quotient
  <2>2. CASE b = 0
    <3>1. FloatArith("Div", a, b) = Err("DivisionByZero")
      BY <1>1, <2>2 DEF FloatArith, FiniteOperands
    <3> QED
      BY <2>1, <2>2, <3>1, ErrExact
  <2>3. CASE b # 0
    <3>1. FloatArith("Div", a, b) = Ok(quotient)
      BY <1>1, <2>3 DEF FloatArith, FiniteOperands, quotient
    <3> QED
      BY <2>1, <2>3, <3>1, <1>1, <1>3, OkExact
  <2> QED
    BY <2>2, <2>3
<1>8. ASSUME NEW f \in Finite
      PROVE  /\ FloatFloor(f) \in Floats /\ FloatCeil(f) \in Floats
             /\ \A q \in Int : (q % 2 = 0 /\ f - q \in {0, 1}) <=> q = FloatFloor(f)
             /\ \A q \in Int : (q % 2 = 0 /\ q - f \in {0, 1}) <=> q = FloatCeil(f)
  <2>1. FloatFloor(f) = 2 * (f \div 2) /\ FloatCeil(f) = - (2 * ((- f) \div 2)) /\ f \in Int
    BY ValuesAreIntegers DEF FloatFloor, FloatCeil
  <2>2. 2 * (f \div 2) \in Floats /\ - (2 * ((- f) \div 2)) \in Floats
    BY DEF Finite, Positive, Floats
  <2>3. ASSUME NEW q \in Int
        PROVE  /\ (q % 2 = 0 /\ f - q \in {0, 1}) <=> q = 2 * (f \div 2)
               /\ (q % 2 = 0 /\ q - f \in {0, 1}) <=> q = - (2 * ((- f) \div 2))
    BY <2>1
  <2> QED
    BY <2>1, <2>2, <2>3
<1>9. ASSUME NEW op \in {"DivFloor", "DivCeil"}
      PROVE  Exact(op, ty, ty, v, FloatDivRound(op, a, b))
  <2>1. ASSUME NEW q PROVE IsFloatResult(op, a, b, q) =>b # 0
    BY DEF IsFloatResult
  <2>2. CASE b = 0
    <3>1. FloatDivRound(op, a, b) = Err("DivisionByZero")
      BY <2>2 DEF FloatDivRound
    <3> QED
      BY <2>1, <2>2, <3>1, <1>2, ErrExact
  <2>3. CASE b # 0
    <3> DEFINE n == IF op = "DivFloor" THEN FloatFloor(quotient) ELSE FloatCeil(quotient)
    <3>1. FloatDivRound(op, a, b) = Ok(n)
      BY <2>3, <1>1 DEF FloatDivRound, FiniteOperands
    <3>2. ASSUME NEW q
          PROVE  IsFloatResult(op, a, b, q) <=>
                   IF quotient \in Finite
                     THEN q % 2 = 0 /\ (IF op = "DivFloor" THEN quotient - q ELSE q - quotient) \in {0, 1}
                     ELSE q = quotient
      BY <2>3 DEF IsFloatResult, FloatQuotient
    <3> HIDE DEF quotient
    <3>3. n \in Floats
      BY <1>3, <1>8, <2>3 DEF FloatFloor, FloatCeil
    <3>4. ASSUME NEW q \in Values(ty) PROVE Means(op, ty, ty, v, q) <=> q = n
      <4>1. q \in Int
        BY <1>1, ValuesAreIntegers
      <4>2. CASE quotient \in Finite
        BY <1>2, <3>2, <4>1, <4>2, <1>8
      <4>3. CASE quotient \notin Finite
        BY <1>2, <3>2, <4>3 DEF FloatFloor, FloatCeil
      <4> QED
        BY <4>2, <4>3
    <3> HIDE DEF n
    <3> QED
      BY <3>1, <3>3, <3>4, <1>1, OkExact
  <2> QED
    BY <2>2, <2>3
<1> QED
  BY <1>4, <1>5, <1>6, <1>7, <1>9 DEF a, b

LEMMA FloatNegExact ==
  ASSUME NEW ty \in Float, NEW v, v[1] \in Finite
  PROVE  Exact("Neg", ty, ty, v, ApplyNeg(ty, v[1]))
<1>1. v[1] \in Int /\ Values(ty) = Floats /\ Floats \subseteq Int
  BY ValuesAreIntegers
<1>2. - v[1] \in Floats
  BY DEF Floats, Finite, Positive
<1>3. ApplyNeg(ty, v[1]) = Ok(- v[1])
  BY DEF ApplyNeg, FiniteOperands
<1>4. ASSUME NEW q \in Values(ty) PROVE Means("Neg", ty, ty, v, q) <=> q = - v[1]
  <2>1. Means("Neg", ty, ty, v, q) <=> q + v[1] = 0
    BY DEF Means, Departs, IsResult, Numeric, Arith
  <2>2. q \in Int
    BY <1>1
  <2>3. (q + v[1] = 0) <=> (q = - v[1])
    BY <1>1, <2>2
  <2> QED
    BY <2>1, <2>3
<1> QED
  BY <1>1, <1>2, <1>3, <1>4, OkExact

-----------------------------------------------------------------------------
(* Operators on values of their types.                                     *)

\* Operator op takes n operands; a cast has an integer target.
Applies(n, op, target) ==
  \/ n = 1 /\ op \in UnaryOp
  \/ n = 1 /\ op = "As" /\ target \in Int_
  \/ n = 2 /\ op \in BinaryOp
  \/ n = 3 /\ op \in TernaryOp

\* No sort of types is another.
LEMMA TypesApart ==
  /\ Float \cap Int_ = {} /\ Unsigned \cap Signed = {}
  /\ "Bool" \notin Ordered /\ "Pubkey" \notin Ordered /\ "Bool" # "Pubkey"
  /\ "Bool" \in Type /\ "U64" \in Unsigned /\ "U128" \in Unsigned
  /\ "none" \notin Type /\ BpsOperand \cup {"U128"} = Unsigned
  /\ Type = Ordered \cup {"Bool", "Pubkey"} /\ Ordered = Int_ \cup Float /\ Int_ = Unsigned \cup Signed
  /\ WideSigned \subseteq Signed
BY DEF Type, Ordered, Int_, Unsigned, Signed, WideSigned, Float, BpsOperand

\* A float of an operator that needs finite ones, or ordered ones.
LEMMA Defined ==
  ASSUME NEW op, NEW n \in Nat, NEW v, NEW k \in 1 .. n, ~ Undefined(op, {v[j] : j \in 1 .. n})
  PROVE  /\ op \in Compare => v[k] # NaN
         /\ op \in Numeric \cup {"Neg", "Clamp"} => v[k] \in Finite
<1>1. v[k] \in {v[j] : j \in 1 .. n}
  OBVIOUS
<1>2. Compare \cap (Numeric \cup {"Neg", "Clamp"}) = {}
  BY DEF Compare, Numeric, Arith
<1> QED
  BY <1>1, <1>2 DEF Undefined

\* What ResultType is, operator by operator.
LEMMA ResultTypeIs ==
  ASSUME NEW target, NEW t
  PROVE  /\ ResultType("Not", target, t) = IF t[1] = "Bool" THEN "Bool" ELSE "none"
         /\ ResultType("Neg", target, t) = IF t[1] \in Negatable THEN t[1] ELSE "none"
         /\ ResultType("IsZero", target, t) = IF t[1] \in Ordered \cup {"Bool"} THEN "Bool" ELSE "none"
         /\ ResultType("NonZero", target, t) = IF t[1] \in Ordered \cup {"Bool"} THEN "Bool" ELSE "none"
         /\ ResultType("As", target, t) = IF t[1] \in Int_ THEN target ELSE "none"
         /\ ResultType("DivFloor", target, t) =
              IF t[1] = t[2] /\ t[1] \in Unsigned \cup WideSigned \cup Float THEN t[1] ELSE "none"
         /\ ResultType("DivCeil", target, t) = IF t[1] = t[2] /\ t[1] \in Unsigned \cup Float THEN t[1] ELSE "none"
         /\ ResultType("SaturatingSub", target, t) = IF t[1] = t[2] /\ t[1] \in Int_ THEN t[1] ELSE "none"
         /\ ResultType("Clamp", target, t) =
              IF t[1] = t[2] /\ t[2] = t[3] /\ t[1] \in Ordered THEN t[1] ELSE "none"
BY DEF ResultType, Arith, Compare, Logic, Bps, MulDiv

LEMMA ResultTypeSorts ==
  ASSUME NEW op, NEW target, NEW t
  PROVE  /\ op \in Arith => ResultType(op, target, t) = IF t[1] = t[2] /\ t[1] \in Ordered THEN t[1] ELSE "none"
         /\ op \in {"Eq", "Ne"} => ResultType(op, target, t) = IF t[1] = t[2] THEN "Bool" ELSE "none"
         /\ op \in Compare \ {"Eq", "Ne"} =>
              ResultType(op, target, t) = IF t[1] = t[2] /\ t[1] \in Ordered THEN "Bool" ELSE "none"
         /\ op \in Logic => ResultType(op, target, t) = IF t = <<"Bool", "Bool">> THEN "Bool" ELSE "none"
         /\ op \in Bps => ResultType(op, target, t) = IF t[1] = "U64" /\ t[2] \in BpsOperand THEN "U64" ELSE "none"
         /\ op \in MulDiv => ResultType(op, target, t) = IF t[1] = t[2] /\ t[1] \in {"U64", "U128"}
                                                            /\ (t[3] \in BpsOperand \/ t[3] = t[1]) THEN t[1] ELSE "none"
BY DEF ResultType, Arith, Compare, Logic, Bps, MulDiv

LEMMA UnaryApplyExact ==
  ASSUME NEW op \in UnaryOp \cup {"As"}, NEW target, op = "As" => target \in Int_,
         NEW t \in [1 .. 1 -> Type], NEW v, v[1] \in Values(t[1]),
         ResultType(op, target, t) # "none",
         ~ (t[1] \in Float /\ Undefined(op, {v[k] : k \in 1 .. 1}))
  PROVE  Exact(op, ResultType(op, target, t), t[1], v, Apply(op, target, t[1], v))
<1>1. t[1] \in Type
  OBVIOUS
<1>2. CASE op = "Not"
  <2>1. t[1] = "Bool" /\ ResultType(op, target, t) = "Bool"
    BY <1>2, ResultTypeIs
  <2> QED
    BY <1>2, <2>1, UnaryExact, ApplyOperator, ValuesAreIntegers
<1>3. CASE op = "Neg"
  <2>1. t[1] \in Negatable /\ ResultType(op, target, t) = t[1]
    BY <1>3, ResultTypeIs
  <2>2. CASE t[1] \in Signed
    <3>1. Exact("Neg", t[1], t[1], v, ApplyNeg(t[1], v[1]))
      BY <1>1, <2>2, UnaryExact, TypesApart
    <3> QED
      BY <1>3, <2>1, <3>1, ApplyOperator
  <2>3. CASE t[1] \in Float
    <3>1. ~ Undefined(op, {v[j] : j \in 1 .. 1})
      BY <2>3
    <3>2. 1 \in 1 .. 1 /\ 1 \in Nat
      OBVIOUS
    <3>3. v[1] \in Finite
      BY <1>3, <3>1, <3>2, Defined
    <3> QED
      BY <1>3, <2>1, <2>3, <3>3, FloatNegExact, ApplyOperator
  <2> QED
    BY <2>1, <2>2, <2>3 DEF Negatable
<1>4. CASE op = "IsZero"
  <2>1. t[1] \in Ordered \cup {"Bool"} /\ ResultType(op, target, t) = "Bool"
    BY <1>4, ResultTypeIs
  <2> QED
    BY <1>1, <1>4, <2>1, UnaryExact, ApplyOperator
<1>5. CASE op = "NonZero"
  <2>1. t[1] \in Ordered \cup {"Bool"} /\ ResultType(op, target, t) = "Bool"
    BY <1>5, ResultTypeIs
  <2> QED
    BY <1>1, <1>5, <2>1, UnaryExact, ApplyOperator
<1>6. CASE op = "As"
  <2>1. t[1] \in Int_ /\ ResultType(op, target, t) = target
    BY <1>6, ResultTypeIs
  <2> QED
    BY <1>6, <2>1, CastExact, ApplyOperator
<1> QED
  BY <1>2, <1>3, <1>4, <1>5, <1>6 DEF UnaryOp

LEMMA NumericApplyExact ==
  ASSUME NEW op \in Numeric, NEW target,
         NEW t \in [1 .. 2 -> Type], NEW v, v[1] \in Values(t[1]), v[2] \in Values(t[2]),
         ResultType(op, target, t) # "none",
         ~ (t[1] \in Float /\ Undefined(op, {v[k] : k \in 1 .. 2}))
  PROVE  Exact(op, ResultType(op, target, t), t[1], v, Apply(op, target, t[1], v))
<1> DEFINE ty == t[1]
<1>1. ty \in Type /\ ty = t[2] /\ ResultType(op, target, t) = ty /\ ty \in Ordered
      /\ (op = "DivFloor" => ty \in Unsigned \cup WideSigned \cup Float)
      /\ (op = "DivCeil" => ty \in Unsigned \cup Float)
      /\ (op = "SaturatingSub" => ty \in Int_)
  <2>1. ty \in Type
    OBVIOUS
  <2>2. CASE op = "DivFloor"
    BY <2>1, <2>2, TypesApart, ResultTypeIs
  <2>3. CASE op = "DivCeil"
    BY <2>1, <2>3, TypesApart, ResultTypeIs
  <2>4. CASE op = "SaturatingSub"
    BY <2>1, <2>4, TypesApart, ResultTypeIs
  <2>5. CASE op \in Arith
    <3>1. op \notin {"DivFloor", "DivCeil", "SaturatingSub"}
      BY <2>5 DEF Arith
    <3>2. ResultType(op, target, t) = IF t[1] = t[2] /\ t[1] \in Ordered THEN t[1] ELSE "none"
      BY <2>5, ResultTypeSorts
    <3> QED
      BY <2>1, <3>1, <3>2
  <2> QED
    BY <2>2, <2>3, <2>4, <2>5 DEF Numeric
<1>2. ty \in Float => v[1] \in Finite /\ v[2] \in Finite
  <2>1. ASSUME ty \in Float PROVE v[1] \in Finite /\ v[2] \in Finite
    <3>1. ~ Undefined(op, {v[k] : k \in 1 .. 2})
      BY <2>1
    <3>2. 1 \in 1 .. 2 /\ 2 \in 1 .. 2 /\ 2 \in Nat
      OBVIOUS
    <3> QED
      BY <3>1, <3>2, Defined
  <2> QED
    BY <2>1
<1> HIDE DEF ty
<1>3. v[1] \in Values(ty) /\ v[2] \in Values(ty)
  BY <1>1 DEF ty
<1> SUFFICES Exact(op, ty, ty, v, Apply(op, target, ty, v))
  BY <1>1 DEF ty
<1>4. CASE op \in {"Min", "Max"}
  <2>1. Apply(op, target, ty, v) = ApplyArith(op, ty, v[1], v[2])
    BY <1>4, ApplySorts DEF Arith
  <2> QED
    BY <1>1, <1>2, <1>3, <1>4, <2>1, MinMaxExact
<1>5. CASE op \in Arith \ {"Min", "Max"}
  <2>1. Apply(op, target, ty, v) = ApplyArith(op, ty, v[1], v[2])
    BY <1>5, ApplySorts
  <2>2. op \in {"Add", "Sub", "Mul", "Div"}
    BY <1>5 DEF Arith
  <2>3. CASE ty \in Float
    BY <1>1, <1>2, <2>1, <2>2, <2>3, FloatArithExact DEF ApplyArith
  <2>4. CASE ty \notin Float
    <3>1. ty \in Int_
      BY <1>1, <2>4, TypesApart
    <3>2. ApplyArith(op, ty, v[1], v[2]) = IntegerArith(op, ty, v[1], v[2])
      BY <1>1, <2>4 DEF ApplyArith
    <3>3. Exact(op, ty, ty, v, IntegerArith(op, ty, v[1], v[2]))
      BY <1>3, <2>2, <3>1, IntegerArithExact
    <3> QED
      BY <2>1, <3>2, <3>3
  <2> QED
    BY <2>3, <2>4
<1>6. CASE op = "DivFloor"
  <2>1. Apply(op, target, ty, v) = ApplyDivFloor(ty, v[1], v[2])
    BY <1>6, ApplyOperator
  <2>2. CASE ty \in Float
    BY <1>2, <1>6, <2>1, <2>2, FloatArithExact DEF ApplyDivFloor
  <2>3. CASE ty \notin Float
    <3>1. ty \in Int_ /\ ty \in Unsigned \cup WideSigned
      BY <1>1, <1>6, <2>3, TypesApart
    <3> QED
      BY <1>3, <1>6, <2>1, <3>1, DivRoundExact
  <2> QED
    BY <2>2, <2>3
<1>7. CASE op = "DivCeil"
  <2>1. Apply(op, target, ty, v) = ApplyDivCeil(ty, v[1], v[2])
    BY <1>7, ApplyOperator
  <2>2. CASE ty \in Float
    BY <1>2, <1>7, <2>1, <2>2, FloatArithExact DEF ApplyDivCeil
  <2>3. CASE ty \notin Float
    <3>1. ty \in Int_ /\ ty \in Unsigned
      BY <1>1, <1>7, <2>3, TypesApart
    <3> QED
      BY <1>3, <1>7, <2>1, <3>1, DivRoundExact
  <2> QED
    BY <2>2, <2>3
<1>8. CASE op = "SaturatingSub"
  BY <1>1, <1>3, <1>8, SaturatingSubExact, ApplyOperator
<1> QED
  BY <1>4, <1>5, <1>6, <1>7, <1>8 DEF Numeric

\* The divisor of op fits its type.
LEMMA Divisor ==
  BpsDenom \in Nat /\ Modulus["U64"] \in Nat /\ Modulus["U64"] >= 2
    /\ Modulus["U128"] = Modulus["U64"] * Modulus["U64"] /\ Modulus["U64"] <= Modulus["U128"]
<1>1. Modulus["U64"] \in Nat \ {0}
  BY UnsignedBounds, TypesApart
<1>2. BpsDenom \in 1 .. Modulus["U64"] - 1 /\ Modulus["U128"] = Modulus["U64"] * Modulus["U64"]
  BY OperatorsAssumption
<1> DEFINE M == Modulus["U64"]
<1>3. M * M >= M
  <2> HIDE DEF M
  <2>1. M \in Nat \ {0}
    BY <1>1 DEF M
  <2> QED
    BY <2>1
<1> QED
  BY <1>1, <1>2, <1>3

\* A value of an unsigned type that widens to a U64 is a value of U64.
LEMMA Widens ==
  ASSUME NEW ty \in BpsOperand
  PROVE  Values(ty) \subseteq Values("U64") /\ Values("U64") \subseteq Values("U128") /\ Modulus[ty] <= Modulus["U64"]
<1>1. ty \in Unsigned /\ Modulus[ty] <= Modulus["U64"]
  BY TypesApart, OperatorsAssumption
<1> QED
  BY <1>1, UnsignedBounds, TypesApart, Divisor

LEMMA BinaryApplyExact ==
  ASSUME NEW op \in BinaryOp, NEW target,
         NEW t \in [1 .. 2 -> Type], NEW v, v[1] \in Values(t[1]), v[2] \in Values(t[2]),
         ResultType(op, target, t) # "none",
         ~ (t[1] \in Float /\ Undefined(op, {v[k] : k \in 1 .. 2}))
  PROVE  Exact(op, ResultType(op, target, t), t[1], v, Apply(op, target, t[1], v))
<1>1. t[1] \in Type /\ t[2] \in Type
  OBVIOUS
<1>2. CASE op \in Numeric
  BY <1>2, NumericApplyExact
<1>3. CASE op \in Compare
  <2>1. t[1] = t[2] /\ ResultType(op, target, t) = "Bool" /\ (op \in {"Eq", "Ne"} \/ t[1] \in Ordered)
    <3>1. CASE op \in {"Eq", "Ne"}
      BY <3>1, ResultTypeSorts
    <3>2. CASE op \notin {"Eq", "Ne"}
      <4>1. ResultType(op, target, t) = IF t[1] = t[2] /\ t[1] \in Ordered THEN "Bool" ELSE "none"
        BY <1>3, <3>2, ResultTypeSorts
      <4> QED
        BY <4>1
    <3> QED
      BY <3>1, <3>2
  <2>2. t[1] \in Float => v[1] # NaN /\ v[2] # NaN
    <3>1. ASSUME t[1] \in Float PROVE v[1] # NaN /\ v[2] # NaN
      <4>1. ~ Undefined(op, {v[k] : k \in 1 .. 2})
        BY <3>1
      <4>2. 1 \in 1 .. 2 /\ 2 \in 1 .. 2 /\ 2 \in Nat
        OBVIOUS
      <4> QED
        BY <4>1, <4>2, <1>3, Defined
    <3> QED
      BY <3>1
  <2>3. Apply(op, target, t[1], v) = ApplyCompare(op, t[1], v[1], v[2])
    BY <1>3, ApplySorts
  <2>4. v[2] \in Values(t[1])
    BY <2>1
  <2> QED
    BY <1>1, <1>3, <2>1, <2>2, <2>3, <2>4, CompareExact
<1>4. CASE op \in Logic
  <2>1. t = <<"Bool", "Bool">> /\ ResultType(op, target, t) = "Bool"
    BY <1>4, ResultTypeSorts
  <2>2. t[1] = "Bool" /\ t[2] = "Bool"
    BY <2>1
  <2>3. v[1] \in 0 .. 1 /\ v[2] \in 0 .. 1
    BY <2>2, ValuesAreIntegers
  <2> QED
    BY <1>4, <2>1, <2>2, <2>3, LogicExact, ApplyOperator DEF Logic
<1>5. CASE op \in Bps
  <2>1. t[1] = "U64" /\ t[2] \in BpsOperand /\ ResultType(op, target, t) = "U64"
    BY <1>5, ResultTypeSorts
  <2>2. v[1] \in Values("U64") /\ v[2] \in Values("U64") /\ v[2] \in Values("U128")
    BY <2>1, Widens
  <2>3. Apply(op, target, t[1], v) = ApplyMulDiv(op, "U64", v[1], v[2], BpsDenom)
    BY <1>5, ApplySorts
  <2>4. op \notin MulDiv
    BY <1>5 DEF Bps, MulDiv
  <2>5. Exact(op, "U64", "U64", v, ApplyMulDiv(op, "U64", v[1], v[2], BpsDenom))
    BY <1>5, <2>2, <2>4, Divisor, MulDivExact
  <2> QED
    BY <2>1, <2>3, <2>5
<1> QED
  BY <1>2, <1>3, <1>4, <1>5 DEF BinaryOp

LEMMA TernaryApplyExact ==
  ASSUME NEW op \in TernaryOp, op # "Select", NEW target,
         NEW t \in [1 .. 3 -> Type], NEW v, v[1] \in Values(t[1]), v[2] \in Values(t[2]), v[3] \in Values(t[3]),
         ResultType(op, target, t) # "none",
         ~ (t[1] \in Float /\ Undefined(op, {v[k] : k \in 1 .. 3}))
  PROVE  Exact(op, ResultType(op, target, t), t[1], v, Apply(op, target, t[1], v))
<1>1. t[1] \in Type /\ t[2] \in Type /\ t[3] \in Type
  OBVIOUS
<1>2. CASE op \in MulDiv
  <2>1. /\ t[1] = t[2] /\ t[1] \in {"U64", "U128"} /\ (t[3] \in BpsOperand \/ t[3] = t[1])
        /\ ResultType(op, target, t) = t[1]
    <3>1. ResultType(op, target, t) =
            IF t[1] = t[2] /\ t[1] \in {"U64", "U128"} /\ (t[3] \in BpsOperand \/ t[3] = t[1]) THEN t[1] ELSE "none"
      BY <1>2, ResultTypeSorts
    <3> QED
      BY <3>1
  <2>2. v[2] \in Values("U128")
    <3>1. "U64" \in BpsOperand
      BY DEF BpsOperand
    <3> QED
      BY <2>1, <3>1, Widens
  <2>3. v[3] \in Nat
    <3>1. t[3] \in Unsigned
      BY <2>1, TypesApart
    <3>2. v[3] \in 0 .. Modulus[t[3]] - 1
      BY <3>1, UnsignedBounds
    <3> QED
      BY <3>2
  <2>4. Apply(op, target, t[1], v) = ApplyMulDiv(op, t[1], v[1], v[2], v[3])
    BY <1>2, ApplySorts
  <2>5. op \notin Bps
    BY <1>2 DEF Bps, MulDiv
  <2>6. Exact(op, t[1], t[1], v, ApplyMulDiv(op, t[1], v[1], v[2], v[3]))
    BY <1>2, <2>1, <2>2, <2>3, <2>5, MulDivExact
  <2> QED
    BY <2>1, <2>4, <2>6
<1>3. CASE op = "Clamp"
  <2>1. t[1] = t[2] /\ t[2] = t[3] /\ t[1] \in Ordered /\ ResultType(op, target, t) = t[1]
    BY <1>3, ResultTypeIs
  <2>2. t[1] \in Float => v[1] \in Finite /\ v[2] \in Finite /\ v[3] \in Finite
    <3>1. ASSUME t[1] \in Float PROVE v[1] \in Finite /\ v[2] \in Finite /\ v[3] \in Finite
      <4>1. ~ Undefined(op, {v[k] : k \in 1 .. 3})
        BY <3>1
      <4>2. 1 \in 1 .. 3 /\ 2 \in 1 .. 3 /\ 3 \in 1 .. 3 /\ 3 \in Nat
        OBVIOUS
      <4> QED
        BY <4>1, <4>2, <1>3, Defined
    <3> QED
      BY <3>1
  <2>3. v[2] \in Values(t[1]) /\ v[3] \in Values(t[1])
    BY <2>1
  <2> QED
    BY <1>3, <2>1, <2>2, <2>3, ClampExact, ApplyOperator
<1> QED
  BY <1>2, <1>3 DEF TernaryOp

LEMMA ApplyExact ==
  ASSUME NEW n \in Nat, NEW op, NEW target, Applies(n, op, target), op # "Select",
         NEW t \in [1 .. n -> Type], NEW v, \A k \in 1 .. n : v[k] \in Values(t[k]),
         ResultType(op, target, t) # "none",
         ~ (t[1] \in Float /\ Undefined(op, {v[k] : k \in 1 .. n}))
  PROVE  Exact(op, ResultType(op, target, t), t[1], v, Apply(op, target, t[1], v))
<1>1. CASE n = 1
  <2>1. op \in UnaryOp \cup {"As"} /\ (op = "As" => target \in Int_)
    BY <1>1 DEF Applies, UnaryOp
  <2>2. v[1] \in Values(t[1])
    BY <1>1
  <2> QED
    BY <1>1, <2>1, <2>2, UnaryApplyExact
<1>2. CASE n = 2
  <2>1. op \in BinaryOp
    BY <1>2 DEF Applies
  <2>2. v[1] \in Values(t[1]) /\ v[2] \in Values(t[2])
    BY <1>2
  <2> QED
    BY <1>2, <2>1, <2>2, BinaryApplyExact
<1>3. CASE n = 3
  <2>1. op \in TernaryOp
    BY <1>3 DEF Applies
  <2>2. v[1] \in Values(t[1]) /\ v[2] \in Values(t[2]) /\ v[3] \in Values(t[3])
    BY <1>3
  <2> QED
    BY <1>3, <2>1, <2>2, TernaryApplyExact
<1> QED
  BY <1>1, <1>2, <1>3 DEF Applies

\* Floats without an order, or without a finite value, have no result.
LEMMA UndefinedFails ==
  ASSUME NEW n \in Nat, NEW op, NEW target, Applies(n, op, target), op # "Select",
         NEW t \in [1 .. n -> Type], NEW v,
         ResultType(op, target, t) # "none",
         t[1] \in Float, Undefined(op, {v[k] : k \in 1 .. n})
  PROVE  Apply(op, target, t[1], v).err # "Ok"
<1> DEFINE ty == t[1]
<1>1. ty \in Float /\ ty \in Ordered /\ ty \notin Int_ /\ ty \notin {"Bool", "Pubkey"}
  BY TypesApart
<1>2. \A e \in {"FloatUnordered", "DivisionByZero", "UnsupportedBinaryOp"} : Err(e).err # "Ok"
  BY DEF Err
<1>3. CASE op \in Compare
  <2>1. NaN \in {v[k] : k \in 1 .. n}
    BY <1>3 DEF Undefined
  <2>2. n = 2
    BY <1>3 DEF Applies, Compare, UnaryOp, TernaryOp, MulDiv
  <2>3. NaN \in {v[1], v[2]}
    BY <2>1, <2>2
  <2>4. ApplyCompare(op, ty, v[1], v[2]) = Err("FloatUnordered")
    BY <1>1, <2>3 DEF ApplyCompare
  <2> QED
    BY <1>2, <1>3, <2>4, ApplySorts
<1>4. ASSUME op \notin Compare
      PROVE  op \in Numeric \cup {"Neg", "Clamp"} /\ \E k \in 1 .. n : v[k] \notin Finite
  BY <1>4 DEF Undefined
<1>5. CASE op = "Neg"
  <2>1. n = 1
    BY <1>5 DEF Applies, BinaryOp, TernaryOp, Numeric, Arith, Compare, Logic, Bps, MulDiv
  <2>2. v[1] \notin Finite
    BY <1>4, <1>5, <2>1 DEF Compare
  <2>3. ApplyNeg(ty, v[1]) = Err("FloatUnordered")
    BY <1>1, <2>2 DEF ApplyNeg, FiniteOperands
  <2> QED
    BY <1>2, <1>5, <2>3, ApplyOperator
<1>6. ASSUME NEW a, NEW b, a \notin Finite \/ b \notin Finite
      PROVE  /\ \A o \in Arith : ApplyArith(o, ty, a, b) = Err("FloatUnordered")
             /\ \A o : FloatDivRound(o, a, b).err # "Ok"
  <2>1. ~ FiniteOperands({a, b})
    BY <1>6 DEF FiniteOperands
  <2> QED
    BY <1>1, <1>2, <2>1 DEF ApplyArith, FloatArith, FloatDivRound
<1>7. CASE op \in Numeric
  <2>1. n = 2
    BY <1>7 DEF Applies, UnaryOp, TernaryOp, Numeric, Arith, Compare, Logic, Bps, MulDiv
  <2>2. v[1] \notin Finite \/ v[2] \notin Finite
    <3>1. PICK k \in 1 .. n : v[k] \notin Finite
      BY <1>4, <1>7 DEF Compare, Numeric, Arith
    <3>2. k = 1 \/ k = 2
      BY <2>1
    <3> QED
      BY <3>1, <3>2
  <2>7. /\ \A o \in Arith : ApplyArith(o, ty, v[1], v[2]) = Err("FloatUnordered")
        /\ \A o : FloatDivRound(o, v[1], v[2]).err # "Ok"
    BY <1>6, <2>2
  <2> HIDE DEF ty
  <2>3. CASE op \in Arith
    BY <1>2, <2>7, <2>3, ApplySorts DEF ty
  <2>4. CASE op = "DivFloor"
    <3>1. ApplyDivFloor(ty, v[1], v[2]) = FloatDivRound("DivFloor", v[1], v[2])
      BY <1>1 DEF ApplyDivFloor
    <3> QED
      BY <2>7, <2>4, <3>1, ApplyOperator DEF ty
  <2>5. CASE op = "DivCeil"
    <3>1. ApplyDivCeil(ty, v[1], v[2]) = FloatDivRound("DivCeil", v[1], v[2])
      BY <1>1 DEF ApplyDivCeil
    <3> QED
      BY <2>7, <2>5, <3>1, ApplyOperator DEF ty
  <2>6. CASE op = "SaturatingSub"
    <3>1. SaturatingSub(ty, v[1], v[2]) = Err("UnsupportedBinaryOp")
      BY <1>1 DEF SaturatingSub
    <3> QED
      BY <1>2, <2>6, <3>1, ApplyOperator DEF ty
  <2> QED
    BY <1>7, <2>3, <2>4, <2>5, <2>6 DEF Numeric
<1>8. CASE op = "Clamp"
  <2>1. n = 3
    BY <1>8 DEF Applies, UnaryOp, BinaryOp, Numeric, Arith, Compare, Logic, Bps
  <2>2. v[1] \notin Finite \/ v[2] \notin Finite \/ v[3] \notin Finite
    <3>1. PICK k \in 1 .. n : v[k] \notin Finite
      BY <1>4, <1>8 DEF Compare
    <3>2. k = 1 \/ k = 2 \/ k = 3
      BY <2>1
    <3> QED
      BY <3>1, <3>2
  <2> DEFINE maxed == ApplyArith("Max", ty, v[1], v[2])
             clamped == ApplyArith("Min", ty, maxed.v, v[3])
  <2>3. ApplyClamp(ty, v[1], v[2], v[3]) = IF maxed.err # "Ok" THEN maxed ELSE clamped
    BY DEF ApplyClamp
  <2>4. v[1] \notin Finite \/ v[2] \notin Finite => maxed.err # "Ok"
    BY <1>2, <1>6 DEF Arith
  <2>5. v[3] \notin Finite => clamped.err # "Ok"
    BY <1>2, <1>6 DEF Arith
  <2> HIDE DEF maxed, clamped, ty
  <2> QED
    BY <1>8, <2>2, <2>3, <2>4, <2>5, ApplyOperator DEF ty
<1> QED
  BY <1>3, <1>4, <1>5, <1>7, <1>8

-----------------------------------------------------------------------------
(* Inference and evaluation agree about types.                             *)

LEMMA ResultTyped ==
  ASSUME NEW n \in Nat, NEW op, NEW target, Applies(n, op, target), op # "Select", NEW t \in [1 .. n -> Type]
  PROVE  ResultType(op, target, t) \in Type \cup {"none"}
<1>1. n \in 1 .. 3 /\ t[1] \in Type
  BY DEF Applies
<1>2. CASE op \in UnaryOp \cup {"As"}
  <2>1. op = "As" => target \in Int_
    BY DEF Applies, UnaryOp, BinaryOp, TernaryOp, Numeric, Arith, Compare, Logic, Bps, MulDiv
  <2> QED
    BY <1>1, <1>2, <2>1, ResultTypeIs, TypesApart DEF UnaryOp
<1>3. CASE op \in {"DivFloor", "DivCeil", "SaturatingSub"}
  BY <1>1, <1>3, ResultTypeIs
<1>4. CASE op \in Arith
  BY <1>1, <1>4, ResultTypeSorts
<1>5. CASE op \in Compare \cup Logic
  BY <1>5, ResultTypeSorts, TypesApart
<1>6. CASE op \in Bps \cup MulDiv
  BY <1>1, <1>6, ResultTypeSorts, TypesApart
<1>7. CASE op = "Clamp"
  BY <1>1, <1>7, ResultTypeIs
<1> QED
  BY <1>2, <1>3, <1>4, <1>5, <1>6, <1>7 DEF Applies, BinaryOp, TernaryOp, Numeric

LEMMA InferredIs ==
  ASSUME NEW op, NEW target, NEW t
  PROVE  /\ op = "As" => Inferred(op, target, t) = target
         /\ op \in BoolOp => Inferred(op, target, t) = "Bool"
         /\ op \in Bps => Inferred(op, target, t) = "U64"
         /\ op = "Neg" => Inferred(op, target, t) = IF t[1] \in Negatable THEN t[1] ELSE "none"
         /\ op \in Numeric => Inferred(op, target, t) = IF t[1] # "Bool" THEN t[1] ELSE "none"
         /\ op \in MulDiv \cup {"Clamp"} => Inferred(op, target, t) = t[1]
         /\ op = "Select" => Inferred(op, target, t) = IF t[2] = t[3] THEN t[2] ELSE "none"
BY DEF Inferred, BoolOp, Compare, Logic, Bps, Numeric, Arith, MulDiv

\* What is checked before an operator's operands are evaluated.
LEMMA OperandTypesIs ==
  ASSUME NEW dst, NEW op, NEW target, NEW t
  PROVE  LET r == OperandTypes(dst, op, target, t)
             ok(tys) == r = [err |-> "Ok", tys |-> tys]
             fails == r.err # "Ok"
             known(S) == \A k \in S : t[k] # "none"
         IN /\ op \in BoolOp /\ dst # "Bool" => fails
            /\ op \notin {"Not", "Neg"} \cup Logic \cup Bps /\ ~ known(DOMAIN t) => fails
            /\ op \in {"Not"} \cup Logic => fails \/ ok([k \in DOMAIN t |-> "Bool"])
            /\ op = "Neg" => IF dst \in Negatable THEN ok(<<dst>>) ELSE fails
            /\ op \in {"IsZero", "NonZero"} => fails \/ ok(t)
            /\ op = "As" => IF known(DOMAIN t) /\ dst = target THEN ok(t) ELSE fails
            /\ op \in Compare => IF dst = "Bool" /\ known(DOMAIN t) /\ t[1] = t[2] THEN ok(t) ELSE fails
            /\ op \in Numeric =>
                 IF known(DOMAIN t) /\ t[1] = t[2] /\ dst = t[1] /\ dst # "Bool" THEN ok(t) ELSE fails
            /\ op \in Bps =>
                 IF t[2] # "none" /\ dst = "U64" /\ Narrower(t[2], "U64") THEN ok(<<"U64", t[2]>>) ELSE fails
            /\ op \in MulDiv =>
                 IF known(DOMAIN t) /\ t[1] = t[2] /\ t[1] \in {"U64", "U128"} /\ dst = t[1] /\ Narrower(t[3], t[1])
                   THEN ok(t) ELSE fails
            /\ op = "Clamp" =>
                 IF known(DOMAIN t) /\ t[1] = t[2] /\ t[2] = t[3] /\ t[1] # "Bool" /\ dst = t[1] THEN ok(t) ELSE fails
            /\ op = "Select" =>
                 IF known(DOMAIN t) /\ t[1] = "Bool" /\ dst = t[2] /\ t[2] = t[3] THEN ok(t) ELSE fails
            /\ op \in {"Not"} \cup Logic /\ dst = "Bool" => ok([k \in DOMAIN t |-> "Bool"])
            /\ op \in {"IsZero", "NonZero"} /\ dst = "Bool" /\ known(DOMAIN t) => ok(t)
<1> DEFINE r == OperandTypes(dst, op, target, t)
           ok(tys) == r = [err |-> "Ok", tys |-> tys]
           fails == r.err # "Ok"
           known(S) == \A k \in S : t[k] # "none"
<1>1. op \in BoolOp /\ dst # "Bool" => fails
  BY DEF OperandTypes, IsTarget, BoolOp, Compare, Logic, Bps, Numeric, Arith, MulDiv
<1>2. op \notin {"Not", "Neg"} \cup Logic \cup Bps /\ ~ known(DOMAIN t) => fails
  BY DEF OperandTypes, IsTarget, BoolOp, Compare, Logic, Bps, Numeric, Arith, MulDiv
<1>3. op \in {"Not"} \cup Logic => fails \/ ok([k \in DOMAIN t |-> "Bool"])
  BY DEF OperandTypes, IsTarget, BoolOp, Compare, Logic, Bps, Numeric, Arith, MulDiv
<1>4. op = "Neg" => IF dst \in Negatable THEN ok(<<dst>>) ELSE fails
  BY DEF OperandTypes, IsTarget, BoolOp, Compare, Logic, Bps, Numeric, Arith, MulDiv
<1>5. op \in {"IsZero", "NonZero"} => fails \/ ok(t)
  BY DEF OperandTypes, IsTarget, BoolOp, Compare, Logic, Bps, Numeric, Arith, MulDiv
<1>6. op = "As" => IF known(DOMAIN t) /\ dst = target THEN ok(t) ELSE fails
  BY DEF OperandTypes, IsTarget, BoolOp, Compare, Logic, Bps, Numeric, Arith, MulDiv
<1>7. op \in Compare => IF dst = "Bool" /\ known(DOMAIN t) /\ t[1] = t[2] THEN ok(t) ELSE fails
  BY DEF OperandTypes, IsTarget, BoolOp, Compare, Logic, Bps, Numeric, Arith, MulDiv
<1>8. op \in Numeric =>
       IF known(DOMAIN t) /\ t[1] = t[2] /\ dst = t[1] /\ dst # "Bool" THEN ok(t) ELSE fails
  BY DEF OperandTypes, IsTarget, BoolOp, Compare, Logic, Bps, Numeric, Arith, MulDiv
<1>9. op \in Bps =>
       IF t[2] # "none" /\ dst = "U64" /\ Narrower(t[2], "U64") THEN ok(<<"U64", t[2]>>) ELSE fails
  BY DEF OperandTypes, IsTarget, BoolOp, Compare, Logic, Bps, Numeric, Arith, MulDiv
<1>10. op \in MulDiv =>
       IF known(DOMAIN t) /\ t[1] = t[2] /\ t[1] \in {"U64", "U128"} /\ dst = t[1] /\ Narrower(t[3], t[1])
         THEN ok(t) ELSE fails
  BY DEF OperandTypes, IsTarget, BoolOp, Compare, Logic, Bps, Numeric, Arith, MulDiv
<1>11. op = "Clamp" =>
       IF known(DOMAIN t) /\ t[1] = t[2] /\ t[2] = t[3] /\ t[1] # "Bool" /\ dst = t[1] THEN ok(t) ELSE fails
  BY DEF OperandTypes, IsTarget, BoolOp, Compare, Logic, Bps, Numeric, Arith, MulDiv
<1>12. op = "Select" =>
       IF known(DOMAIN t) /\ t[1] = "Bool" /\ dst = t[2] /\ t[2] = t[3] THEN ok(t) ELSE fails
  BY DEF OperandTypes, IsTarget, BoolOp, Compare, Logic, Bps, Numeric, Arith, MulDiv
<1>13. op \in {"Not"} \cup Logic /\ dst = "Bool" => ok([k \in DOMAIN t |-> "Bool"])
  BY DEF OperandTypes, IsTarget, BoolOp, Compare, Logic, Bps, Numeric, Arith, MulDiv
<1>14. op \in {"IsZero", "NonZero"} /\ dst = "Bool" /\ known(DOMAIN t) => ok(t)
  BY DEF OperandTypes, IsTarget, BoolOp, Compare, Logic, Bps, Numeric, Arith, MulDiv
<1> QED
  BY <1>1, <1>2, <1>3, <1>4, <1>5, <1>6, <1>7, <1>8, <1>9, <1>10, <1>11, <1>12, <1>13, <1>14

\* An operator whose operands fit together is evaluated at its type.
LEMMA TypingComplete ==
  ASSUME NEW n \in Nat, NEW op, NEW target, Applies(n, op, target), op # "Select",
         NEW t \in [1 .. n -> Type], ResultType(op, target, t) # "none"
  PROVE  /\ OperandTypes(ResultType(op, target, t), op, target, t) = [err |-> "Ok", tys |-> t]
         /\ Inferred(op, target, t) = ResultType(op, target, t)
<1> DEFINE ty == ResultType(op, target, t)
<1>1. DOMAIN t = 1 .. n /\ n \in 1 .. 3 /\ t[1] \in Type /\ \A k \in DOMAIN t : t[k] # "none"
  BY TypesApart DEF Applies
<1>2. n = 1 <=> op \in UnaryOp \cup {"As"}
  BY DEF Applies, UnaryOp, BinaryOp, TernaryOp, Numeric, Arith, Compare, Logic, Bps, MulDiv
<1>3. n = 2 <=> op \in BinaryOp
  BY DEF Applies, UnaryOp, BinaryOp, TernaryOp, Numeric, Arith, Compare, Logic, Bps, MulDiv
<1>4. CASE op = "Not"
  <2>1. ty = "Bool" /\ t[1] = "Bool" /\ n = 1
    BY <1>2, <1>4, ResultTypeIs DEF UnaryOp
  <2>2. t = [k \in DOMAIN t |-> "Bool"]
    BY <1>1, <2>1
  <2> QED
    BY <1>4, <2>1, <2>2, OperandTypesIs, InferredIs DEF BoolOp
<1>5. CASE op = "Neg"
  <2>1. ty = t[1] /\ ty \in Negatable /\ n = 1
    BY <1>2, <1>5, ResultTypeIs DEF UnaryOp
  <2>2. t = <<ty>>
    BY <1>1, <2>1
  <2> QED
    BY <1>5, <2>1, <2>2, OperandTypesIs, InferredIs
<1>6. CASE op \in {"IsZero", "NonZero"}
  <2>1. ty = "Bool"
    BY <1>6, ResultTypeIs
  <2> QED
    BY <1>1, <1>6, <2>1, OperandTypesIs, InferredIs DEF BoolOp
<1>7. CASE op = "As"
  <2>1. ty = target
    BY <1>7, ResultTypeIs
  <2> QED
    BY <1>1, <1>7, <2>1, OperandTypesIs, InferredIs
<1>8. CASE op \in Compare
  <2>1. ty = "Bool" /\ t[1] = t[2]
    BY <1>8, ResultTypeSorts
  <2> QED
    BY <1>1, <1>8, <2>1, OperandTypesIs, InferredIs DEF BoolOp
<1>9. CASE op \in Logic
  <2>1. ty = "Bool" /\ t = <<"Bool", "Bool">>
    BY <1>9, ResultTypeSorts
  <2>2. t = [k \in DOMAIN t |-> "Bool"]
    BY <2>1
  <2> QED
    BY <1>9, <2>1, <2>2, OperandTypesIs, InferredIs DEF BoolOp
<1>10. CASE op \in Numeric
  <2>1. ty = t[1] /\ t[1] = t[2] /\ ty # "Bool"
    <3>1. CASE op \in Arith
      BY <1>1, <3>1, ResultTypeSorts, TypesApart
    <3>2. CASE op \in {"DivFloor", "DivCeil", "SaturatingSub"}
      BY <1>1, <3>2, ResultTypeIs, TypesApart
    <3> QED
      BY <1>10, <3>1, <3>2 DEF Numeric
  <2> QED
    BY <1>1, <1>10, <2>1, OperandTypesIs, InferredIs
<1>11. CASE op \in Bps
  <2>1. ty = "U64" /\ t[1] = "U64" /\ t[2] \in BpsOperand
    BY <1>11, ResultTypeSorts
  <2>2. n = 2
    BY <1>3, <1>11 DEF BinaryOp
  <2>3. t = <<"U64", t[2]>>
    BY <1>1, <2>1, <2>2
  <2>4. Narrower(t[2], "U64")
    BY <2>1, Widens, TypesApart DEF Narrower
  <2>5. t[2] # "none"
    BY <1>1, <2>2
  <2> QED
    BY <1>11, <2>1, <2>3, <2>4, <2>5, OperandTypesIs, InferredIs
<1>12. CASE op \in MulDiv
  <2>1. /\ ty = t[1] /\ t[1] = t[2] /\ t[1] \in {"U64", "U128"}
        /\ t[3] \in BpsOperand \/ t[3] = t[1]
    <3>1. ty = IF t[1] = t[2] /\ t[1] \in {"U64", "U128"}
                  /\ (t[3] \in BpsOperand \/ t[3] = t[1]) THEN t[1] ELSE "none"
      BY <1>12, ResultTypeSorts
    <3> HIDE DEF ty
    <3> QED
      BY <3>1 DEF ty
  <2>2. Narrower(t[3], t[1])
    <3>1. Modulus[t[1]] \in Nat /\ Modulus["U64"] <= Modulus[t[1]] /\ Modulus["U64"] \in Nat
      BY <2>1, Divisor, UnsignedBounds, TypesApart
    <3>2. CASE t[3] = t[1]
      BY <2>1, <3>1, <3>2, TypesApart DEF Narrower
    <3>3. CASE t[3] \in BpsOperand
      <4>1. t[3] \in Unsigned /\ Modulus[t[3]] <= Modulus["U64"]
        BY <3>3, Widens, TypesApart
      <4>2. Modulus[t[3]] \in Nat
        BY <4>1, UnsignedBounds
      <4> QED
        BY <2>1, <3>1, <4>1, <4>2, TypesApart DEF Narrower
    <3> QED
      BY <2>1, <3>2, <3>3
  <2> QED
    BY <1>1, <1>12, <2>1, <2>2, OperandTypesIs, InferredIs
<1>13. CASE op = "Clamp"
  <2>1. ty = t[1] /\ t[1] = t[2] /\ t[2] = t[3] /\ ty # "Bool"
    BY <1>13, ResultTypeIs, TypesApart
  <2> QED
    BY <1>1, <1>13, <2>1, OperandTypesIs, InferredIs
<1> QED
  BY <1>4, <1>5, <1>6, <1>7, <1>8, <1>9, <1>10, <1>11, <1>12, <1>13
  DEF Applies, UnaryOp, BinaryOp, TernaryOp

\* An operator whose operands are evaluated at the types that they have yields
\* its result type, or fails.
LEMMA TypingSound ==
  ASSUME NEW n \in Nat, NEW op, NEW target, Applies(n, op, target), op # "Select", NEW dst \in Type,
         NEW t \in [1 .. n -> Type], OperandTypes(dst, op, target, t) = [err |-> "Ok", tys |-> t],
         NEW v, Apply(op, target, t[1], v).err = "Ok"
  PROVE  ResultType(op, target, t) = dst
<1> DEFINE r == OperandTypes(dst, op, target, t)
<1>1. r.err = "Ok" /\ r.tys = t
  OBVIOUS
<1>2. \A e \in {"UnsupportedBinaryOp", "InvalidExprOperand"} : Err(e).err # "Ok"
  BY DEF Err
<1>3. t[1] \in Type /\ DOMAIN t = 1 .. n /\ n \in 1 .. 3
  BY DEF Applies
<1>4. op \in BoolOp => dst = "Bool"
  BY <1>1, OperandTypesIs
<1>5. CASE op = "Not"
  <2>1. t[1] = "Bool"
    BY <1>3, <1>5, OperandTypesIs
  <2> QED
    BY <1>4, <1>5, <2>1, ResultTypeIs DEF BoolOp
<1>6. CASE op = "Neg"
  <2>1. dst \in Negatable /\ t = <<dst>>
    BY <1>1, <1>6, OperandTypesIs
  <2> QED
    BY <1>6, <2>1, ResultTypeIs
<1>7. CASE op \in {"IsZero", "NonZero"}
  <2>1. t[1] # "Pubkey"
    BY <1>2, <1>7, ApplyOperator DEF ApplyIsZero, ApplyNonZero
  <2> QED
    BY <1>3, <1>4, <1>7, <2>1, ResultTypeIs, TypesApart DEF BoolOp
<1>8. CASE op = "As"
  <2>1. t[1] \in Int_
    BY <1>2, <1>8, ApplyOperator DEF ApplyCast
  <2>2. dst = target
    BY <1>1, <1>8, OperandTypesIs
  <2> QED
    BY <1>8, <2>1, <2>2, ResultTypeIs
<1>9. CASE op \in Compare
  <2>1. t[1] = t[2] /\ dst = "Bool"
    BY <1>1, <1>9, OperandTypesIs
  <2>2. op \in {"Eq", "Ne"} \/ t[1] \in Ordered
    <3>1. Apply(op, target, t[1], v) = ApplyCompare(op, t[1], v[1], v[2])
      BY <1>9, ApplySorts
    <3> QED
      BY <1>2, <1>3, <3>1, TypesApart DEF ApplyCompare
  <2> QED
    BY <1>9, <2>1, <2>2, ResultTypeSorts
<1>10. CASE op \in Logic
  <2>1. t = [k \in DOMAIN t |-> "Bool"] /\ dst = "Bool"
    BY <1>1, <1>4, <1>10, OperandTypesIs DEF BoolOp
  <2>2. n = 2
    BY <1>10 DEF Applies, UnaryOp, TernaryOp, MulDiv, Logic
  <2>3. t = <<"Bool", "Bool">>
    BY <1>3, <2>1, <2>2
  <2> QED
    BY <1>10, <2>1, <2>3, ResultTypeSorts
<1>11. CASE op \in Arith
  <2>1. t[1] = t[2] /\ dst = t[1]
    BY <1>1, <1>11, OperandTypesIs DEF Numeric
  <2>2. t[1] \in Ordered
    <3>1. Apply(op, target, t[1], v) = ApplyArith(op, t[1], v[1], v[2])
      BY <1>11, ApplySorts
    <3> QED
      BY <1>2, <3>1 DEF ApplyArith
  <2> QED
    BY <1>11, <2>1, <2>2, ResultTypeSorts
<1>12. CASE op \in {"DivFloor", "DivCeil", "SaturatingSub"}
  <2>1. t[1] = t[2] /\ dst = t[1]
    BY <1>1, <1>12, OperandTypesIs DEF Numeric
  <2>2. op = "DivFloor" => t[1] \in Unsigned \cup WideSigned \cup Float
    BY <1>2, ApplyOperator DEF ApplyDivFloor
  <2>3. op = "DivCeil" => t[1] \in Unsigned \cup Float
    BY <1>2, ApplyOperator DEF ApplyDivCeil
  <2>4. op = "SaturatingSub" => t[1] \in Int_
    BY <1>2, ApplyOperator DEF SaturatingSub
  <2> QED
    BY <1>12, <2>1, <2>2, <2>3, <2>4, ResultTypeIs
<1>13. CASE op \in Bps
  <2>1. dst = "U64" /\ Narrower(t[2], "U64") /\ t = <<"U64", t[2]>>
    BY <1>1, <1>13, OperandTypesIs
  <2>2. t[2] \in BpsOperand
    <3> DEFINE M == Modulus["U64"]
    <3>1. M \in Nat /\ M >= 2 /\ Modulus["U128"] = M * M
      BY Divisor
    <3>2. ~ (M * M <= M)
      <4> HIDE DEF M
      <4> QED
        BY <3>1
    <3>3. t[2] # "U128" /\ t[2] \in Unsigned
      BY <2>1, <3>1, <3>2 DEF Narrower
    <3> QED
      BY <3>3, TypesApart
  <2> QED
    BY <1>13, <2>1, <2>2, ResultTypeSorts
<1>14. CASE op \in MulDiv
  <2>1. t[1] = t[2] /\ t[1] \in {"U64", "U128"} /\ dst = t[1] /\ Narrower(t[3], t[1])
    BY <1>1, <1>14, OperandTypesIs
  <2>2. t[3] \in BpsOperand \/ t[3] = t[1]
    <3> DEFINE M == Modulus["U64"]
    <3>1. M \in Nat /\ M >= 2 /\ Modulus["U128"] = M * M
      BY Divisor
    <3>2. ~ (M * M <= M)
      <4> HIDE DEF M
      <4> QED
        BY <3>1
    <3>3. t[3] \in Unsigned /\ Modulus[t[3]] <= Modulus[t[1]]
      BY <2>1 DEF Narrower
    <3> QED
      BY <2>1, <3>1, <3>2, <3>3, TypesApart
  <2>3. ResultType(op, target, t) = IF t[1] = t[2] /\ t[1] \in {"U64", "U128"}
                                       /\ (t[3] \in BpsOperand \/ t[3] = t[1]) THEN t[1] ELSE "none"
    BY <1>14, ResultTypeSorts
  <2> QED
    BY <2>1, <2>2, <2>3
<1>15. CASE op = "Clamp"
  <2>1. t[1] = t[2] /\ t[2] = t[3] /\ dst = t[1]
    BY <1>1, <1>15, OperandTypesIs
  <2>2. t[1] \in Ordered
    <3>1. ApplyClamp(t[1], v[1], v[2], v[3]).err = "Ok"
      BY <1>15, ApplyOperator
    <3>2. ASSUME t[1] \notin Ordered PROVE ApplyClamp(t[1], v[1], v[2], v[3]) = Err("UnsupportedBinaryOp")
      <4>1. ApplyArith("Max", t[1], v[1], v[2]) = Err("UnsupportedBinaryOp")
        BY <3>2 DEF ApplyArith
      <4> QED
        BY <1>2, <4>1 DEF ApplyClamp
    <3> QED
      BY <1>2, <3>1, <3>2
  <2> QED
    BY <1>15, <2>1, <2>2, ResultTypeIs
<1> QED
  BY <1>5, <1>6, <1>7, <1>8, <1>9, <1>10, <1>11, <1>12, <1>13, <1>14, <1>15
  DEF Applies, UnaryOp, BinaryOp, TernaryOp, Numeric

-----------------------------------------------------------------------------
(* An expression answers what it means.                                    *)

\* Expression x answers at every type exactly what m, its meaning, says.
Answers(x, m) ==
  /\ x.ty \in Type \cup {"none"}
  /\ m = None \/ (Fits(m) /\ m.ty = x.ty)
  /\ \A ty \in Type :
       IF m # None /\ m.ty = ty THEN x.out[ty] = Ok(m.v) ELSE x.out[ty].err # "Ok"

LEMMA AnswersOk ==
  ASSUME NEW x, NEW m, Answers(x, m), NEW ty \in Type, x.out[ty].err = "Ok"
  PROVE  m # None /\ Fits(m) /\ m.ty = ty /\ x.ty = ty /\ x.out[ty] = Ok(m.v)
BY DEF Answers

LEMMA FittingIsTyped ==
  ASSUME NEW m, Fits(m)
  PROVE  m # None /\ m.ty \in Type /\ m.v \in Values(m.ty) /\ m = [ty |-> m.ty, v |-> m.v]
BY TypesApart DEF Fits, TypedValue, None

LEMMA AnswersAt ==
  ASSUME NEW x, NEW m, Answers(x, m), m # None
  PROVE  Fits(m) /\ m.ty \in Type /\ m.ty = x.ty /\ x.out[m.ty] = Ok(m.v)
<1>1. Fits(m) /\ m.ty = x.ty
  BY DEF Answers
<1>2. m.ty \in Type
  BY <1>1, FittingIsTyped
<1> QED
  BY <1>1, <1>2 DEF Answers

LEMMA AnswersNothing ==
  ASSUME NEW x, x.ty \in Type \cup {"none"}, \A ty \in Type : x.out[ty].err # "Ok"
  PROVE  Answers(x, None)
BY DEF Answers

LEMMA AnswersValue ==
  ASSUME NEW x, NEW m, Fits(m), x.ty = m.ty, x.out[m.ty] = Ok(m.v),
         \A ty \in Type : x.out[ty].err = "Ok" => ty = m.ty
  PROVE  Answers(x, m)
BY FittingIsTyped DEF Answers

LEMMA ConstantAnswers ==
  ASSUME NEW m, Fits(m)
  PROVE  Answers(Constant(m.ty, m.v), m)
<1>1. m # None /\ m.ty \in Type
  BY FittingIsTyped
<1>2. ASSUME NEW ty \in Type
      PROVE  Constant(m.ty, m.v).out[ty] = IF m.ty = ty THEN Ok(m.v) ELSE Err("LoadTypeMismatch")
  BY DEF Constant
<1>3. Err("LoadTypeMismatch").err # "Ok" /\ Constant(m.ty, m.v).ty = m.ty
  BY DEF Err, Constant
<1> QED
  BY <1>1, <1>2, <1>3 DEF Answers

LEMMA ValueAtAnswers ==
  ASSUME NEW tp \in Seq(TypedValue), \A k \in 1 .. Len(tp) : Fits(tp[k]), NEW i \in Nat
  PROVE  Answers(ValueAt(tp, i), IF i < Len(tp) THEN tp[i + 1] ELSE None)
<1>1. CASE i < Len(tp)
  <2>1. Fits(tp[i + 1])
    BY <1>1
  <2>2. ValueAt(tp, i) = Constant(tp[i + 1].ty, tp[i + 1].v)
    BY <1>1 DEF ValueAt
  <2> QED
    BY <1>1, <2>1, <2>2, ConstantAnswers
<1>2. CASE ~ (i < Len(tp))
  <2>1. ValueAt(tp, i).ty = "none"
    BY <1>2 DEF ValueAt
  <2>2. \A ty \in Type : ValueAt(tp, i).out[ty].err # "Ok"
    BY <1>2 DEF ValueAt, Err
  <2> QED
    BY <1>2, <2>1, <2>2 DEF Answers
<1> QED
  BY <1>1, <1>2

\* Operands are evaluated at types of values.
LEMMA OperandTypesTyped ==
  ASSUME NEW n \in Nat, NEW op, NEW target, Applies(n, op, target), NEW dst \in Type,
         NEW t \in [1 .. n -> Type \cup {"none"}], OperandTypes(dst, op, target, t).err = "Ok"
  PROVE  \E tys \in [1 .. n -> Type] : OperandTypes(dst, op, target, t) = [err |-> "Ok", tys |-> tys]
<1> DEFINE r == OperandTypes(dst, op, target, t)
<1>1. DOMAIN t = 1 .. n /\ n \in 1 .. 3 /\ r.err = "Ok"
  BY DEF Applies
<1>2. n = 1 <=> op \in UnaryOp \cup {"As"}
  BY DEF Applies, UnaryOp, BinaryOp, TernaryOp, Numeric, Arith, Compare, Logic, Bps, MulDiv
<1>3. n = 2 <=> op \in BinaryOp
  BY DEF Applies, UnaryOp, BinaryOp, TernaryOp, Numeric, Arith, Compare, Logic, Bps, MulDiv
<1>4. CASE op \in {"Not"} \cup Logic
  <2>1. r = [err |-> "Ok", tys |-> [k \in DOMAIN t |-> "Bool"]]
    BY <1>1, <1>4, OperandTypesIs
  <2>2. [k \in DOMAIN t |-> "Bool"] \in [1 .. n -> Type]
    BY <1>1, TypesApart
  <2> QED
    BY <2>1, <2>2
<1>5. CASE op = "Neg"
  <2>1. n = 1 /\ r = [err |-> "Ok", tys |-> <<dst>>]
    BY <1>1, <1>2, <1>5, OperandTypesIs DEF UnaryOp
  <2>2. <<dst>> \in [1 .. n -> Type]
    BY <2>1
  <2> QED
    BY <2>1, <2>2
<1>6. CASE op \in Bps
  <2>1. n = 2 /\ r = [err |-> "Ok", tys |-> <<"U64", t[2]>>] /\ t[2] # "none"
    BY <1>1, <1>3, <1>6, OperandTypesIs DEF BinaryOp
  <2>2. t[2] \in Type /\ "U64" \in Type
    BY <2>1, TypesApart
  <2>3. <<"U64", t[2]>> \in [1 .. n -> Type]
    BY <2>1, <2>2
  <2> QED
    BY <2>1, <2>3
<1>7. CASE op \notin {"Not", "Neg"} \cup Logic \cup Bps
  <2>1. \A k \in 1 .. n : t[k] # "none"
    BY <1>1, <1>7, OperandTypesIs
  <2>2. t \in [1 .. n -> Type]
    BY <2>1
  <2>3. r = [err |-> "Ok", tys |-> t]
    <3>1. CASE op \in {"IsZero", "NonZero"}
      BY <1>1, <3>1, OperandTypesIs
    <3>2. CASE op \in {"As", "Clamp", "Select"}
      BY <1>1, <3>2, OperandTypesIs
    <3>3. CASE op \in Compare \cup Numeric \cup MulDiv
      BY <1>1, <3>3, OperandTypesIs
    <3> QED
      BY <1>7, <3>1, <3>2, <3>3 DEF Applies, UnaryOp, BinaryOp, TernaryOp
  <2> QED
    BY <2>2, <2>3
<1> QED
  BY <1>4, <1>5, <1>6, <1>7

\* All operands yield a value, or the operator fails.
LEMMA CombinedOk ==
  ASSUME NEW n \in Nat, NEW op, NEW target, NEW ty, NEW outcomes, DOMAIN outcomes = 1 .. n
  PROVE  IF \A k \in 1 .. n : outcomes[k].err = "Ok"
           THEN Combined(op, target, ty, outcomes) = Apply(op, target, ty, [k \in DOMAIN outcomes |-> outcomes[k].v])
           ELSE Combined(op, target, ty, outcomes).err # "Ok"
<1> DEFINE failing == {k \in DOMAIN outcomes : outcomes[k].err # "Ok"}
<1>1. CASE failing = {}
  <2>1. \A k \in 1 .. n : outcomes[k].err = "Ok"
    BY <1>1
  <2> QED
    BY <1>1, <2>1 DEF Combined
<1>2. CASE failing # {}
  <2> DEFINE first == CHOOSE k \in failing : \A m \in failing : k <= m
  <2>1. Combined(op, target, ty, outcomes) = outcomes[first]
    BY <1>2 DEF Combined
  <2>2. failing \subseteq Nat
    OBVIOUS
  <2>3. first \in failing
    <3> HIDE DEF failing
    <3>1. \E k \in failing : \A m \in failing : k <= m
      BY <1>2, <2>2, NatMin
    <3> QED
      BY <3>1
  <2>4. outcomes[first].err # "Ok" /\ first \in 1 .. n
    <3> HIDE DEF first
    <3> QED
      BY <2>3
  <2> HIDE DEF first
  <2> QED
    BY <2>1, <2>4
<1> QED
  BY <1>1, <1>2

\* An operator that yields a value evaluated its operands at their types.
LEMMA EvaluatedOk ==
  ASSUME NEW n \in Nat, NEW op, NEW target, Applies(n, op, target), op # "Select",
         NEW x, NEW m, DOMAIN x = 1 .. n, \A k \in 1 .. n : Answers(x[k], m[k]),
         NEW dst \in Type, Evaluated(dst, op, target, x).err = "Ok"
  PROVE  /\ \A k \in 1 .. n : Fits(m[k]) /\ m[k].ty = x[k].ty
         /\ OperandTypes(dst, op, target, Types(x)) = [err |-> "Ok", tys |-> Types(x)]
         /\ Evaluated(dst, op, target, x) = Apply(op, target, x[1].ty, [k \in 1 .. n |-> m[k].v])
<1> DEFINE t == Types(x)
           typing == OperandTypes(dst, op, target, t)
           outcomes == [k \in DOMAIN x |-> x[k].out[typing.tys[k]]]
           v == [k \in DOMAIN outcomes |-> outcomes[k].v]
<1>1. Evaluated(dst, op, target, x) =
        IF typing.err # "Ok" THEN Err(typing.err) ELSE Combined(op, target, typing.tys[1], outcomes)
  BY DEF Evaluated
<1>2. t = [k \in 1 .. n |-> x[k].ty] /\ DOMAIN t = 1 .. n
  BY DEF Types
<1>3. typing.err = "Ok" /\ Evaluated(dst, op, target, x) = Combined(op, target, typing.tys[1], outcomes)
  <2>1. typing.err # "Ok" => Err(typing.err).err # "Ok"
    BY DEF Err
  <2> HIDE DEF typing, outcomes
  <2> QED
    BY <1>1, <2>1
<1>4. /\ \A k \in 1 .. n : outcomes[k].err = "Ok"
      /\ Combined(op, target, typing.tys[1], outcomes) = Apply(op, target, typing.tys[1], v)
  <2>1. DOMAIN outcomes = 1 .. n
    OBVIOUS
  <2>2. Combined(op, target, typing.tys[1], outcomes).err = "Ok"
    BY <1>3
  <2> HIDE DEF outcomes, typing
  <2> QED
    BY <2>1, <2>2, CombinedOk
<1>5. \E tys \in [1 .. n -> Type] : typing = [err |-> "Ok", tys |-> tys]
  <2>1. ASSUME NEW k \in 1 .. n PROVE x[k].ty \in Type \cup {"none"}
    <3>1. Answers(x[k], m[k])
      OBVIOUS
    <3> QED
      BY <3>1 DEF Answers
  <2>2. t \in [1 .. n -> Type \cup {"none"}]
    BY <1>2, <2>1
  <2> HIDE DEF t
  <2> QED
    BY <1>3, <2>2, OperandTypesTyped
<1>6. ASSUME NEW k \in 1 .. n
      PROVE  Fits(m[k]) /\ m[k].ty = x[k].ty /\ typing.tys[k] = x[k].ty /\ outcomes[k].v = m[k].v
  <2>1. outcomes[k] = x[k].out[typing.tys[k]]
    OBVIOUS
  <2>2. outcomes[k].err = "Ok"
    BY <1>4
  <2> HIDE DEF outcomes, typing
  <2>3. typing.tys[k] \in Type /\ Answers(x[k], m[k])
    BY <1>5
  <2>4. Fits(m[k]) /\ m[k].ty = typing.tys[k] /\ x[k].ty = typing.tys[k] /\ outcomes[k] = Ok(m[k].v)
    BY <2>1, <2>2, <2>3, AnswersOk
  <2> QED
    BY <2>4 DEF Ok
<1>7. typing = [err |-> "Ok", tys |-> t]
  <2>1. \A k \in 1 .. n : typing.tys[k] = x[k].ty
    BY <1>6
  <2> HIDE DEF typing
  <2> PICK tys \in [1 .. n -> Type] : typing = [err |-> "Ok", tys |-> tys]
    BY <1>5
  <2>2. tys = t
    BY <1>2, <2>1
  <2> QED
    BY <2>2
<1>8. v = [k \in 1 .. n |-> m[k].v]
  BY <1>6
<1>9. typing.tys[1] = x[1].ty
  BY <1>6 DEF Applies
<1> HIDE DEF typing, outcomes, v, t
<1> QED
  BY <1>3, <1>4, <1>6, <1>7, <1>8, <1>9 DEF typing, t

LEMMA EvaluatedAtTypes ==
  ASSUME NEW n \in Nat, NEW op, NEW target, op # "Select", n >= 1,
         NEW x, NEW m, DOMAIN x = 1 .. n, \A k \in 1 .. n : Answers(x[k], m[k]) /\ m[k] # None,
         NEW dst, OperandTypes(dst, op, target, Types(x)) = [err |-> "Ok", tys |-> Types(x)]
  PROVE  Evaluated(dst, op, target, x) = Apply(op, target, x[1].ty, [k \in 1 .. n |-> m[k].v])
<1> DEFINE t == Types(x)
           typing == OperandTypes(dst, op, target, t)
           outcomes == [k \in DOMAIN x |-> x[k].out[typing.tys[k]]]
           v == [k \in DOMAIN outcomes |-> outcomes[k].v]
<1>1. t = [k \in 1 .. n |-> x[k].ty] /\ typing.err = "Ok" /\ typing.tys = t
  BY DEF Types
<1>2. Evaluated(dst, op, target, x) = Combined(op, target, typing.tys[1], outcomes)
  <2>1. Evaluated(dst, op, target, x) =
          IF typing.err # "Ok" THEN Err(typing.err) ELSE Combined(op, target, typing.tys[1], outcomes)
    BY DEF Evaluated
  <2> HIDE DEF typing, outcomes
  <2> QED
    BY <2>1, <1>1
<1>3. DOMAIN outcomes = 1 .. n
  OBVIOUS
<1>4. ASSUME NEW k \in 1 .. n PROVE outcomes[k] = Ok(m[k].v)
  <2>1. outcomes[k] = x[k].out[x[k].ty]
    BY <1>1
  <2>2. m[k].ty = x[k].ty /\ x[k].out[m[k].ty] = Ok(m[k].v)
    BY AnswersAt
  <2> HIDE DEF outcomes
  <2> QED
    BY <2>1, <2>2
<1>5. \A k \in 1 .. n : outcomes[k].err = "Ok" /\ outcomes[k].v = m[k].v
  <2>1. \A k \in 1 .. n : outcomes[k] = Ok(m[k].v)
    BY <1>4
  <2>2. \A a : Ok(a).err = "Ok" /\ Ok(a).v = a
    BY DEF Ok
  <2> HIDE DEF outcomes
  <2> QED
    BY <2>1, <2>2
<1>6. v = [k \in 1 .. n |-> m[k].v]
  BY <1>3, <1>5
<1>7. typing.tys[1] = x[1].ty
  BY <1>1
<1> HIDE DEF outcomes, typing
<1>8. Combined(op, target, typing.tys[1], outcomes) = Apply(op, target, typing.tys[1], v)
  BY <1>3, <1>5, CombinedOk
<1> QED
  BY <1>2, <1>6, <1>7, <1>8

LEMMA InferredTyped ==
  ASSUME NEW n \in Nat, NEW op, NEW target, Applies(n, op, target), NEW t \in [1 .. n -> Type \cup {"none"}]
  PROVE  Inferred(op, target, t) \in Type \cup {"none"}
<1>1. op \in TernaryOp => t[2] \in Type \cup {"none"}
  BY DEF Applies, UnaryOp, BinaryOp, TernaryOp, Numeric, Arith, Compare, Logic, Bps, MulDiv
<1>2. t[1] \in Type \cup {"none"} /\ (op = "As" => target \in Type)
  BY TypesApart DEF Applies, UnaryOp, BinaryOp, TernaryOp, Numeric, Arith, Compare, Logic, Bps, MulDiv
<1>3. /\ op \in UnaryOp \cup {"As"} \cup BinaryOp \cup TernaryOp
      /\ UnaryOp \subseteq BoolOp \cup {"Neg"}
      /\ BinaryOp \subseteq BoolOp \cup Numeric \cup Bps
  BY DEF Applies, UnaryOp, BinaryOp, BoolOp
<1>4. "Bool" \in Type /\ "U64" \in Type
  BY TypesApart
<1>5. CASE op = "As"
  BY <1>2, <1>5, InferredIs
<1>6. CASE op \in BoolOp \cup Bps
  BY <1>4, <1>6, InferredIs
<1>7. CASE op \in Numeric \cup {"Neg"}
  BY <1>2, <1>7, InferredIs
<1>8. CASE op \in TernaryOp
  BY <1>1, <1>2, <1>8, InferredIs DEF TernaryOp
<1> QED
  BY <1>3, <1>5, <1>6, <1>7, <1>8

\* An operator other than Select answers what it means if its operands do.
LEMMA OperatorAnswers ==
  ASSUME NEW n \in Nat, NEW op, NEW target, Applies(n, op, target), op # "Select",
         NEW x, NEW m, DOMAIN x = 1 .. n, DOMAIN m = 1 .. n, \A k \in 1 .. n : Answers(x[k], m[k])
  PROVE  Answers(Composite(op, target, x), Meaning(op, target, m, Types(x)))
<1> DEFINE t == Types(x)
           y == Composite(op, target, x)
           r == Meaning(op, target, m, t)
           tys == [k \in DOMAIN m |-> m[k].ty]
           v == [k \in DOMAIN m |-> m[k].v]
           ty == IF None \in {m[k] : k \in DOMAIN m} THEN "none" ELSE ResultType(op, target, tys)
           undefined == tys[1] \in Float /\ Undefined(op, {v[k] : k \in DOMAIN v})
           results == {q \in Values(ty) : Means(op, ty, tys[1], v, q)}
           out == Apply(op, target, tys[1], v)
<1> SUFFICES Answers(y, r)
  OBVIOUS
<1>1. r = IF ty = "none" \/ undefined \/ results = {} THEN None
          ELSE [ty |-> ty, v |-> CHOOSE q \in results : TRUE]
  BY DEF Meaning
<1>2. y.ty = Inferred(op, target, t) /\ \A dst \in Type : y.out[dst] = Evaluated(dst, op, target, x)
  BY DEF Composite
<1>3. n >= 1 /\ n \in 1 .. 3 /\ t = [k \in 1 .. n |-> x[k].ty] /\ v = [k \in 1 .. n |-> m[k].v]
  BY DEF Applies, Types
<1>4. y.ty \in Type \cup {"none"}
  <2>1. \A k \in 1 .. n : x[k].ty \in Type \cup {"none"}
    BY DEF Answers
  <2>2. t \in [1 .. n -> Type \cup {"none"}]
    BY <1>3, <2>1
  <2> HIDE DEF t, y
  <2> QED
    BY <1>2, <2>2, InferredTyped
<1>5. ASSUME NEW dst \in Type, y.out[dst].err = "Ok"
      PROVE  ty = dst /\ y.out[dst] = out /\ ty # "none"
  <2>1. Evaluated(dst, op, target, x).err = "Ok"
    BY <1>2, <1>5
  <2>2. /\ \A k \in 1 .. n : Fits(m[k]) /\ m[k].ty = x[k].ty
        /\ OperandTypes(dst, op, target, t) = [err |-> "Ok", tys |-> t]
        /\ Evaluated(dst, op, target, x) = Apply(op, target, x[1].ty, v)
    <3>1. /\ \A k \in 1 .. n : Fits(m[k]) /\ m[k].ty = x[k].ty
          /\ OperandTypes(dst, op, target, Types(x)) = [err |-> "Ok", tys |-> Types(x)]
          /\ Evaluated(dst, op, target, x) = Apply(op, target, x[1].ty, [k \in 1 .. n |-> m[k].v])
      BY <2>1, EvaluatedOk
    <3> QED
      BY <3>1, <1>3
  <2>3. tys = t /\ t \in [1 .. n -> Type] /\ None \notin {m[k] : k \in DOMAIN m}
    <3>1. \A k \in 1 .. n : m[k] # None /\ m[k].ty \in Type
      BY <2>2, FittingIsTyped
    <3> QED
      BY <1>3, <2>2, <3>1
  <2>4. t[1] = x[1].ty
    BY <1>3
  <2> HIDE DEF t, y, v, tys
  <2>5. ResultType(op, target, t) = dst
    <3>1. Apply(op, target, t[1], v).err = "Ok"
      BY <2>1, <2>2, <2>4
    <3>2. OperandTypes(dst, op, target, t) = [err |-> "Ok", tys |-> t] /\ t \in [1 .. n -> Type]
      BY <2>2, <2>3
    <3> QED
      BY <3>1, <3>2, TypingSound
  <2> QED
    BY <1>2, <2>2, <2>3, <2>4, <2>5, TypesApart
<1>6. CASE ty = "none"
  <2>1. r = None
    BY <1>1, <1>6
  <2>2. \A dst \in Type : y.out[dst].err # "Ok"
    BY <1>5, <1>6
  <2> HIDE DEF r, y
  <2> QED
    BY <1>4, <2>1, <2>2, AnswersNothing
<1>7. CASE ty # "none"
  <2>1. \A k \in 1 .. n : m[k] # None
    BY <1>7
  <2>2. \A k \in 1 .. n : Fits(m[k]) /\ m[k].ty = x[k].ty
    BY <2>1 DEF Answers
  <2>3. tys = t /\ t \in [1 .. n -> Type] /\ ty = ResultType(op, target, t)
    <3>1. \A k \in 1 .. n : m[k].ty \in Type
      BY <2>2, FittingIsTyped
    <3>2. tys = t /\ t \in [1 .. n -> Type]
      BY <1>3, <2>2, <3>1
    <3>3. ty = ResultType(op, target, tys)
      BY <1>7
    <3> HIDE DEF ty, t, tys
    <3> QED
      BY <3>2, <3>3
  <2>4. \A k \in 1 .. n : v[k] \in Values(t[k])
    BY <1>3, <2>2, FittingIsTyped
  <2>5. ty \in Type
    <3> HIDE DEF ty, t
    <3> QED
      BY <1>7, <2>3, ResultTyped
  <2>6. OperandTypes(ty, op, target, t) = [err |-> "Ok", tys |-> t] /\ y.ty = ty
    <3> HIDE DEF ty, t, y
    <3> QED
      BY <1>2, <1>7, <2>3, TypingComplete
  <2>7. y.out[ty] = out
    <3>1. Evaluated(ty, op, target, x) = Apply(op, target, x[1].ty, [k \in 1 .. n |-> m[k].v])
      <4>1. \A k \in 1 .. n : Answers(x[k], m[k]) /\ m[k] # None
        BY <2>1
      <4>2. OperandTypes(ty, op, target, Types(x)) = [err |-> "Ok", tys |-> Types(x)]
        BY <2>6
      <4>3. n >= 1 /\ DOMAIN x = 1 .. n /\ n \in Nat
        BY <1>3
      <4> HIDE DEF ty, t, y, r, tys, v, undefined, results, out
      <4> QED
        BY <4>1, <4>2, <4>3, EvaluatedAtTypes, SMTT(30)
    <3>2. x[1].ty = tys[1]
      BY <1>3, <2>3
    <3> HIDE DEF ty, v, tys, y
    <3> QED
      BY <1>2, <1>3, <2>5, <3>1, <3>2
  <2>8. DOMAIN v = 1 .. n
    BY <1>3
  <2>9. CASE undefined
    <3>1. out.err # "Ok"
      <4> HIDE DEF ty, v, tys, t
      <4> QED
        BY <1>7, <2>3, <2>8, <2>9, UndefinedFails
    <3>2. r = None
      BY <1>1, <2>9
    <3>3. \A dst \in Type : y.out[dst].err # "Ok"
      BY <1>5, <3>1
    <3> HIDE DEF r, y
    <3> QED
      BY <1>4, <3>2, <3>3, AnswersNothing
  <2>10. CASE ~ undefined
    <3>1. Exact(op, ty, tys[1], v, out)
      <4> HIDE DEF ty, v, tys, t
      <4> QED
        BY <1>7, <2>3, <2>4, <2>8, <2>10, ApplyExact
    <3>2. CASE results = {}
      <4>1. out.err # "Ok"
        <5> HIDE DEF ty, v, tys, out
        <5> QED
          BY <3>1, <3>2 DEF Exact
      <4>2. r = None
        BY <1>1, <3>2
      <4>3. \A dst \in Type : y.out[dst].err # "Ok"
        BY <1>5, <4>1
      <4> HIDE DEF r, y
      <4> QED
        BY <1>4, <4>2, <4>3, AnswersNothing
    <3>3. CASE results # {}
      <4> DEFINE q == CHOOSE p \in results : TRUE
      <4>1. q \in results
        <5> HIDE DEF results
        <5> QED
          BY <3>3
      <4>2. r = [ty |-> ty, v |-> q]
        <5> HIDE DEF ty, undefined, results, r
        <5> QED
          BY <1>1, <1>7, <2>10, <3>3
      <4>3. q \in Values(ty) /\ Means(op, ty, tys[1], v, q)
        <5> HIDE DEF q
        <5> QED
          BY <4>1
      <4>4. out = Ok(q)
        <5> HIDE DEF ty, v, tys, out, q
        <5> QED
          BY <3>1, <4>3 DEF Exact
      <4>5. Fits(r) /\ r # None /\ r.ty = ty /\ r.v = q
        <5> HIDE DEF q, ty, r
        <5> QED
          BY <1>7, <2>5, <4>2, <4>3, ValuesAreIntegers DEF Fits, TypedValue, None
      <4>6. ASSUME NEW dst \in Type, y.out[dst].err = "Ok" PROVE dst = ty
        BY <1>5, <4>6
      <4> HIDE DEF q, ty, r, y, out
      <4> QED
        BY <2>6, <2>7, <4>4, <4>5, <4>6, AnswersValue
    <3> QED
      BY <3>2, <3>3
  <2> QED
    BY <2>9, <2>10
<1> QED
  BY <1>6, <1>7

\* Select answers what the arm that its condition takes means.
LEMMA SelectAnswers ==
  ASSUME NEW target, NEW x, NEW m, DOMAIN x = 1 .. 3, DOMAIN m = 1 .. 3, \A k \in 1 .. 3 : Answers(x[k], m[k])
  PROVE  Answers(Composite("Select", target, x), Meaning("Select", target, m, Types(x)))
<1> DEFINE t == Types(x)
           y == Composite("Select", target, x)
           r == Meaning("Select", target, m, t)
           i == IF m[1].v = 1 THEN 2 ELSE 3
<1> SUFFICES Answers(y, r)
  OBVIOUS
<1>1. /\ DOMAIN t = 1 .. 3 /\ t[1] = x[1].ty /\ t[2] = x[2].ty /\ t[3] = x[3].ty
      /\ \A k \in 1 .. 3 : t[k] \in Type \cup {"none"}
  <2>1. \A k \in 1 .. 3 : x[k].ty \in Type \cup {"none"}
    BY DEF Answers
  <2> QED
    BY <2>1 DEF Types
<1>2. y.ty = (IF t[2] = t[3] THEN t[2] ELSE "none") /\ y.ty \in Type \cup {"none"}
  <2>1. y.ty = Inferred("Select", target, t)
    BY DEF Composite
  <2>2. y.ty = IF t[2] = t[3] THEN t[2] ELSE "none"
    BY <2>1, InferredIs
  <2> HIDE DEF t, y
  <2> QED
    BY <1>1, <2>2
<1>3. r = IF m[1].ty = "Bool" /\ t[2] = t[3] THEN m[i] ELSE None
  BY DEF Meaning
<1>4. ASSUME NEW dst \in Type
      PROVE  IF (\A k \in 1 .. 3 : t[k] # "none") /\ t[1] = "Bool" /\ dst = t[2] /\ t[2] = t[3]
               THEN y.out[dst] = Selected([k \in 1 .. 3 |-> x[k].out[t[k]]])
               ELSE y.out[dst].err # "Ok"
  <2> DEFINE typing == OperandTypes(dst, "Select", target, t)
             outcomes == [k \in DOMAIN x |-> x[k].out[typing.tys[k]]]
             fits == (\A k \in 1 .. 3 : t[k] # "none") /\ t[1] = "Bool" /\ dst = t[2] /\ t[2] = t[3]
  <2>1. IF fits THEN typing = [err |-> "Ok", tys |-> t] ELSE typing.err # "Ok"
    <3> HIDE DEF t
    <3> QED
      BY <1>1, OperandTypesIs
  <2>2. y.out[dst] = Evaluated(dst, "Select", target, x)
    BY DEF Composite
  <2>3. y.out[dst] = IF typing.err # "Ok" THEN Err(typing.err) ELSE Selected(outcomes)
    BY <2>2 DEF Evaluated
  <2>4. typing.err # "Ok" => Err(typing.err).err # "Ok"
    BY DEF Err
  <2>5. fits => outcomes = [k \in 1 .. 3 |-> x[k].out[t[k]]] /\ typing.err = "Ok"
    <3>1. ASSUME fits PROVE outcomes = [k \in 1 .. 3 |-> x[k].out[t[k]]] /\ typing.err = "Ok"
      <4>1. typing.err = "Ok" /\ typing.tys = t
        <5> HIDE DEF typing, t, fits
        <5> QED
          BY <2>1, <3>1
      <4> HIDE DEF typing, t
      <4> QED
        BY <4>1
    <3> QED
      BY <3>1
  <2> HIDE DEF typing, outcomes, t, y
  <2> QED
    BY <2>1, <2>3, <2>4, <2>5
<1>5. CASE \E dst \in Type : y.out[dst].err = "Ok"
  <2> PICK dst \in Type : y.out[dst].err = "Ok"
    BY <1>5
  <2> DEFINE outcomes == [k \in 1 .. 3 |-> x[k].out[t[k]]]
  <2>1. /\ \A k \in 1 .. 3 : t[k] # "none"
        /\ t[1] = "Bool" /\ dst = t[2] /\ t[2] = t[3] /\ y.out[dst] = Selected(outcomes)
    <3> HIDE DEF t, y, outcomes
    <3> QED
      BY <1>4 DEF outcomes
  <2>2. outcomes[1].err = "Ok"
    <3> HIDE DEF outcomes, y
    <3> QED
      BY <2>1 DEF Selected
  <2>3. m[1] # None /\ m[1].ty = "Bool" /\ m[1].v \in 0 .. 1 /\ outcomes[1] = Ok(m[1].v)
    <3>1. outcomes[1] = x[1].out["Bool"]
      BY <2>1
    <3>2. Answers(x[1], m[1]) /\ "Bool" \in Type
      BY TypesApart
    <3> HIDE DEF outcomes
    <3>3. m[1] # None /\ Fits(m[1]) /\ m[1].ty = "Bool" /\ outcomes[1] = Ok(m[1].v)
      BY <2>2, <3>1, <3>2, AnswersOk
    <3> QED
      BY <3>3, FittingIsTyped, ValuesAreIntegers
  <2>4. i \in {2, 3} /\ Taken(outcomes[1].v) = i
    <3> HIDE DEF outcomes
    <3> QED
      BY <2>3 DEF Taken, Ok
  <2>5. y.out[dst] = outcomes[i]
    <3> HIDE DEF outcomes, y, i
    <3> QED
      BY <2>1, <2>2, <2>4 DEF Selected
  <2>6. outcomes[i] = x[i].out[dst] /\ Answers(x[i], m[i]) /\ t[i] = dst
    <3> HIDE DEF i, t
    <3> QED
      BY <2>1, <2>4
  <2>7. m[i] # None /\ Fits(m[i]) /\ m[i].ty = dst /\ x[i].out[dst] = Ok(m[i].v)
    <3> HIDE DEF i, y, t, outcomes
    <3> QED
      BY <2>5, <2>6, AnswersOk
  <2>8. r = m[i] /\ y.ty = dst
    <3> HIDE DEF i, y, t, r
    <3> QED
      BY <1>2, <1>3, <2>1, <2>3
  <2>9. ASSUME NEW ty \in Type, y.out[ty].err = "Ok" PROVE ty = dst
    <3> HIDE DEF y, t
    <3> QED
      BY <1>4, <2>1, <2>9
  <2> HIDE DEF y, r, i, t, outcomes
  <2> QED
    BY <2>5, <2>6, <2>7, <2>8, <2>9, AnswersValue
<1>6. CASE \A dst \in Type : y.out[dst].err # "Ok"
  <2>1. ASSUME r # None PROVE FALSE
    <3>1. m[1].ty = "Bool" /\ t[2] = t[3] /\ r = m[i]
      <4> HIDE DEF r, t, i
      <4> QED
        BY <1>3, <2>1
    <3>2. m[1] # None
      BY <3>1 DEF None
    <3>3. Fits(m[1]) /\ t[1] = "Bool" /\ x[1].out["Bool"] = Ok(m[1].v) /\ m[1].v \in 0 .. 1
      <4>1. Answers(x[1], m[1])
        OBVIOUS
      <4> HIDE DEF t
      <4> QED
        BY <1>1, <3>1, <3>2, <4>1, AnswersAt, FittingIsTyped, ValuesAreIntegers
    <3>4. i \in {2, 3} /\ m[i] # None
      BY <2>1, <3>1
    <3>5. Fits(m[i]) /\ m[i].ty = t[i] /\ t[i] \in Type /\ t[i] = t[2] /\ x[i].out[t[i]] = Ok(m[i].v)
      <4>1. Answers(x[i], m[i])
        BY <3>4
      <4>2. Fits(m[i]) /\ m[i].ty = x[i].ty /\ m[i].ty \in Type /\ x[i].out[m[i].ty] = Ok(m[i].v)
        <5> HIDE DEF i
        <5> QED
          BY <3>4, <4>1, AnswersAt
      <4> HIDE DEF t, i
      <4> QED
        BY <1>1, <3>1, <3>4, <4>2
    <3> DEFINE outcomes == [k \in 1 .. 3 |-> x[k].out[t[k]]]
    <3>6. y.out[t[2]] = Selected(outcomes)
      <4>1. t[1] # "none" /\ t[2] # "none" /\ t[3] # "none" /\ t[2] \in Type
        <5> HIDE DEF t, i
        <5> QED
          BY <3>1, <3>3, <3>5, TypesApart
      <4>2. \A k \in 1 .. 3 : t[k] # "none"
        <5> HIDE DEF t
        <5> QED
          BY <4>1
      <4> HIDE DEF t, y
      <4> QED
        BY <1>4, <3>1, <3>3, <4>1, <4>2
    <3>7. outcomes[1] = Ok(m[1].v) /\ outcomes[i] = Ok(m[i].v)
      <4> HIDE DEF t, i
      <4> QED
        BY <3>3, <3>4, <3>5
    <3>8. Selected(outcomes) = outcomes[i]
      <4>1. Taken(m[1].v) = i
        BY <3>3 DEF Taken
      <4> HIDE DEF outcomes, i
      <4> QED
        BY <3>7, <4>1 DEF Selected, Ok
    <3>9. y.out[t[2]].err = "Ok" /\ t[2] \in Type
      <4> HIDE DEF outcomes, i, y, t
      <4> QED
        BY <3>5, <3>6, <3>7, <3>8 DEF Ok
    <3> HIDE DEF t, y
    <3> QED
      BY <1>6, <3>9
  <2> HIDE DEF y, r
  <2> QED
    BY <1>2, <1>6, <2>1, AnswersNothing
<1> QED
  BY <1>5, <1>6

\* An operator on operands that answer what they mean answers what it means.
LEMMA CompositeAnswers ==
  ASSUME NEW n \in Nat, NEW op, NEW target, Applies(n, op, target),
         NEW x, NEW m, DOMAIN x = 1 .. n, DOMAIN m = 1 .. n, \A k \in 1 .. n : Answers(x[k], m[k])
  PROVE  Answers(Composite(op, target, x), Meaning(op, target, m, Types(x)))
<1>1. CASE op = "Select"
  <2>1. n = 3
    BY <1>1 DEF Applies, UnaryOp, BinaryOp, Numeric, Arith, Compare, Logic, Bps
  <2> QED
    BY <1>1, <2>1, SelectAnswers
<1>2. CASE op # "Select"
  BY <1>2, OperatorAnswers
<1> QED
  BY <1>1, <1>2

-----------------------------------------------------------------------------
(* Sessions.                                                               *)

\* Every expression on the stack answers what it means.
ExprInv ==
  /\ ExprTypeOK
  /\ stack \in Seq({stack[k] : k \in DOMAIN stack}) /\ meant \in Seq({meant[k] : k \in DOMAIN meant})
  /\ stack # << >> => Len(tape) < Len(loaded) + MaxEvals
  /\ \A k \in 1 .. Len(stack) : Answers(stack[k], meant[k])

\* A sequence is one of its own elements.
LEMMA SeqOfElements ==
  ASSUME NEW S, NEW s \in Seq(S)
  PROVE  s \in Seq({s[k] : k \in DOMAIN s})
<1>1. Len(s) \in Nat /\ s = [k \in 1 .. Len(s) |-> s[k]] /\ DOMAIN s = 1 .. Len(s)
  OBVIOUS
<1>2. s \in [1 .. Len(s) -> {s[k] : k \in DOMAIN s}]
  BY <1>1
<1> QED
  BY <1>1, <1>2

\* The n elements on top.
LEMMA TopProperties ==
  ASSUME NEW S, NEW s \in Seq(S), NEW n \in 0 .. Len(s)
  PROVE  /\ DOMAIN Top(s, n) = 1 .. n
         /\ \A k \in 1 .. n : Top(s, n)[k] = s[Len(s) - n + k] /\ Len(s) - n + k \in 1 .. Len(s)
BY DEF Top

\* A new element in their place.
LEMMA ReplaceTyped ==
  ASSUME NEW S, NEW s \in Seq(S), NEW n \in 0 .. Len(s), NEW e
  PROVE  Replace(s, n, e) \in Seq(S \cup {e})
<1> DEFINE q == SubSeq(s, 1, Len(s) - n)
<1>1. q \in Seq(S)
  OBVIOUS
<1>2. q \in Seq(S \cup {e}) /\ e \in S \cup {e}
  BY <1>1
<1> HIDE DEF q
<1> QED
  BY <1>2 DEF Replace, q

LEMMA ReplaceProperties ==
  ASSUME NEW S, NEW s \in Seq(S), NEW n \in 0 .. Len(s), NEW e, NEW r, r = Replace(s, n, e)
  PROVE  /\ Len(r) = Len(s) - n + 1
         /\ \A k \in 1 .. Len(s) - n : r[k] = s[k]
         /\ r[Len(s) - n + 1] = e
<1> DEFINE q == SubSeq(s, 1, Len(s) - n)
<1>1. q \in Seq(S) /\ Len(q) = Len(s) - n /\ \A k \in 1 .. Len(q) : q[k] = s[k]
  OBVIOUS
<1>2. q \in Seq(S \cup {e}) /\ e \in S \cup {e}
  BY <1>1
<1>3. r = Append(q, e)
  BY DEF Replace
<1> HIDE DEF q
<1> QED
  BY <1>1, <1>2, <1>3

LEMMA PushInv ==
  ASSUME ExprInv, NEW x, NEW m, Answers(x, m), Push(x, m)
  PROVE  ExprInv'
<1> DEFINE S == {stack[k] : k \in DOMAIN stack} \cup {x}
           M == {meant[k] : k \in DOMAIN meant} \cup {m}
<1>1. stack \in Seq(S) /\ meant \in Seq(M) /\ x \in S /\ m \in M /\ Len(meant) = Len(stack)
  BY DEF ExprInv, ExprTypeOK
<1>2. stack' = Append(stack, x) /\ meant' = Append(meant, m) /\ UNCHANGED <<loaded, tape, built>>
  BY DEF Push
<1> HIDE DEF S, M
<1>3. stack' \in Seq(S) /\ meant' \in Seq(M) /\ Len(stack') = Len(stack) + 1 /\ Len(meant') = Len(stack')
  BY <1>1, <1>2
<1>4. ExprTypeOK'
  BY <1>2, <1>3 DEF ExprInv, ExprTypeOK
<1>5. ASSUME NEW k \in 1 .. Len(stack') PROVE Answers(stack'[k], meant'[k])
  <2>1. CASE k = Len(stack) + 1
    <3>1. stack'[k] = x /\ meant'[k] = m
      BY <1>1, <1>2, <2>1
    <3> QED
      BY <3>1
  <2>2. CASE k # Len(stack) + 1
    <3>1. k \in 1 .. Len(stack) /\ stack'[k] = stack[k] /\ meant'[k] = meant[k]
      BY <1>1, <1>2, <1>3, <2>2
    <3> QED
      BY <3>1 DEF ExprInv
  <2> QED
    BY <2>1, <2>2
<1>6. stack' \in Seq({stack'[k] : k \in DOMAIN stack'}) /\ meant' \in Seq({meant'[k] : k \in DOMAIN meant'})
  <2>1. stack' \in Seq(S)
    BY <1>3
  <2>2. meant' \in Seq(M)
    BY <1>3
  <2> QED
    BY <2>1, <2>2, SeqOfElements
<1>7. Len(tape') < Len(loaded') + MaxEvals
  BY <1>2 DEF Push
<1> QED
  BY <1>4, <1>5, <1>6, <1>7 DEF ExprInv

LEMMA OperateInv ==
  ASSUME ExprInv, NEW n \in 1 .. 3, NEW op, NEW target, Applies(n, op, target), Operate(n, op, target)
  PROVE  ExprInv'
<1> DEFINE x == Top(stack, n)
           w == Top(meant, n)
           y == Composite(op, target, x)
           r == Meaning(op, target, w, Types(x))
           S == {stack[k] : k \in DOMAIN stack}
           M == {meant[k] : k \in DOMAIN meant}
<1>1. /\ stack \in Seq(S) /\ meant \in Seq(M) /\ Len(meant) = Len(stack)
      /\ n \in 0 .. Len(stack) /\ n \in 0 .. Len(meant)
  BY DEF ExprInv, ExprTypeOK, Operate
<1>2. /\ stack' = Replace(stack, n, y) /\ meant' = Replace(meant, n, r)
      /\ built' = built + 1 /\ built < MaxOperators[loaded] /\ UNCHANGED <<loaded, tape>>
  BY DEF Operate
<1> HIDE DEF S, M
<1>3. DOMAIN x = 1 .. n /\ DOMAIN w = 1 .. n
  BY <1>1, TopProperties
<1>4. ASSUME NEW k \in 1 .. n PROVE Answers(x[k], w[k])
  <2>1. x[k] = stack[Len(stack) - n + k] /\ Len(stack) - n + k \in 1 .. Len(stack)
    BY <1>1, TopProperties
  <2>2. w[k] = meant[Len(meant) - n + k]
    BY <1>1, TopProperties
  <2> HIDE DEF x, w
  <2> QED
    BY <1>1, <2>1, <2>2 DEF ExprInv
<1>5. Answers(y, r)
  <2> HIDE DEF x, w
  <2> QED
    BY <1>3, <1>4, CompositeAnswers
<1> HIDE DEF x, w, y, r
<1>6. /\ stack' \in Seq(S \cup {y}) /\ meant' \in Seq(M \cup {r})
      /\ Len(stack') = Len(stack) - n + 1 /\ Len(meant') = Len(stack')
      /\ stack'[Len(stack')] = y /\ meant'[Len(stack')] = r
      /\ \A k \in 1 .. Len(stack) - n : stack'[k] = stack[k] /\ meant'[k] = meant[k]
  <2>1. /\ Len(stack') = Len(stack) - n + 1 /\ stack'[Len(stack) - n + 1] = y
        /\ \A k \in 1 .. Len(stack) - n : stack'[k] = stack[k]
    BY <1>1, <1>2, ReplaceProperties
  <2>2. /\ Len(meant') = Len(meant) - n + 1 /\ meant'[Len(meant) - n + 1] = r
        /\ \A k \in 1 .. Len(meant) - n : meant'[k] = meant[k]
    BY <1>1, <1>2, ReplaceProperties
  <2>3. stack' \in Seq(S \cup {y}) /\ meant' \in Seq(M \cup {r})
    BY <1>1, <1>2, ReplaceTyped
  <2> QED
    BY <1>1, <2>1, <2>2, <2>3
<1>7. ExprTypeOK'
  <2>1. MaxOperators[loaded] \in Nat /\ built \in 0 .. MaxOperators[loaded]
    BY ExpressionsAssumption DEF ExprInv, ExprTypeOK
  <2>2. built' \in 0 .. MaxOperators[loaded']
    BY <1>2, <2>1
  <2> QED
    BY <1>2, <1>6, <2>2 DEF ExprInv, ExprTypeOK
<1>8. ASSUME NEW k \in 1 .. Len(stack') PROVE Answers(stack'[k], meant'[k])
  <2>1. CASE k = Len(stack')
    BY <1>5, <1>6, <2>1
  <2>2. CASE k # Len(stack')
    <3>1. k \in 1 .. Len(stack) - n /\ k \in 1 .. Len(stack)
      BY <1>1, <1>6, <2>2
    <3>2. stack'[k] = stack[k] /\ meant'[k] = meant[k] /\ Answers(stack[k], meant[k])
      BY <1>6, <3>1 DEF ExprInv
    <3> QED
      BY <3>2
  <2> QED
    BY <2>1, <2>2
<1>9. stack' \in Seq({stack'[k] : k \in DOMAIN stack'}) /\ meant' \in Seq({meant'[k] : k \in DOMAIN meant'})
  BY <1>6, SeqOfElements
<1>10. Len(tape') < Len(loaded') + MaxEvals
  BY <1>1, <1>2 DEF ExprInv
<1> QED
  BY <1>7, <1>8, <1>9, <1>10 DEF ExprInv

\* After a let, or when a session starts, no expression is being composed.
LEMMA DiscardInv ==
  ASSUME ExprInv, Discard, tape' \in Seq(TypedValue), Len(tape') <= Len(loaded) + MaxEvals,
         \A i \in 1 .. Len(tape') : Fits(tape'[i])
  PROVE  ExprInv'
<1>1. stack' = << >> /\ meant' = << >> /\ built' = 0 /\ loaded' = loaded
  BY DEF Discard
<1>2. MaxOperators[loaded] \in Nat /\ loaded \in Loads
  BY ExpressionsAssumption DEF ExprInv, ExprTypeOK
<1>3. ExprTypeOK'
  BY <1>1, <1>2 DEF ExprTypeOK
<1>4. stack' \in Seq({}) /\ meant' \in Seq({})
  BY <1>1
<1>5. stack' \in Seq({stack'[k] : k \in DOMAIN stack'}) /\ meant' \in Seq({meant'[k] : k \in DOMAIN meant'})
  BY <1>4, SeqOfElements
<1> QED
  BY <1>1, <1>3, <1>5 DEF ExprInv

LEMMA ExprInitInv == ExprInit => ExprInv
<1> SUFFICES ASSUME ExprInit PROVE ExprInv
  OBVIOUS
<1>1. loaded \in Loads /\ tape = loaded /\ stack = << >> /\ meant = << >> /\ built = 0
  BY DEF ExprInit
<1>2. /\ loaded \in Seq(TypedValue) /\ (\A k \in 1 .. Len(loaded) : Fits(loaded[k]))
      /\ MaxOperators[loaded] \in Nat /\ MaxEvals \in Nat
  BY <1>1, ExpressionsAssumption, MaxEvalsAssumption
<1>3. ExprTypeOK
  BY <1>1, <1>2 DEF ExprTypeOK
<1>4. stack \in Seq({}) /\ meant \in Seq({})
  BY <1>1
<1>5. stack \in Seq({stack[k] : k \in DOMAIN stack}) /\ meant \in Seq({meant[k] : k \in DOMAIN meant})
  BY <1>4, SeqOfElements
<1> QED
  BY <1>1, <1>3, <1>5 DEF ExprInv

LEMMA ExprStepInv == ExprInv /\ [ExprNext]_exprVars => ExprInv'
<1> SUFFICES ASSUME ExprInv, [ExprNext]_exprVars PROVE ExprInv'
  OBVIOUS
<1>1. CASE PushConst
  <2> PICK m \in Literals[loaded] : Push(Constant(m.ty, m.v), m)
    BY <1>1 DEF PushConst
  <2>1. Fits(m)
    BY ExpressionsAssumption DEF ExprInv, ExprTypeOK
  <2>2. Answers(Constant(m.ty, m.v), m)
    BY <2>1, ConstantAnswers
  <2> QED
    BY <2>2, PushInv
<1>2. CASE PushValue
  <2> PICK i \in 0 .. Len(tape) : Push(ValueAt(tape, i), IF i < Len(tape) THEN tape[i + 1] ELSE None)
    BY <1>2 DEF PushValue
  <2>1. tape \in Seq(TypedValue) /\ (\A k \in 1 .. Len(tape) : Fits(tape[k])) /\ i \in Nat
    BY DEF ExprInv, ExprTypeOK
  <2>2. Answers(ValueAt(tape, i), IF i < Len(tape) THEN tape[i + 1] ELSE None)
    BY <2>1, ValueAtAnswers
  <2> QED
    BY <2>2, PushInv
<1>3. CASE ComposeUnary
  <2>1. CASE \E op \in UnaryOp : Operate(1, op, "none")
    <3> PICK op \in UnaryOp : Operate(1, op, "none")
      BY <2>1
    <3>1. Applies(1, op, "none")
      BY DEF Applies
    <3> QED
      BY <3>1, OperateInv
  <2>2. CASE \E ty \in Int_ : Operate(1, "As", ty)
    <3> PICK ty \in Int_ : Operate(1, "As", ty)
      BY <2>2
    <3>1. Applies(1, "As", ty)
      BY DEF Applies
    <3> QED
      BY <3>1, OperateInv
  <2> QED
    BY <1>3, <2>1, <2>2 DEF ComposeUnary
<1>4. CASE ComposeBinary
  <2> PICK op \in BinaryOp : Operate(2, op, "none")
    BY <1>4 DEF ComposeBinary
  <2>1. Applies(2, op, "none")
    BY DEF Applies
  <2> QED
    BY <2>1, OperateInv
<1>5. CASE ComposeTernary
  <2> PICK op \in TernaryOp : Operate(3, op, "none")
    BY <1>5 DEF ComposeTernary
  <2>1. Applies(3, op, "none")
    BY DEF Applies
  <2> QED
    BY <2>1, OperateInv
<1>6. CASE LetEval
  <2> DEFINE x == stack[1]
             m == meant[1]
  <2>1. Len(stack) = 1 /\ x.ty # "none" /\ x.out[x.ty].err = "Ok" /\ Discard
        /\ tape' = Append(tape, [ty |-> x.ty, v |-> x.out[x.ty].v])
    BY <1>6 DEF LetEval, Composed
  <2>2. Answers(x, m)
    BY <2>1 DEF ExprInv
  <2> HIDE DEF x, m
  <2>3. x.ty \in Type
    BY <2>1, <2>2 DEF Answers
  <2>4. Fits(m) /\ m.ty = x.ty /\ x.out[x.ty] = Ok(m.v)
    BY <2>1, <2>2, <2>3, AnswersOk
  <2>5. [ty |-> x.ty, v |-> x.out[x.ty].v] = m
    BY <2>4, FittingIsTyped DEF Ok
  <2>6. m \in TypedValue /\ tape \in Seq(TypedValue) /\ tape' = Append(tape, m)
    BY <2>1, <2>4, <2>5 DEF Fits, ExprInv, ExprTypeOK
  <2>7. Len(tape) < Len(loaded) + MaxEvals
    <3>1. Len(<< >>) = 0 /\ Len(stack) = 1
      BY <2>1
    <3>2. stack # << >>
      BY <3>1
    <3> QED
      BY <3>2 DEF ExprInv
  <2>8. /\ tape' \in Seq(TypedValue) /\ Len(tape') <= Len(loaded) + MaxEvals
        /\ \A i \in 1 .. Len(tape') : Fits(tape'[i])
    BY <2>4, <2>6, <2>7, ExpressionsAssumption, MaxEvalsAssumption DEF ExprInv, ExprTypeOK
  <2> QED
    BY <2>1, <2>8, DiscardInv
<1>7. CASE Reset
  <2>1. tape' = loaded /\ Discard
    BY <1>7 DEF Reset
  <2>2. /\ loaded \in Seq(TypedValue) /\ (\A k \in 1 .. Len(loaded) : Fits(loaded[k])) /\ MaxEvals \in Nat
    BY ExpressionsAssumption, MaxEvalsAssumption DEF ExprInv, ExprTypeOK
  <2>3. Len(loaded) <= Len(loaded) + MaxEvals
    BY <2>2
  <2> QED
    BY <2>1, <2>2, <2>3, DiscardInv
<1>8. CASE UNCHANGED exprVars
  BY <1>8 DEF exprVars, ExprInv, ExprTypeOK
<1> QED
  BY <1>1, <1>2, <1>3, <1>4, <1>5, <1>6, <1>7, <1>8 DEF ExprNext

LEMMA ExprInvariant == ExprSpec => []ExprInv
BY ExprInitInv, ExprStepInv, PTL DEF ExprSpec

\* In every session, whatever is composed and bound, the tape holds typed values
\* that fit their types: no let stores what its type cannot hold.
THEOREM TapeIsTyped == ExprSpec => []ExprTypeOK
<1>1. ExprInv => ExprTypeOK
  BY DEF ExprInv
<1> QED
  BY <1>1, ExprInvariant, PTL

\* Of every expression that the program can be given, on every tape: the type
\* that the planners and eval_binding infer is the only one at which eval_expr
\* yields a value, and the value fits it.
THEOREM InferenceIsSound == ExprSpec => []InferredIsEvaluated
<1>1. ASSUME ExprInv, NEW k \in 1 .. Len(stack), NEW ty \in Type, stack[k].out[ty].err = "Ok"
      PROVE  stack[k].ty = ty /\ stack[k].out[ty].v \in Values(ty)
  <2> DEFINE x == stack[k]
             m == meant[k]
  <2>1. Answers(x, m) /\ x.out[ty].err = "Ok"
    BY <1>1 DEF ExprInv
  <2> HIDE DEF x, m
  <2>2. Fits(m) /\ m.ty = ty /\ x.ty = ty /\ x.out[ty] = Ok(m.v)
    BY <2>1, AnswersOk
  <2>3. x.out[ty].v \in Values(ty)
    BY <2>2, FittingIsTyped DEF Ok
  <2> QED
    BY <2>2, <2>3 DEF x
<1>2. ExprInv => InferredIsEvaluated
  BY <1>1 DEF InferredIsEvaluated
<1> QED
  BY <1>2, ExprInvariant, PTL

\* Of every expression, with types of every width: evaluating it yields its
\* result over unbounded integers, and fails exactly when it has none, but for
\* the two cases of Departs, a floor by a negative divisor and an unsigned value
\* cast to a signed type that cannot hold it, where it yields what GivenInstead
\* says (apply_div_floor, apply_cast of value_ops.rs).
THEOREM EvaluationGivesMeaning == ExprSpec => []EvalIsMeaning
<1>1. ASSUME ExprInv, NEW k \in 1 .. Len(stack)
      PROVE  LET x == stack[k]
                 m == meant[k]
             IN IF m = None THEN x.ty = "none" \/ x.out[x.ty].err # "Ok"
                ELSE m.ty = x.ty /\ x.out[m.ty] = Ok(m.v)
  <2> DEFINE x == stack[k]
             m == meant[k]
  <2>1. Answers(x, m)
    BY <1>1 DEF ExprInv
  <2> HIDE DEF x, m
  <2>2. m # None => m.ty = x.ty /\ x.out[m.ty] = Ok(m.v)
    BY <2>1, AnswersAt
  <2>3. m = None => x.ty = "none" \/ x.out[x.ty].err # "Ok"
    BY <2>1 DEF Answers
  <2> QED
    BY <2>2, <2>3 DEF x, m
<1>2. ExprInv => EvalIsMeaning
  BY <1>1 DEF EvalIsMeaning
<1> QED
  BY <1>2, ExprInvariant, PTL

-----------------------------------------------------------------------------
(* Sequences of bytes.                                                     *)

\* The first n elements of a sequence, and the others.
LEMMA LeadingProperties ==
  ASSUME NEW S, NEW s \in Seq(S), NEW n \in 0 .. Len(s)
  PROVE  /\ Leading(s, n) \in Seq(S) /\ Len(Leading(s, n)) = n
         /\ \A k \in 1 .. n : Leading(s, n)[k] = s[k]
<1>1. \A k \in 1 .. n : s[k] \in S
  BY LenProperties, ElementOfSeq
<1>2. Leading(s, n) \in [1 .. n -> S] /\ n \in Nat
  BY <1>1, LenProperties DEF Leading
<1>3. Leading(s, n) \in Seq(S) /\ Len(Leading(s, n)) = n
  BY <1>2, SeqDef, LenProperties
<1> QED
  BY <1>3 DEF Leading

LEMMA BehindProperties ==
  ASSUME NEW S, NEW s \in Seq(S), NEW n \in 0 .. Len(s)
  PROVE  /\ Behind(s, n) \in Seq(S) /\ Len(Behind(s, n)) = Len(s) - n
         /\ \A k \in 1 .. Len(s) - n : Behind(s, n)[k] = s[k + n]
<1>1. Len(s) \in Nat /\ Len(s) - n \in Nat
  BY LenProperties
<1>2. \A k \in 1 .. Len(s) - n : k + n \in 1 .. Len(s)
  BY <1>1
<1>3. \A k \in 1 .. Len(s) - n : s[k + n] \in S
  BY <1>2, ElementOfSeq
<1>4. Behind(s, n) \in [1 .. Len(s) - n -> S]
  BY <1>3 DEF Behind
<1>5. Behind(s, n) \in Seq(S) /\ Len(Behind(s, n)) = Len(s) - n
  BY <1>1, <1>4, SeqDef, LenProperties
<1> QED
  BY <1>5 DEF Behind

-----------------------------------------------------------------------------
(* Numbers of bytes.                                                       *)

LEMMA PowerIs ==
  /\ Power[0] = 1
  /\ \A k \in 1 .. MaxWidth : Power[k] = Base * Power[k - 1]
  /\ \A k \in 0 .. MaxWidth : Power[k] \in Nat \ {0}
<1> DEFINE S == Nat \ {0}
           I == [k \in 0 .. MaxWidth |-> S]
           step == [p \in (1 .. MaxWidth) \X S |-> Base * p[2]]
           Solves(g) == g = [k \in 0 .. MaxWidth |-> IF k = 0 THEN 1 ELSE Base * g[k - 1]]
<1>1. \A k \in 0 .. MaxWidth : I[k] = S
  OBVIOUS
<1>2. \A k \in 1 .. MaxWidth : \A u \in S : step[<<k, u>>] = Base * u
  OBVIOUS
<1> HIDE DEF step, I
<1>3. MaxWidth \in Nat /\ 0 \in 0 .. MaxWidth /\ \A k \in 1 .. MaxWidth : k \in 0 .. MaxWidth /\ k - 1 \in 0 .. MaxWidth
  BY DEF MaxWidth
<1>4. \A u \in S : Base * u \in S
  <2>1. Base \in Nat /\ Base > 0
    BY WireAssumption
  <2>2. ASSUME NEW u \in S PROVE Base * u \in S
    <3>1. u \in Nat /\ u >= 1
      OBVIOUS
    <3> HIDE DEF S
    <3>2. Base * u \in Nat
      BY <2>1, <3>1
    <3>3. Base * u >= u
      BY <2>1, <3>1, TimesAtLeast
    <3> QED
      BY <3>1, <3>2, <3>3 DEF S
  <2> QED
    BY <2>2
<1>5. 1 \in S
  OBVIOUS
<1> HIDE DEF S
<1>6. PICK f : Iterates(f, MaxWidth, I, 1, step)
  <2>1. ASSUME NEW k \in 1 .. MaxWidth, NEW u \in I[k - 1] PROVE step[<<k, u>>] \in I[k]
    <3>1. u \in S
      BY <1>1, <1>3
    <3> QED
      BY <1>1, <1>2, <1>3, <1>4, <3>1
  <2>2. 1 \in I[0]
    BY <1>1, <1>3, <1>5
  <2> QED
    BY <1>3, <2>1, <2>2, Iteration
<1>7. \A k \in 0 .. MaxWidth : f[k] = IF k = 0 THEN 1 ELSE Base * f[k - 1]
  <2> TAKE k \in 0 .. MaxWidth
  <2>1. CASE k # 0
    <3>1. k \in 1 .. MaxWidth
      BY <2>1
    <3>2. f[k - 1] \in S /\ f[k] = step[<<k, f[k - 1]>>]
      BY <1>1, <1>3, <1>6, <3>1 DEF Iterates
    <3> QED
      BY <1>2, <2>1, <3>1, <3>2
  <2> QED
    BY <1>6, <2>1 DEF Iterates
<1>8. Solves(f)
  <2>1. f = [k \in 0 .. MaxWidth |-> f[k]]
    BY <1>6 DEF Iterates
  <2> QED
    BY <1>7, <2>1, Zenon
<1>9. Solves(Power)
  BY <1>8 DEF Power
<1>10. Power[0] = 1 /\ \A k \in 1 .. MaxWidth : Power[k] = Base * Power[k - 1]
  BY <1>3, <1>9
<1> DEFINE P == {k \in 0 .. MaxWidth : Power[k] \in S}
<1>11. 0 \in P /\ \A k \in 1 .. MaxWidth : k - 1 \in P => k \in P
  BY <1>3, <1>4, <1>5, <1>10
<1>12. \A k \in 0 .. MaxWidth : k \in P
  <2> HIDE DEF P
  <2> QED
    BY <1>3, <1>11, NatInduct
<1> QED
  BY <1>10, <1>12 DEF S

\* h[k] is the number of the last k bytes of d.
Highs(h, d) ==
  /\ Number(d) = h[Len(d)] /\ h[0] = 0
  /\ \A k \in 0 .. Len(d) : h[k] \in 0 .. Power[k] - 1
  /\ \A k \in 1 .. Len(d) : h[k] = h[k - 1] * Base + d[Len(d) + 1 - k]

LEMMA NumberRecursion ==
  ASSUME NEW d \in Seq(Byte), Len(d) \in 0 .. MaxWidth
  PROVE  \E h : Highs(h, d)
<1> DEFINE n == Len(d)
           I == [k \in 0 .. n |-> 0 .. Power[k] - 1]
           step == [p \in (1 .. n) \X Nat |-> p[2] * Base + d[n + 1 - p[1]]]
           E(g) == g = [k \in 0 .. n |-> IF k = 0 THEN 0 ELSE g[k - 1] * Base + d[n + 1 - k]]
           high == CHOOSE g : E(g)
<1>1. n \in Nat /\ n <= MaxWidth /\ MaxWidth \in Nat /\ Base \in Nat /\ Base > 68
  <2>1. MaxWidth \in Nat
    BY DEF MaxWidth
  <2>2. n \in 0 .. MaxWidth
    OBVIOUS
  <2>3. Base \in Nat /\ Base > 68
    BY WireAssumption
  <2> HIDE DEF n
  <2> QED
    BY <2>1, <2>2, <2>3
<1>2. \A k \in 1 .. n : n + 1 - k \in 1 .. n /\ d[n + 1 - k] \in 0 .. Base - 1
  <2> TAKE k \in 1 .. n
  <2>1. n + 1 - k \in 1 .. n
    BY <1>1
  <2> QED
    BY <2>1, ElementOfSeq DEF Byte
<1>3. \A k \in 0 .. n : I[k] = 0 .. Power[k] - 1 /\ Power[k] \in Nat \ {0}
  BY <1>1, PowerIs
<1>4. \A k \in 1 .. n : \A u \in Nat : step[<<k, u>>] = u * Base + d[n + 1 - k]
  OBVIOUS
<1>5. Number(d) = high[n]
  BY DEF Number
<1> HIDE DEF n, I, step
<1>6. ASSUME NEW k \in 1 .. n, NEW u \in I[k - 1]
      PROVE  u \in Nat /\ u * Base + d[n + 1 - k] \in I[k]
  <2>1. k - 1 \in 0 .. n /\ k \in 0 .. n /\ k \in 1 .. MaxWidth
    BY <1>1
  <2>2. Power[k - 1] \in Nat /\ Power[k] = Base * Power[k - 1] /\ u \in 0 .. Power[k - 1] - 1
    BY <1>3, <2>1, PowerIs
  <2> DEFINE m == Power[k - 1]
             c == d[n + 1 - k]
  <2>3. m \in Nat /\ u \in Nat /\ u <= m - 1 /\ c \in Nat /\ c <= Base - 1
    BY <1>2, <2>2
  <2>4. (m - 1 - u) * Base >= 0 /\ (m - 1 - u) * Base = Base * m - Base - u * Base
    <3> HIDE DEF m
    <3> QED
      BY <1>1, <2>3
  <2>5. u * Base \in Nat /\ Base * m \in Nat
    <3> HIDE DEF m
    <3> QED
      BY <1>1, <2>3
  <2>6. u * Base + c \in 0 .. Base * m - 1
    <3> HIDE DEF m, c
    <3> QED
      BY <1>1, <2>3, <2>4, <2>5
  <2> QED
    BY <1>3, <2>1, <2>2, <2>3, <2>6
<1>7. 0 \in I[0]
  BY <1>1, <1>3, PowerIs
<1>8. PICK f : Iterates(f, n, I, 0, step)
  <2>1. ASSUME NEW k \in 1 .. n, NEW u \in I[k - 1] PROVE step[<<k, u>>] \in I[k]
    BY <1>4, <1>6
  <2> QED
    BY <1>1, <1>7, <2>1, Iteration
<1>9. E(f)
  <2>1. f = [k \in 0 .. n |-> f[k]] /\ f[0] = 0
    BY <1>8 DEF Iterates
  <2>2. ASSUME NEW k \in 1 .. n PROVE f[k] = f[k - 1] * Base + d[n + 1 - k]
    <3>1. k - 1 \in 0 .. n
      BY <1>1
    <3>2. f[k - 1] \in I[k - 1] /\ f[k] = step[<<k, f[k - 1]>>]
      BY <1>8, <3>1 DEF Iterates
    <3> QED
      BY <1>4, <1>6, <3>2
  <2>3. ASSUME NEW k \in 0 .. n PROVE f[k] = IF k = 0 THEN 0 ELSE f[k - 1] * Base + d[n + 1 - k]
    <3>1. k # 0 => k \in 1 .. n
      BY <1>1
    <3> QED
      BY <2>1, <2>2, <3>1
  <2> QED
    BY <2>1, <2>3, Zenon
<1>10. E(high)
  BY <1>9
<1> HIDE DEF high
<1> DEFINE P == {k \in 0 .. n : high[k] \in I[k]}
<1>11. 0 \in P /\ \A k \in 1 .. n : k - 1 \in P => k \in P
  <2>1. ASSUME NEW k \in 0 .. n PROVE high[k] = IF k = 0 THEN 0 ELSE high[k - 1] * Base + d[n + 1 - k]
    BY <1>10
  <2> HIDE DEF E
  <2> QED
    BY <1>1, <1>6, <1>7, <2>1
<1>12. \A k \in 0 .. n : k \in P
  <2> HIDE DEF P
  <2> QED
    BY <1>1, <1>11, NatInduct
<1>13. /\ high[n] = Number(d) /\ high[0] = 0
       /\ \A k \in 0 .. n : high[k] \in 0 .. Power[k] - 1
       /\ \A k \in 1 .. n : high[k] = high[k - 1] * Base + d[n + 1 - k]
  <2>1. ASSUME NEW k \in 0 .. n PROVE high[k] = IF k = 0 THEN 0 ELSE high[k - 1] * Base + d[n + 1 - k]
    BY <1>10
  <2>2. 0 \in 0 .. n /\ \A k \in 1 .. n : k \in 0 .. n /\ k # 0
    BY <1>1
  <2> HIDE DEF E
  <2> QED
    BY <1>3, <1>5, <1>12, <2>1, <2>2
<1> QED
  BY <1>13 DEF Highs, n

\* The number of k bytes is below Base^k.
LEMMA NumberIs ==
  ASSUME NEW d \in Seq(Byte), Len(d) \in 0 .. MaxWidth
  PROVE  Number(d) \in 0 .. Power[Len(d)] - 1
<1>1. PICK h : Highs(h, d)
  BY NumberRecursion
<1>2. Len(d) \in 0 .. Len(d)
  <2>1. MaxWidth \in Nat
    BY DEF MaxWidth
  <2> QED
    BY <2>1
<1> QED
  BY <1>1, <1>2 DEF Highs

-----------------------------------------------------------------------------
(* Readers.                                                                *)

\* What a reader of elements of S answers.
Reading(S) ==
  {Stop("UnexpectedEof"), Stop("InvalidData")} \cup {Read(v, rest) : v \in S, rest \in Seq(Byte)}

LEMMA ReadFieldsOf ==
  ASSUME NEW v, NEW rest
  PROVE  Read(v, rest).err = "Ok" /\ Read(v, rest).v = v /\ Read(v, rest).rest = rest
BY DEF Read

LEMMA ReadingCases ==
  ASSUME NEW S, NEW r \in Reading(S)
  PROVE  IF r.err = "Ok" THEN r.v \in S /\ r.rest \in Seq(Byte) /\ r = Read(r.v, r.rest)
         ELSE r \in {Stop("UnexpectedEof"), Stop("InvalidData")}
<1>1. CASE \E v \in S, rest \in Seq(Byte) : r = Read(v, rest)
  BY <1>1, ReadFieldsOf
<1>2. CASE r \in {Stop("UnexpectedEof"), Stop("InvalidData")}
  BY <1>2 DEF Stop
<1> QED
  BY <1>1, <1>2 DEF Reading

LEMMA ReadingMore ==
  ASSUME NEW S, NEW T, S \subseteq T
  PROVE  Reading(S) \subseteq Reading(T)
BY DEF Reading

LEMMA ReadIsReading ==
  ASSUME NEW S, NEW v \in S, NEW rest \in Seq(Byte)
  PROVE  Read(v, rest) \in Reading(S)
BY DEF Reading

LEMMA StopIsReading ==
  ASSUME NEW S, NEW r \in {Stop("UnexpectedEof"), Stop("InvalidData")}
  PROVE  r \in Reading(S) /\ r.err # "Ok"
BY DEF Reading, Stop

\* What is read after d.
LEMMA ReadAfter ==
  ASSUME NEW S, NEW T, NEW d \in Reading(S), NEW x, NEW r, r = IF d.err = "Ok" THEN x ELSE d,
         d.err = "Ok" /\ d.v \in S /\ d.rest \in Seq(Byte) => x \in Reading(T)
  PROVE  r \in Reading(T)
<1>1. CASE d.err = "Ok"
  BY <1>1, ReadingCases
<1>2. CASE d.err # "Ok"
  <2>1. d \in {Stop("UnexpectedEof"), Stop("InvalidData")}
    BY <1>2, ReadingCases
  <2> QED
    BY <1>2, <2>1, StopIsReading
<1> QED
  BY <1>1, <1>2

\* The k-th reader goes on with u, what those before it read; read[k] is what
\* the first k of them read.
GoesOn(readers, k, u) ==
  Then(u, LAMBDA vs, rest : Then(readers[k][rest], LAMBDA v, r : Read(Append(vs, v), r)))
ReadsEach(S, readers, b, read) ==
  /\ ReadEach(readers, b) = read[Len(readers)] /\ read[0] = Read(<< >>, b)
  /\ \A k \in 1 .. Len(readers) : read[k] = GoesOn(readers, k, read[k - 1])
  /\ \A k \in 0 .. Len(readers) : read[k] \in Reading({vs \in Seq(S) : Len(vs) = k})

LEMMA ReadEachRecursion ==
  ASSUME NEW S, NEW readers, Len(readers) \in Nat, NEW b \in Seq(Byte),
         \A k \in 1 .. Len(readers) : \A r \in Seq(Byte) : readers[k][r] \in Reading(S)
  PROVE  \E read : ReadsEach(S, readers, b, read)
<1> DEFINE n == Len(readers)
           L(k) == {vs \in Seq(S) : Len(vs) = k}
           I == [k \in 0 .. n |-> Reading(L(k))]
           U == Reading(Seq(S))
           After(k, u) == Then(u, LAMBDA vs, rest :
                            Then(readers[k][rest], LAMBDA v, r : Read(Append(vs, v), r)))
           step == [p \in (1 .. n) \X U |-> After(p[1], p[2])]
           E(g) == g = [k \in 0 .. n |-> IF k = 0 THEN Read(<< >>, b) ELSE After(k, g[k - 1])]
           read == CHOOSE g : E(g)
<1>1. n \in Nat
  OBVIOUS
<1>2. ReadEach(readers, b) = read[n]
  BY DEF ReadEach
<1>3. \A k \in 1 .. n : \A u \in U : step[<<k, u>>] = After(k, u)
  <2> HIDE DEF After, U
  <2> QED
    OBVIOUS
<1>4. \A k \in 0 .. n : I[k] = Reading(L(k))
  OBVIOUS
<1>5. \A k \in Nat : Reading(L(k)) \subseteq U
  BY DEF Reading
<1>6. ASSUME NEW k \in 1 .. n, NEW u \in Reading(L(k - 1)) PROVE After(k, u) \in Reading(L(k))
  <2>1. CASE u.err # "Ok"
    <3>1. After(k, u) = u
      BY <2>1 DEF Then
    <3>2. u \in {Stop("UnexpectedEof"), Stop("InvalidData")}
      <4> HIDE DEF L
      <4> QED
        BY <2>1, ReadingCases
    <3> HIDE DEF L, After
    <3> QED
      BY <3>1, <3>2, StopIsReading
  <2>2. CASE u.err = "Ok"
    <3> DEFINE d == readers[k][u.rest]
    <3>1. After(k, u) = IF d.err = "Ok" THEN Read(Append(u.v, d.v), d.rest) ELSE d
      BY <2>2 DEF Then
    <3>2. u.v \in L(k - 1) /\ u.rest \in Seq(Byte)
      <4> HIDE DEF L
      <4> QED
        BY <2>2, ReadingCases
    <3>3. d \in Reading(S)
      BY <3>2
    <3> HIDE DEF d, After
    <3>4. CASE d.err = "Ok"
      <4>1. d.v \in S /\ d.rest \in Seq(Byte)
        BY <3>3, <3>4, ReadingCases
      <4>2. Append(u.v, d.v) \in Seq(S) /\ Len(Append(u.v, d.v)) = (k - 1) + 1
        BY <3>2, <4>1
      <4>3. Append(u.v, d.v) \in L(k)
        BY <4>2
      <4> HIDE DEF L
      <4> QED
        BY <3>1, <3>4, <4>1, <4>3, ReadIsReading
    <3>5. CASE d.err # "Ok"
      <4> HIDE DEF L
      <4> QED
        BY <3>1, <3>3, <3>5, ReadingCases, StopIsReading
    <3> QED
      BY <3>4, <3>5
  <2> QED
    BY <2>1, <2>2
<1>7. Read(<< >>, b) \in Reading(L(0))
  <2>1. << >> \in L(0)
    OBVIOUS
  <2> HIDE DEF L
  <2> QED
    BY <2>1, ReadIsReading
<1> HIDE DEF L, After, U, I, step, n
<1>8. 0 \in 0 .. n /\ n \in 0 .. n /\ \A k \in 1 .. n : k \in 0 .. n /\ k - 1 \in 0 .. n /\ k - 1 \in Nat
  BY <1>1
<1>9. PICK f : Iterates(f, n, I, Read(<< >>, b), step)
  <2>1. ASSUME NEW k \in 1 .. n, NEW u \in I[k - 1] PROVE step[<<k, u>>] \in I[k]
    <3>1. u \in Reading(L(k - 1)) /\ u \in U
      BY <1>4, <1>5, <1>8
    <3> QED
      BY <1>3, <1>4, <1>6, <1>8, <3>1
  <2>2. Read(<< >>, b) \in I[0]
    BY <1>4, <1>7, <1>8
  <2> QED
    BY <1>1, <2>1, <2>2, Iteration
<1>10. E(f)
  <2>1. f = [k \in 0 .. n |-> f[k]] /\ f[0] = Read(<< >>, b)
    BY <1>9 DEF Iterates
  <2>2. ASSUME NEW k \in 1 .. n PROVE f[k] = After(k, f[k - 1])
    <3>1. f[k - 1] \in Reading(L(k - 1)) /\ f[k] = step[<<k, f[k - 1]>>]
      BY <1>4, <1>8, <1>9 DEF Iterates
    <3> QED
      BY <1>3, <1>5, <1>8, <3>1
  <2>3. ASSUME NEW k \in 0 .. n PROVE f[k] = IF k = 0 THEN Read(<< >>, b) ELSE After(k, f[k - 1])
    <3>1. k # 0 => k \in 1 .. n
      BY <1>1
    <3> QED
      BY <2>1, <2>2, <3>1
  <2> QED
    BY <2>1, <2>3, Zenon
<1>11. E(read)
  BY <1>10
<1> HIDE DEF read
<1> DEFINE P == {k \in 0 .. n : read[k] \in Reading(L(k))}
<1>12. 0 \in P /\ \A k \in 1 .. n : k - 1 \in P => k \in P
  <2>1. ASSUME NEW k \in 0 .. n PROVE read[k] = IF k = 0 THEN Read(<< >>, b) ELSE After(k, read[k - 1])
    BY <1>11
  <2> HIDE DEF E
  <2> QED
    BY <1>6, <1>7, <1>8, <2>1
<1>13. \A k \in 0 .. n : k \in P
  <2> HIDE DEF P
  <2> QED
    BY <1>1, <1>12, NatInduct
<1>14. read[0] = Read(<< >>, b) /\ \A k \in 1 .. n : read[k] = After(k, read[k - 1])
  <2>1. ASSUME NEW k \in 0 .. n PROVE read[k] = IF k = 0 THEN Read(<< >>, b) ELSE After(k, read[k - 1])
    BY <1>11
  <2>2. \A k \in 1 .. n : k # 0
    BY <1>1
  <2> HIDE DEF E
  <2> QED
    BY <1>8, <2>1, <2>2
<1>15. \A k \in 1 .. n : read[k] = GoesOn(readers, k, read[k - 1])
  BY <1>14 DEF After, GoesOn
<1>16. ReadsEach(S, readers, b, read)
  BY <1>2, <1>13, <1>14, <1>15 DEF n, L, ReadsEach
<1> QED
  BY <1>16

\* Readers in a row read a list, of as many elements.
LEMMA ReadEachTyped ==
  ASSUME NEW S, NEW readers, Len(readers) \in Nat, NEW b \in Seq(Byte),
         \A k \in 1 .. Len(readers) : \A r \in Seq(Byte) : readers[k][r] \in Reading(S)
  PROVE  ReadEach(readers, b) \in Reading({vs \in Seq(S) : Len(vs) = Len(readers)})
<1>1. PICK read : ReadsEach(S, readers, b, read)
  BY ReadEachRecursion
<1>2. Len(readers) \in 0 .. Len(readers)
  OBVIOUS
<1> QED
  BY <1>1, <1>2 DEF ReadsEach

LEMMA ReadByteTyped ==
  ASSUME NEW b \in Seq(Byte)
  PROVE  /\ ReadByte(b) \in Reading(Byte)
         /\ ReadByte(b).err = "Ok" => Len(ReadByte(b).rest) < Len(b)
<1>1. CASE b = << >>
  <2>1. ReadByte(b) = Stop("UnexpectedEof")
    BY <1>1 DEF ReadByte
  <2> QED
    BY <2>1, StopIsReading
<1>2. CASE b # << >>
  <2>1. 1 \in 0 .. Len(b) /\ 1 \in 1 .. Len(b) /\ Len(b) \in Nat
    BY <1>2
  <2>2. ReadByte(b) = Read(b[1], Behind(b, 1))
    BY <1>2 DEF ReadByte
  <2>3. Behind(b, 1) \in Seq(Byte) /\ Len(Behind(b, 1)) = Len(b) - 1
    BY <2>1, BehindProperties
  <2>4. b[1] \in Byte
    BY <2>1, ElementOfSeq
  <2> QED
    BY <2>1, <2>2, <2>3, <2>4, ReadIsReading, ReadFieldsOf
<1> QED
  BY <1>1, <1>2

LEMMA ReadTagTyped ==
  ASSUME NEW n \in Nat, NEW b \in Seq(Byte)
  PROVE  /\ ReadTag(n, b) \in Reading(0 .. n - 1)
         /\ ReadTag(n, b).err = "Ok" => Len(ReadTag(n, b).rest) < Len(b)
<1> DEFINE r == ReadByte(b)
<1>1. ReadTag(n, b) = IF r.err = "Ok" THEN IF r.v < n THEN Read(r.v, r.rest) ELSE Stop("InvalidData") ELSE r
  BY DEF ReadTag, Then
<1>2. r \in Reading(Byte) /\ (r.err = "Ok" => Len(r.rest) < Len(b))
  BY ReadByteTyped
<1> HIDE DEF r
<1>3. IF r.err = "Ok" THEN r.v \in Byte /\ r.rest \in Seq(Byte)
      ELSE r \in {Stop("UnexpectedEof"), Stop("InvalidData")}
  BY <1>2, ReadingCases
<1>4. CASE r.err = "Ok" /\ r.v < n
  <2>1. ReadTag(n, b) = Read(r.v, r.rest)
    BY <1>1, <1>4
  <2>2. r.v \in 0 .. n - 1
    <3>1. Base \in Nat
      BY WireAssumption
    <3>2. r.v \in 0 .. Base - 1
      BY <1>3, <1>4 DEF Byte
    <3> QED
      BY <1>4, <3>1, <3>2
  <2>3. r.rest \in Seq(Byte)
    BY <1>3, <1>4
  <2>4. Read(r.v, r.rest) \in Reading(0 .. n - 1)
    BY <2>2, <2>3, ReadIsReading
  <2> QED
    BY <1>2, <1>4, <2>1, <2>4, ReadFieldsOf
<1>5. CASE ~ (r.err = "Ok" /\ r.v < n)
  <2>1. ReadTag(n, b) \in {Stop("UnexpectedEof"), Stop("InvalidData")}
    BY <1>1, <1>3, <1>5
  <2> QED
    BY <2>1, StopIsReading
<1> QED
  BY <1>4, <1>5

\* A byte string's number, with the sign of its type, is a value of the type.
LEMMA FromDigitsTyped ==
  ASSUME NEW ty \in Type, NEW d \in Seq(Byte), Len(d) = Width[ty], Readable(ty, FromDigits(ty, d))
  PROVE  FromDigits(ty, d) \in Values(ty)
<1> DEFINE n == Number(d)
           all == Power[Len(d)]
<1>1. Width[ty] \in 1 .. MaxWidth /\ MaxWidth \in Nat
  BY WireAssumption DEF MaxWidth
<1>2. Len(d) \in 0 .. MaxWidth
  BY <1>1
<1>3. n \in 0 .. all - 1 /\ all \in Nat \ {0}
  BY <1>2, NumberIs, PowerIs
<1>4. FromDigits(ty, d) = IF ty \in Signed \cup Float /\ n >= all \div 2 THEN n - all ELSE n
  BY DEF FromDigits
<1>5. CASE ty = "Bool"
  <2>1. FromDigits(ty, d) \in 0 .. 1
    BY <1>5 DEF Readable, Float
  <2>2. Modulus["Bool"] = 2
    BY OperatorsAssumption
  <2> QED
    BY <1>5, <2>1, <2>2 DEF Values, Low, High, Float, Signed, WideSigned
<1>6. CASE ty \in Float
  BY <1>6 DEF Readable, Values, Float
<1>7. CASE ty \in Int_ \cup {"Pubkey"}
  <2>1. Modulus[ty] = all
    BY <1>7, WireAssumption
  <2>2. CASE ty \in Signed
    <3>1. Low(ty) \in Int /\ all = - 2 * Low(ty) /\ Values(ty) = Low(ty) .. - Low(ty) - 1
      BY <2>1, <2>2, SignedBounds
    <3>2. FromDigits(ty, d) = IF n >= all \div 2 THEN n - all ELSE n
      BY <1>4, <2>2
    <3> HIDE DEF n, all
    <3>3. all \div 2 = - Low(ty)
      BY <3>1
    <3> QED
      BY <1>3, <3>1, <3>2, <3>3, SMTT(20)
  <2>3. CASE ty \notin Signed
    <3>1. ty \notin Float /\ Values(ty) = 0 .. Modulus[ty] - 1
      BY <1>7, <2>3 DEF Values, Low, High, Int_, Unsigned, Signed, WideSigned, Float
    <3> QED
      BY <1>3, <1>4, <2>1, <2>3, <3>1
  <2> QED
    BY <2>2, <2>3
<1> QED
  BY <1>5, <1>6, <1>7 DEF Type, Ordered

LEMMA ReadNumberTyped ==
  ASSUME NEW ty \in Type, NEW b \in Seq(Byte)
  PROVE  /\ ReadNumber(ty, b) \in Reading(Values(ty))
         /\ ReadNumber(ty, b).err = "Ok" => Len(ReadNumber(ty, b).rest) < Len(b)
<1> DEFINE w == Width[ty]
           d == Leading(b, w)
           r == Behind(b, w)
           n == FromDigits(ty, d)
<1>1. w \in Nat /\ w >= 1 /\ Len(b) \in Nat
  BY WireAssumption, LenProperties
<1> HIDE DEF w
<1>2. CASE Len(b) < w
  <2>1. ReadNumber(ty, b) = Stop("UnexpectedEof")
    BY <1>2 DEF ReadNumber, w
  <2> QED
    BY <2>1, StopIsReading
<1>3. CASE ~ (Len(b) < w)
  <2>1. w \in 0 .. Len(b)
    BY <1>1, <1>3
  <2>2. d \in Seq(Byte) /\ Len(d) = w /\ r \in Seq(Byte) /\ Len(r) = Len(b) - w
    BY <2>1, LeadingProperties, BehindProperties
  <2>3. ReadNumber(ty, b) = IF Readable(ty, n) THEN Read(n, r) ELSE Stop("InvalidData")
    BY <1>3 DEF ReadNumber, w
  <2> HIDE DEF d, r
  <2>4. Readable(ty, n) => n \in Values(ty)
    BY <2>2, FromDigitsTyped DEF w
  <2> HIDE DEF n
  <2>5. Len(r) < Len(b)
    BY <1>1, <2>2
  <2>6. CASE Readable(ty, n)
    <3>1. Read(n, r) \in Reading(Values(ty))
      BY <2>2, <2>4, <2>6, ReadIsReading
    <3> QED
      BY <2>3, <2>5, <2>6, <3>1, ReadFieldsOf
  <2>7. CASE ~ Readable(ty, n)
    BY <2>3, <2>7, StopIsReading
  <2> QED
    BY <2>6, <2>7
<1> QED
  BY <1>2, <1>3

-----------------------------------------------------------------------------
(* Reading expressions.                                                    *)

Operation == UnaryOp \cup BinaryOp \cup TernaryOp

Nodes ==
  {x \in [op : Operation \cup {"As", "Const", "Value"}, ty : Type \cup {"none"}, v : Int] :
     /\ x.op = "Const" => x.ty \in Type /\ x.v \in Values(x.ty)
     /\ x.op = "Value" => x.v \in Nat
     /\ x.op \notin {"Const", "Value"} => Applies(Arity(x.op), x.op, x.ty)}

VariantKeys ==
  ((Operation \cup {"Value"}) \X {"none"}) \cup ({"Const"} \X Type) \cup ({"As"} \X Int_)

LEMMA ArityIs ==
  /\ \A op \in UnaryOp \cup {"As"} : Arity(op) = 1
  /\ \A op \in BinaryOp : Arity(op) = 2
  /\ \A op \in TernaryOp : Arity(op) = 3
  /\ Arity("Const") = 0 /\ Arity("Value") = 0
  /\ "Const" \notin Operation \cup {"As"} /\ "Value" \notin Operation \cup {"As"}
BY DEF Arity, Operation, UnaryOp, BinaryOp, TernaryOp, Numeric, Arith, Compare, Logic, Bps, MulDiv

\* The parts of the table of variants.
LEMMA UntypedIs ==
  ASSUME NEW ops \in Seq(Operation \cup {"Value"})
  PROVE  Untyped(ops) \in Seq(VariantKeys)
<1>1. Len(ops) \in Nat /\ DOMAIN ops = 1 .. Len(ops)
  BY LenProperties
<1>2. \A k \in 1 .. Len(ops) : <<ops[k], "none">> \in VariantKeys
  BY ElementOfSeq DEF VariantKeys
<1>3. Untyped(ops) \in [1 .. Len(ops) -> VariantKeys]
  BY <1>1, <1>2 DEF Untyped
<1> QED
  BY <1>1, <1>3, SeqDef

LEMMA TypedIs ==
  ASSUME NEW op, NEW tys, tys \in Seq(Type), op = "Const" \/ (op = "As" /\ tys \in Seq(Int_))
  PROVE  Typed(op, tys) \in Seq(VariantKeys)
<1>1. Len(tys) \in Nat /\ DOMAIN tys = 1 .. Len(tys)
  BY LenProperties
<1>2. \A k \in 1 .. Len(tys) : <<op, tys[k]>> \in VariantKeys
  BY ElementOfSeq DEF VariantKeys
<1>3. Typed(op, tys) \in [1 .. Len(tys) -> VariantKeys]
  BY <1>1, <1>2 DEF Typed
<1> QED
  BY <1>1, <1>3, SeqDef

LEMMA TypesAre ==
  ConstTypes \in Seq(Type) /\ CastTypes \in Seq(Type) /\ CastTypes \in Seq(Int_)
<1>1. ConstTypes \in Seq(Type)
  BY DEF ConstTypes, Type, Ordered, Int_, Unsigned, Signed, WideSigned, Float
<1>2. CastTypes \in Seq(Type) /\ CastTypes \in Seq(Int_)
  BY DEF CastTypes, Type, Ordered, Int_, Unsigned, Signed, WideSigned, Float
<1> QED
  BY <1>1, <1>2

LEMMA VariantsTyped == Variants \in Seq(VariantKeys)
<1>1. <<"Value">> \in Seq(Operation \cup {"Value"})
  OBVIOUS
<1>2. <<"Not", "Neg", "IsZero", "NonZero">> \in Seq(Operation \cup {"Value"})
  BY DEF Operation, UnaryOp
<1>3. << "Add", "Sub", "Mul", "Div", "DivFloor", "DivCeil", "Min", "Max",
         "Eq", "Ne", "Gt", "Ge", "Lt", "Le", "SaturatingSub", "And", "Or",
         "BpsMulFloor", "BpsMulCeil", "MulDivFloor", "MulDivCeil",
         "Clamp", "Select" >> \in Seq(Operation \cup {"Value"})
  BY DEF Operation, BinaryOp, TernaryOp, Numeric, Arith, Compare, Logic, Bps, MulDiv
<1>4. <<<<"Const", "Pubkey">>>> \in Seq(VariantKeys)
  BY DEF VariantKeys, Type
<1> QED
  BY <1>1, <1>2, <1>3, <1>4, UntypedIs, TypedIs, TypesAre, ConcatProperties DEF Variants

LEMMA ReadNodeTyped ==
  ASSUME NEW b \in Seq(Byte)
  PROVE  /\ ReadNode(b) \in Reading(Nodes)
         /\ ReadNode(b).err = "Ok" => Len(ReadNode(b).rest) < Len(b)
<1> DEFINE t == ReadTag(Len(Variants), b)
           op == Variants[t.v + 1][1]
           ty == Variants[t.v + 1][2]
           i == ReadByte(t.rest)
           n == ReadNumber(ty, t.rest)
           r == ReadNode(b)
<1>1. r = IF t.err # "Ok" THEN t
          ELSE IF op = "Value" THEN IF i.err = "Ok" THEN Read(Node(op, ty, i.v), i.rest) ELSE i
          ELSE IF op = "Const" THEN IF n.err = "Ok" THEN Read(Node(op, ty, n.v), n.rest) ELSE n
          ELSE Read(Node(op, ty, 0), t.rest)
  BY SMTT(20) DEF ReadNode, Then
<1>2. Len(Variants) \in Nat
  BY VariantsTyped, LenProperties
<1>3. t \in Reading(0 .. Len(Variants) - 1) /\ (t.err = "Ok" => Len(t.rest) < Len(b))
  BY <1>2, ReadTagTyped
<1> HIDE DEF t
<1>4. CASE t.err # "Ok"
  <2>1. r \in {Stop("UnexpectedEof"), Stop("InvalidData")}
    BY <1>1, <1>3, <1>4, ReadingCases
  <2> HIDE DEF r
  <2> QED
    BY <2>1, StopIsReading DEF r
<1>5. CASE t.err = "Ok"
  <2>1. t.v \in 0 .. Len(Variants) - 1 /\ t.rest \in Seq(Byte) /\ Len(t.rest) < Len(b)
    BY <1>3, <1>5, ReadingCases
  <2>2. t.v + 1 \in 1 .. Len(Variants)
    BY <1>2, <2>1
  <2>3. Variants[t.v + 1] \in VariantKeys
    BY <2>2, VariantsTyped, ElementOfSeq
  <2>4. Variants[t.v + 1] = <<op, ty>>
    BY <2>3 DEF VariantKeys
  <2> HIDE DEF op, ty
  <2>5. \/ op \in Operation \cup {"Value"} /\ ty = "none"
        \/ op = "Const" /\ ty \in Type
        \/ op = "As" /\ ty \in Int_
    BY <2>3, <2>4 DEF VariantKeys
  <2>6. Len(b) \in Nat /\ Len(t.rest) \in Nat
    BY <2>1, LenProperties
  <2>7. ASSUME NEW v, NEW rest \in Seq(Byte), Len(rest) <= Len(t.rest),
               Node(op, ty, v) \in Nodes, r = Read(Node(op, ty, v), rest)
        PROVE  r \in Reading(Nodes) /\ (r.err = "Ok" => Len(r.rest) < Len(b))
    <3>1. r \in Reading(Nodes) /\ r.rest = rest
      BY <2>7, ReadIsReading, ReadFieldsOf
    <3>2. Len(rest) \in Nat
      BY <2>7, LenProperties
    <3> QED
      BY <2>1, <2>6, <2>7, <3>1, <3>2
  <2>8. CASE op = "Value"
    <3>1. i \in Reading(Byte) /\ (i.err = "Ok" => Len(i.rest) < Len(t.rest))
      BY <2>1, ReadByteTyped
    <3>2. r = IF i.err = "Ok" THEN Read(Node(op, ty, i.v), i.rest) ELSE i
      BY <1>1, <1>5, <2>8
    <3> HIDE DEF i, r
    <3>3. CASE i.err = "Ok"
      <4>1. i.v \in Byte /\ i.rest \in Seq(Byte)
        BY <3>1, <3>3, ReadingCases
      <4>2. i.v \in Nat
        BY <4>1, WireAssumption DEF Byte
      <4>3. Node(op, ty, i.v) \in Nodes
        BY <2>5, <2>8, <4>2, ArityIs DEF Nodes, Node
      <4>4. Len(i.rest) \in Nat /\ Len(i.rest) <= Len(t.rest)
        BY <2>6, <3>1, <3>3, <4>1, LenProperties
      <4> QED
        BY <2>7, <3>2, <3>3, <4>1, <4>3, <4>4 DEF r
    <3>4. CASE i.err # "Ok"
      BY <3>1, <3>2, <3>4, ReadingCases, StopIsReading DEF r
    <3> QED
      BY <3>3, <3>4
  <2>9. CASE op = "Const"
    <3>1. ty \in Type
      BY <2>5, <2>9, ArityIs
    <3>2. n \in Reading(Values(ty)) /\ (n.err = "Ok" => Len(n.rest) < Len(t.rest))
      BY <2>1, <3>1, ReadNumberTyped
    <3>3. r = IF n.err = "Ok" THEN Read(Node(op, ty, n.v), n.rest) ELSE n
      BY <1>1, <1>5, <2>9
    <3> HIDE DEF n, r
    <3>4. CASE n.err = "Ok"
      <4>1. n.v \in Values(ty) /\ n.rest \in Seq(Byte)
        BY <3>2, <3>4, ReadingCases
      <4>2. n.v \in Int
        BY <3>1, <4>1, ValuesAreIntegers
      <4>3. Node(op, ty, n.v) \in Nodes
        BY <2>9, <3>1, <4>1, <4>2 DEF Nodes, Node
      <4>4. Len(n.rest) \in Nat /\ Len(n.rest) <= Len(t.rest)
        BY <2>6, <3>2, <3>4, <4>1, LenProperties
      <4> QED
        BY <2>7, <3>3, <3>4, <4>1, <4>3, <4>4 DEF r
    <3>5. CASE n.err # "Ok"
      BY <3>2, <3>3, <3>5, ReadingCases, StopIsReading DEF r
    <3> QED
      BY <3>4, <3>5
  <2>10. CASE op \notin {"Value", "Const"}
    <3>1. r = Read(Node(op, ty, 0), t.rest)
      BY <1>1, <1>5, <2>10
    <3>2. Applies(Arity(op), op, ty) /\ op \in Operation \cup {"As"} /\ ty \in Type \cup {"none"}
      BY <2>5, <2>10, ArityIs DEF Applies, Operation, Type, Ordered
    <3>3. Node(op, ty, 0) \in Nodes
      BY <2>10, <3>2 DEF Nodes, Node
    <3> QED
      BY <2>1, <3>1, <3>3, ReadIsReading, ReadFieldsOf
  <2> QED
    BY <2>8, <2>9, <2>10
<1> QED
  BY <1>4, <1>5

\* e is n expressions one after the other: from its last node to its first,
\* h[k] expressions are behind the k-th.
Forest(e, n) ==
  \E h : /\ h = [k \in 0 .. Len(e) |-> h[k]] /\ h[0] = 0 /\ h[Len(e)] = n
         /\ \A k \in 0 .. Len(e) : h[k] \in Nat
         /\ \A k \in 1 .. Len(e) :
              LET a == Arity(e[Len(e) + 1 - k].op) IN a <= h[k - 1] /\ h[k] = h[k - 1] - a + 1

Terms_(n) == {e \in Seq(Nodes) : Forest(e, n)}

LEMMA ArityTyped ==
  ASSUME NEW x \in Nodes
  PROVE  Arity(x.op) \in 0 .. 3
BY ArityIs DEF Nodes, Operation

LEMMA EmptyForest == << >> \in Terms_(0)
<1> DEFINE h == [k \in 0 .. 0 |-> 0]
<1>1. h = [k \in 0 .. 0 |-> h[k]] /\ h[0] = 0
  OBVIOUS
<1>2. Len(<< >>) = 0 /\ << >> \in Seq(Nodes)
  OBVIOUS
<1> HIDE DEF h
<1>3. Forest(<< >>, 0)
  BY <1>1, <1>2 DEF Forest
<1> QED
  BY <1>2, <1>3 DEF Terms_

\* A node and its operands are one expression.
LEMMA ForestPrepend ==
  ASSUME NEW m \in Nat, NEW x \in Nodes, NEW e \in Terms_(m - 1 + Arity(x.op)), m >= 1
  PROVE  <<x>> \o e \in Terms_(m)
<1> DEFINE t == <<x>> \o e
           n == Len(e)
           a == Arity(x.op)
<1>1. e \in Seq(Nodes) /\ n \in Nat /\ a \in 0 .. 3
  BY ArityTyped, LenProperties DEF Terms_
<1>2. t \in Seq(Nodes) /\ Len(t) = n + 1 /\ t[1] = x /\ \A j \in 1 .. n : t[j + 1] = e[j]
  BY <1>1, PrependProperties
<1>3. PICK h : /\ h[0] = 0 /\ h[n] = m - 1 + a
               /\ \A k \in 0 .. n : h[k] \in Nat
               /\ \A k \in 1 .. n :
                    LET c == Arity(e[n + 1 - k].op) IN c <= h[k - 1] /\ h[k] = h[k - 1] - c + 1
  BY DEF Terms_, Forest
<1> DEFINE g == [k \in 0 .. n + 1 |-> IF k = n + 1 THEN m ELSE h[k]]
<1>4. g = [k \in 0 .. n + 1 |-> g[k]]
  OBVIOUS
<1>5. g[n + 1] = m /\ \A k \in 0 .. n : g[k] = h[k]
  BY <1>1
<1> HIDE DEF t, n, g, a
<1>6. ASSUME NEW k \in 0 .. n + 1 PROVE g[k] \in Nat
  <2>1. k = n + 1 \/ k \in 0 .. n
    BY <1>1
  <2> QED
    BY <1>3, <1>5, <2>1
<1>7. ASSUME NEW k \in 1 .. n + 1
      PROVE  LET c == Arity(t[n + 2 - k].op) IN c <= g[k - 1] /\ g[k] = g[k - 1] - c + 1
  <2>1. CASE k = n + 1
    <3>1. k - 1 = n /\ n \in 0 .. n /\ n + 2 - k = 1
      BY <1>1, <2>1
    <3>2. g[k - 1] = m - 1 + a /\ g[k] = m /\ t[n + 2 - k].op = x.op
      BY <1>2, <1>3, <1>5, <2>1, <3>1
    <3> QED
      BY <1>1, <3>2 DEF a
  <2>2. CASE k # n + 1
    <3>1. k \in 1 .. n /\ k - 1 \in 0 .. n /\ k \in 0 .. n /\ n + 1 - k \in 1 .. n /\ n + 2 - k = (n + 1 - k) + 1
      BY <1>1, <2>2
    <3>2. t[n + 2 - k] = e[n + 1 - k] /\ g[k - 1] = h[k - 1] /\ g[k] = h[k]
      BY <1>2, <1>5, <3>1
    <3> QED
      BY <1>3, <3>1, <3>2
  <2> QED
    BY <2>1, <2>2
<1>8. g[0] = 0
  <2>1. 0 \in 0 .. n
    BY <1>1
  <2> QED
    BY <1>3, <1>5, <2>1
<1>9. Forest(t, m)
  <2>1. \A k \in 1 .. n + 1 :
             LET c == Arity(t[(n + 1) + 1 - k].op) IN c <= g[k - 1] /\ g[k] = g[k - 1] - c + 1
    <3>1. ASSUME NEW k \in 1 .. n + 1 PROVE (n + 1) + 1 - k = n + 2 - k
      BY <1>1
    <3> QED
      BY <1>7, <3>1
  <2>2. Len(t) = n + 1
    BY <1>2
  <2> QED
    BY <1>4, <1>5, <1>6, <1>8, <2>1, <2>2, Zenon DEF Forest
<1> QED
  BY <1>2, <1>9 DEF Terms_, t

\* One step of the recursion of DecodeExpr: p has how many expressions are due
\* and the bytes, g answers for fewer bytes.
Due == Nat \X Seq(Byte)
NodesStep(g, p) ==
  IF p[1] = 0 THEN Read(<< >>, p[2])
  ELSE Then(ReadNode(p[2]), LAMBDA x, rest :
         Then(g[<<p[1] - 1 + Arity(x.op), rest>>], LAMBDA e, r : Read(<<x>> \o e, r)))

LEMMA NodesStepIs ==
  ASSUME NEW g, NEW p \in Due
  PROVE  LET x == ReadNode(p[2])
             q == <<p[1] - 1 + Arity(x.v.op), x.rest>>
         IN /\ p[1] = 0 => NodesStep(g, p) = Read(<< >>, p[2])
            /\ p[1] # 0 /\ x.err # "Ok" => NodesStep(g, p) = x
            /\ p[1] # 0 /\ x.err = "Ok" =>
                 /\ x.v \in Nodes /\ q \in Due /\ Len(q[2]) < Len(p[2])
                 /\ NodesStep(g, p) = IF g[q].err = "Ok" THEN Read(<<x.v>> \o g[q].v, g[q].rest) ELSE g[q]
<1> DEFINE x == ReadNode(p[2])
           q == <<p[1] - 1 + Arity(x.v.op), x.rest>>
<1>1. p[1] = 0 => NodesStep(g, p) = Read(<< >>, p[2])
  BY DEF NodesStep
<1>2. p[1] # 0 => NodesStep(g, p) =
        IF x.err = "Ok" THEN IF g[q].err = "Ok" THEN Read(<<x.v>> \o g[q].v, g[q].rest) ELSE g[q] ELSE x
  BY DEF NodesStep, Then
<1>3. p[1] \in Nat /\ p[2] \in Seq(Byte)
  BY DEF Due
<1>4. x \in Reading(Nodes) /\ (x.err = "Ok" => Len(x.rest) < Len(p[2]))
  BY <1>3, ReadNodeTyped
<1> HIDE DEF x
<1>5. ASSUME p[1] # 0, x.err = "Ok" PROVE x.v \in Nodes /\ q \in Due /\ Len(q[2]) < Len(p[2])
  <2>1. x.v \in Nodes /\ x.rest \in Seq(Byte)
    BY <1>4, <1>5, ReadingCases
  <2>2. Arity(x.v.op) \in 0 .. 3
    BY <2>1, ArityTyped
  <2>3. p[1] - 1 + Arity(x.v.op) \in Nat
    BY <1>3, <1>5, <2>2
  <2> QED
    BY <1>4, <1>5, <2>1, <2>3 DEF Due
<1> HIDE DEF q
<1> QED
  BY <1>1, <1>2, <1>5 DEF x, q

\* g answers for the byte strings that are shorter than m.
Answering(g, m) ==
  /\ g \in [Due -> Reading(Seq(Nodes))]
  /\ \A p \in Due : Len(p[2]) < m => g[p] = NodesStep(g, p)

LEMMA NodesStepTyped ==
  ASSUME NEW g \in [Due -> Reading(Seq(Nodes))], NEW p \in Due
  PROVE  NodesStep(g, p) \in Reading(Seq(Nodes))
<1> DEFINE x == ReadNode(p[2])
           q == <<p[1] - 1 + Arity(x.v.op), x.rest>>
<1>1. /\ p[1] = 0 => NodesStep(g, p) = Read(<< >>, p[2])
      /\ p[1] # 0 /\ x.err # "Ok" => NodesStep(g, p) = x
      /\ p[1] # 0 /\ x.err = "Ok" =>
           /\ x.v \in Nodes /\ q \in Due
           /\ NodesStep(g, p) = IF g[q].err = "Ok" THEN Read(<<x.v>> \o g[q].v, g[q].rest) ELSE g[q]
  BY NodesStepIs
<1>2. p[2] \in Seq(Byte) /\ << >> \in Seq(Nodes)
  BY DEF Due
<1>3. x \in Reading(Nodes)
  BY <1>2, ReadNodeTyped
<1> HIDE DEF x, q
<1>4. CASE p[1] = 0
  BY <1>1, <1>2, <1>4, ReadIsReading
<1>5. CASE p[1] # 0 /\ x.err # "Ok"
  <2>1. x \in {Stop("UnexpectedEof"), Stop("InvalidData")}
    BY <1>3, <1>5, ReadingCases
  <2> QED
    BY <1>1, <1>5, <2>1, StopIsReading
<1>6. CASE p[1] # 0 /\ x.err = "Ok"
  <2> DEFINE r == g[q]
  <2>1. x.v \in Nodes /\ r \in Reading(Seq(Nodes))
    BY <1>1, <1>6
  <2>2. NodesStep(g, p) = IF r.err = "Ok" THEN Read(<<x.v>> \o r.v, r.rest) ELSE r
    BY <1>1, <1>6
  <2> HIDE DEF r
  <2>3. CASE r.err = "Ok"
    <3>1. r.v \in Seq(Nodes) /\ r.rest \in Seq(Byte)
      BY <2>1, <2>3, ReadingCases
    <3>2. <<x.v>> \o r.v \in Seq(Nodes)
      BY <2>1, <3>1, PrependProperties
    <3> QED
      BY <2>2, <2>3, <3>1, <3>2, ReadIsReading
  <2>4. CASE r.err # "Ok"
    BY <2>1, <2>2, <2>4
  <2> QED
    BY <2>3, <2>4
<1> QED
  BY <1>4, <1>5, <1>6

\* A step looks at shorter byte strings only.
LEMMA NodesStepAgrees ==
  ASSUME NEW f, NEW g, NEW p \in Due, \A q \in Due : Len(q[2]) < Len(p[2]) => f[q] = g[q]
  PROVE  NodesStep(f, p) = NodesStep(g, p)
<1> DEFINE x == ReadNode(p[2])
           q == <<p[1] - 1 + Arity(x.v.op), x.rest>>
           Go(h) == IF h[q].err = "Ok" THEN Read(<<x.v>> \o h[q].v, h[q].rest) ELSE h[q]
<1>1. \A h : /\ p[1] = 0 => NodesStep(h, p) = Read(<< >>, p[2])
             /\ p[1] # 0 /\ x.err # "Ok" => NodesStep(h, p) = x
             /\ p[1] # 0 /\ x.err = "Ok" => q \in Due /\ Len(q[2]) < Len(p[2]) /\ NodesStep(h, p) = Go(h)
  BY NodesStepIs
<1>2. f[q] = g[q] => Go(f) = Go(g)
  OBVIOUS
<1> HIDE DEF x, q, Go
<1> QED
  BY <1>1, <1>2

\* There is one answer.
LEMMA AnsweringAgrees ==
  ASSUME NEW m \in Nat, NEW f, Answering(f, m), NEW g, Answering(g, m)
  PROVE  \A p \in Due : Len(p[2]) < m => f[p] = g[p]
<1> DEFINE P == {k \in 0 .. m : \A p \in Due : Len(p[2]) < k => f[p] = g[p]}
<1>1. \A p \in Due : Len(p[2]) \in Nat
  BY LenProperties DEF Due
<1>2. 0 \in P
  BY <1>1
<1>3. ASSUME NEW k \in 1 .. m, k - 1 \in P PROVE k \in P
  <2>1. ASSUME NEW p \in Due, Len(p[2]) < k PROVE f[p] = g[p]
    <3>1. ASSUME NEW q \in Due, Len(q[2]) < Len(p[2]) PROVE f[q] = g[q]
      <4>1. Len(q[2]) < k - 1
        BY <1>1, <2>1, <3>1
      <4> QED
        BY <1>3, <4>1
    <3>2. Len(p[2]) < m
      BY <1>1, <2>1
    <3>3. f[p] = NodesStep(f, p) /\ g[p] = NodesStep(g, p)
      BY <3>2 DEF Answering
    <3> QED
      BY <3>1, <3>3, NodesStepAgrees
  <2> QED
    BY <2>1
<1>4. m \in P
  <2> HIDE DEF P
  <2>1. \A k \in 0 .. m : k \in P
    BY <1>2, <1>3, NatInduct
  <2> QED
    BY <2>1
<1> QED
  BY <1>4

LEMMA AnsweringExists ==
  ASSUME NEW m \in Nat
  PROVE  \E g : Answering(g, m)
<1> DEFINE P == {k \in 0 .. m : \E g : Answering(g, k)}
<1>1. \A p \in Due : Len(p[2]) \in Nat
  BY LenProperties DEF Due
<1>2. 0 \in P
  <2> DEFINE g == [p \in Due |-> Stop("InvalidData")]
  <2>1. g \in [Due -> Reading(Seq(Nodes))]
    BY DEF Reading
  <2>2. Answering(g, 0)
    <3> HIDE DEF g
    <3> QED
      BY <1>1, <2>1 DEF Answering
  <2> HIDE DEF g
  <2> QED
    BY <2>2
<1>3. ASSUME NEW k \in 1 .. m, k - 1 \in P PROVE k \in P
  <2>1. PICK f : Answering(f, k - 1)
    BY <1>3
  <2> DEFINE g == [p \in Due |-> NodesStep(f, p)]
  <2>2. \A p \in Due : g[p] = NodesStep(f, p)
    OBVIOUS
  <2>3. g \in [Due -> Reading(Seq(Nodes))]
    BY <2>1, NodesStepTyped DEF Answering
  <2> HIDE DEF g
  <2>4. ASSUME NEW p \in Due, Len(p[2]) < k PROVE g[p] = NodesStep(g, p)
    <3>1. ASSUME NEW q \in Due, Len(q[2]) < Len(p[2]) PROVE f[q] = g[q]
      <4>1. Len(q[2]) < k - 1
        BY <1>1, <2>4, <3>1
      <4> QED
        BY <2>1, <2>2, <4>1 DEF Answering
    <3> QED
      BY <2>2, <3>1, NodesStepAgrees
  <2>5. Answering(g, k)
    BY <2>3, <2>4 DEF Answering
  <2> QED
    BY <2>5
<1>4. m \in P
  <2> HIDE DEF P
  <2>1. \A k \in 0 .. m : k \in P
    BY <1>2, <1>3, NatInduct
  <2> QED
    BY <2>1
<1> QED
  BY <1>4

\* What DecodeExpr answers for an expression, and for several in a row.
LEMMA DecodeExprRecursion ==
  \E g : (\A p \in Due : g[p] = NodesStep(g, p)) /\ \A b : DecodeExpr(b) = g[<<1, b>>]
<1> DEFINE E(g) == g = [p \in Nat \X Seq(Byte) |->
                          IF p[1] = 0 THEN Read(<< >>, p[2])
                          ELSE Then(ReadNode(p[2]), LAMBDA x, rest :
                                 Then(g[<<p[1] - 1 + Arity(x.op), rest>>], LAMBDA e, r : Read(<<x>> \o e, r)))]
           nodes == CHOOSE g : E(g)
           one(n) == CHOOSE g : Answering(g, n)
           f == [p \in Due |-> one(Len(p[2]) + 1)[p]]
<1>1. \A b : DecodeExpr(b) = nodes[<<1, b>>]
  BY DEF DecodeExpr
<1>2. \A p \in Due : Len(p[2]) \in Nat
  BY LenProperties DEF Due
<1>3. \A n \in Nat : Answering(one(n), n)
  BY AnsweringExists
<1>4. \A p \in Due : f[p] = one(Len(p[2]) + 1)[p]
  OBVIOUS
<1>5. f = [p \in Due |-> f[p]]
  OBVIOUS
<1> HIDE DEF one, f
<1>6. ASSUME NEW p \in Due PROVE f[p] = NodesStep(f, p)
  <2> DEFINE n == Len(p[2])
             g == one(n + 1)
  <2>1. n \in Nat /\ Answering(g, n + 1)
    BY <1>2, <1>3
  <2>2. f[p] = NodesStep(g, p)
    BY <1>4, <2>1 DEF Answering
  <2>3. ASSUME NEW q \in Due, Len(q[2]) < n PROVE f[q] = g[q]
    <3> DEFINE k == Len(q[2])
               h == one(k + 1)
    <3>1. k \in Nat /\ Answering(h, k + 1)
      BY <1>2, <1>3
    <3>2. f[q] = h[q]
      BY <1>4
    <3> HIDE DEF g, h
    <3>3. Answering(g, k + 1)
      <4>1. \A r \in Due : Len(r[2]) < k + 1 => Len(r[2]) < n + 1
        BY <1>2, <2>1, <2>3, <3>1
      <4> QED
        BY <2>1, <4>1 DEF Answering
    <3> QED
      BY <3>1, <3>2, <3>3, AnsweringAgrees
  <2> HIDE DEF g
  <2> QED
    BY <2>2, <2>3, NodesStepAgrees
<1>7. E(f)
  <2>1. f = [p \in Due |-> NodesStep(f, p)]
    <3> DEFINE s == [p \in Due |-> NodesStep(f, p)]
    <3>1. \A p \in Due : s[p] = NodesStep(f, p)
      OBVIOUS
    <3>2. s = [p \in Due |-> s[p]]
      OBVIOUS
    <3> HIDE DEF s
    <3>3. s = f
      BY <1>5, <1>6, <3>1, <3>2
    <3> QED
      BY <3>3 DEF s
  <2> QED
    BY <2>1 DEF NodesStep, Due
<1>8. E(nodes)
  BY <1>7, ZenonT(40)
<1> HIDE DEF nodes
<1>9. \A p \in Due : nodes[p] = NodesStep(nodes, p)
  BY <1>8 DEF NodesStep, Due
<1> QED
  BY <1>1, <1>9

LEMMA DecodeExprTyped ==
  ASSUME NEW b \in Seq(Byte)
  PROVE  DecodeExpr(b) \in Reading(Terms_(1))
<1>1. PICK g : (\A p \in Due : g[p] = NodesStep(g, p)) /\ \A c : DecodeExpr(c) = g[<<1, c>>]
  BY DecodeExprRecursion
<1> DEFINE n == Len(b) + 1
           P == {k \in 0 .. n : \A p \in Due : Len(p[2]) < k => g[p] \in Reading(Terms_(p[1]))}
<1>2. \A p \in Due : Len(p[2]) \in Nat
  BY LenProperties DEF Due
<1>3. 0 \in P /\ n \in Nat
  BY <1>2, LenProperties
<1>4. ASSUME NEW k \in 1 .. n, k - 1 \in P PROVE k \in P
  <2>1. ASSUME NEW p \in Due, Len(p[2]) < k PROVE g[p] \in Reading(Terms_(p[1]))
    <3> DEFINE x == ReadNode(p[2])
               q == <<p[1] - 1 + Arity(x.v.op), x.rest>>
               r == g[q]
    <3>1. /\ p[1] = 0 => NodesStep(g, p) = Read(<< >>, p[2])
          /\ p[1] # 0 /\ x.err # "Ok" => NodesStep(g, p) = x
          /\ p[1] # 0 /\ x.err = "Ok" =>
               /\ x.v \in Nodes /\ q \in Due /\ Len(q[2]) < Len(p[2])
               /\ NodesStep(g, p) = IF r.err = "Ok" THEN Read(<<x.v>> \o r.v, r.rest) ELSE r
      BY NodesStepIs
    <3>2. p[1] \in Nat /\ p[2] \in Seq(Byte) /\ g[p] = NodesStep(g, p)
      BY <1>1 DEF Due
    <3>3. x \in Reading(Nodes)
      BY <3>2, ReadNodeTyped
    <3>4. q[1] = p[1] - 1 + Arity(x.v.op)
      OBVIOUS
    <3> HIDE DEF x, q
    <3>5. CASE p[1] = 0
      BY <3>1, <3>2, <3>5, EmptyForest, ReadIsReading
    <3>6. CASE p[1] # 0 /\ x.err # "Ok"
      <4>1. x \in {Stop("UnexpectedEof"), Stop("InvalidData")}
        BY <3>3, <3>6, ReadingCases
      <4> QED
        BY <3>1, <3>2, <3>6, <4>1, StopIsReading
    <3>7. CASE p[1] # 0 /\ x.err = "Ok"
      <4>1. x.v \in Nodes /\ q \in Due /\ Len(q[2]) < Len(p[2])
        BY <3>1, <3>7
      <4>2. Len(q[2]) < k - 1
        BY <1>2, <2>1, <4>1
      <4>3. r \in Reading(Terms_(q[1]))
        BY <1>4, <4>1, <4>2
      <4>4. g[p] = IF r.err = "Ok" THEN Read(<<x.v>> \o r.v, r.rest) ELSE r
        BY <3>1, <3>2, <3>7
      <4> HIDE DEF r
      <4>5. CASE r.err = "Ok"
        <5>1. r.v \in Terms_(p[1] - 1 + Arity(x.v.op)) /\ r.rest \in Seq(Byte)
          BY <3>4, <4>3, <4>5, ReadingCases
        <5>2. <<x.v>> \o r.v \in Terms_(p[1])
          BY <3>2, <3>7, <4>1, <5>1, ForestPrepend
        <5> QED
          BY <4>4, <4>5, <5>1, <5>2, ReadIsReading
      <4>6. CASE r.err # "Ok"
        <5>1. r \in {Stop("UnexpectedEof"), Stop("InvalidData")}
          BY <4>3, <4>6, ReadingCases
        <5> QED
          BY <4>4, <4>6, <5>1, StopIsReading
      <4> QED
        BY <4>5, <4>6
    <3> QED
      BY <3>5, <3>6, <3>7
  <2> QED
    BY <2>1
<1>5. n \in P
  <2> HIDE DEF P, n
  <2>1. \A k \in 0 .. n : k \in P
    BY <1>3, <1>4, NatInduct
  <2> QED
    BY <1>3, <2>1
<1>6. <<1, b>> \in Due /\ Len(b) < n
  BY LenProperties DEF Due
<1> QED
  BY <1>1, <1>5, <1>6

-----------------------------------------------------------------------------
(* Reading statements.                                                     *)

\* The fields of a binding or an instruction are numbers.
LEMMA ReadFieldsTyped ==
  ASSUME NEW tys \in Seq(Type \cup {"ValueType"}), NEW b \in Seq(Byte)
  PROVE  ReadFields(tys, b) \in Reading({vs \in Seq(Int) : Len(vs) = Len(tys)})
<1> DEFINE readers == [k \in DOMAIN tys |-> [r \in Seq(Byte) |->
                         IF tys[k] = "ValueType" THEN ReadTag(14, r) ELSE ReadNumber(tys[k], r)]]
<1>1. Len(tys) \in Nat /\ DOMAIN tys = 1 .. Len(tys)
  BY LenProperties
<1>2. Len(readers) = Len(tys)
  BY <1>1, LenProperties
<1>3. ASSUME NEW k \in 1 .. Len(readers), NEW r \in Seq(Byte) PROVE readers[k][r] \in Reading(Int)
  <2>1. k \in DOMAIN tys /\ tys[k] \in Type \cup {"ValueType"}
    BY <1>1, <1>2, ElementOfSeq
  <2>2. readers[k][r] = IF tys[k] = "ValueType" THEN ReadTag(14, r) ELSE ReadNumber(tys[k], r)
    BY <2>1
  <2>3. CASE tys[k] = "ValueType"
    <3>1. ReadTag(14, r) \in Reading(0 .. 14 - 1)
      BY ReadTagTyped
    <3> QED
      BY <2>2, <2>3, <3>1 DEF Reading
  <2>4. CASE tys[k] # "ValueType"
    <3>1. ReadNumber(tys[k], r) \in Reading(Values(tys[k])) /\ Values(tys[k]) \subseteq Int
      BY <2>1, <2>4, ReadNumberTyped, ValuesAreIntegers
    <3> QED
      BY <2>2, <2>4, <3>1 DEF Reading
  <2> QED
    BY <2>3, <2>4
<1>4. ReadFields(tys, b) = ReadEach(readers, b)
  BY DEF ReadFields
<1> HIDE DEF readers
<1> QED
  BY <1>1, <1>2, <1>3, <1>4, ReadEachTyped

\* A binding of the wire; an Eval has an expression.
WireBindings == {b \in [tag : 0 .. 67, args : Seq(Int), expr : Seq(Nodes)] : b.tag = 2 => b.expr \in Terms_(1)}

LEMMA BindingFieldsTyped ==
  ASSUME NEW tag
  PROVE  BindingFields(tag) \in Seq(Type \cup {"ValueType"})
<1> DEFINE S == Type \cup {"ValueType"}
<1>1. "U8" \in S /\ "U32" \in S /\ "Pubkey" \in S /\ "ValueType" \in S
  BY DEF Type, Ordered, Int_, Unsigned
<1> HIDE DEF S
<1>2. << >> \in Seq(S) /\ <<"ValueType", "U8", "U32", "U8">> \in Seq(S) /\ <<"U32">> \in Seq(S)
      /\ <<"Pubkey">> \in Seq(S) /\ <<"U8">> \in Seq(S)
  BY <1>1
<1> QED
  BY <1>2 DEF BindingFields, S

LEMMA DecodeBindingTyped ==
  ASSUME NEW b \in Seq(Byte)
  PROVE  DecodeBinding(b) \in Reading(WireBindings)
<1> DEFINE t == ReadTag(68, b)
           e == DecodeExpr(t.rest)
           a == ReadFields(BindingFields(t.v), t.rest)
           eval(x) == [tag |-> 2, args |-> << >>, expr |-> x]
           load(x) == [tag |-> t.v, args |-> x, expr |-> NoExpr]
           ofEval == IF e.err = "Ok" THEN Read(eval(e.v), e.rest) ELSE e
           ofLoad == IF a.err = "Ok" THEN Read(load(a.v), a.rest) ELSE a
           next == IF t.v = 2 THEN ofEval ELSE ofLoad
<1>1. DecodeBinding(b) = IF t.err = "Ok" THEN next ELSE t
  BY DEF DecodeBinding, Then
<1>2. t \in Reading(0 .. 68 - 1)
  BY ReadTagTyped
<1> HIDE DEF t
<1>3. ASSUME t.v \in 0 .. 67, t.rest \in Seq(Byte), t.v = 2 PROVE ofEval \in Reading(WireBindings)
  <2>1. e \in Reading(Terms_(1))
    BY <1>3, DecodeExprTyped
  <2> HIDE DEF e
  <2>2. ASSUME e.v \in Terms_(1), e.rest \in Seq(Byte) PROVE Read(eval(e.v), e.rest) \in Reading(WireBindings)
    <3>1. eval(e.v) \in WireBindings
      BY <2>2 DEF WireBindings, Terms_
    <3> HIDE DEF eval
    <3> QED
      BY <2>2, <3>1, ReadIsReading
  <2> QED
    BY <2>1, <2>2, ReadAfter
<1>4. ASSUME t.v \in 0 .. 67, t.rest \in Seq(Byte), t.v # 2 PROVE ofLoad \in Reading(WireBindings)
  <2> DEFINE S == {vs \in Seq(Int) : Len(vs) = Len(BindingFields(t.v))}
  <2>1. a \in Reading(S)
    BY <1>4, BindingFieldsTyped, ReadFieldsTyped
  <2> HIDE DEF a
  <2>2. ASSUME a.v \in S, a.rest \in Seq(Byte) PROVE Read(load(a.v), a.rest) \in Reading(WireBindings)
    <3>1. load(a.v) \in WireBindings
      BY <1>4, <2>2 DEF WireBindings, NoExpr
    <3> HIDE DEF load
    <3> QED
      BY <2>2, <3>1, ReadIsReading
  <2> HIDE DEF S
  <2> QED
    BY <2>1, <2>2, ReadAfter
<1>5. t.err = "Ok" /\ t.v \in 0 .. 68 - 1 /\ t.rest \in Seq(Byte) => next \in Reading(WireBindings)
  <2> HIDE DEF ofEval, ofLoad
  <2> QED
    BY <1>3, <1>4
<1> HIDE DEF next
<1> QED
  BY <1>1, <1>2, <1>5, ReadAfter

\* A list of elements that one reader reads.
LEMMA ReadManyTyped ==
  ASSUME NEW S, NEW reader, \A r \in Seq(Byte) : reader[r] \in Reading(S), NEW n \in Nat, NEW b \in Seq(Byte)
  PROVE  ReadEach([k \in 1 .. n |-> reader], b) \in Reading({vs \in Seq(S) : Len(vs) = n})
<1> DEFINE readers == [k \in 1 .. n |-> reader]
<1>1. Len(readers) = n /\ \A k \in 1 .. n : readers[k] = reader
  BY LenProperties
<1> HIDE DEF readers
<1>2. \A k \in 1 .. Len(readers) : \A r \in Seq(Byte) : readers[k][r] \in Reading(S)
  BY <1>1
<1>3. ReadEach(readers, b) \in Reading({vs \in Seq(S) : Len(vs) = Len(readers)})
  BY <1>1, <1>2, ReadEachTyped
<1> QED
  BY <1>1, <1>3 DEF readers

LEMMA ByteIsNat == Byte \subseteq Nat
BY WireAssumption DEF Byte

LEMMA ReadU16Typed ==
  ASSUME NEW b \in Seq(Byte)
  PROVE  ReadU16(b) \in Reading(Nat)
<1>1. "U16" \in Type /\ "U16" \in Unsigned
  BY DEF Type, Ordered, Int_, Unsigned
<1>2. Values("U16") \subseteq Nat
  BY <1>1, UnsignedBounds
<1>3. ReadU16(b) \in Reading(Values("U16"))
  BY <1>1, ReadNumberTyped DEF ReadU16
<1> QED
  BY <1>2, <1>3 DEF Reading

Overlays == [offset : Nat, index : Byte]

LEMMA DecodeOverlayTyped ==
  ASSUME NEW b \in Seq(Byte)
  PROVE  DecodeOverlay(b) \in Reading(Overlays)
<1> DEFINE o == ReadU16(b)
           i == ReadByte(o.rest)
           next == IF i.err = "Ok" THEN Read([offset |-> o.v, index |-> i.v], i.rest) ELSE i
<1>1. DecodeOverlay(b) = IF o.err = "Ok" THEN next ELSE o
  BY DEF DecodeOverlay, Then
<1>2. o \in Reading(Nat)
  BY ReadU16Typed
<1> HIDE DEF o
<1>3. ASSUME o.v \in Nat, o.rest \in Seq(Byte) PROVE next \in Reading(Overlays)
  <2>1. i \in Reading(Byte)
    BY <1>3, ReadByteTyped
  <2> HIDE DEF i
  <2>2. ASSUME i.v \in Byte, i.rest \in Seq(Byte)
        PROVE  Read([offset |-> o.v, index |-> i.v], i.rest) \in Reading(Overlays)
    BY <1>3, <2>2, ReadIsReading DEF Overlays
  <2> QED
    BY <2>1, <2>2, ReadAfter
<1> HIDE DEF next
<1> QED
  BY <1>1, <1>2, <1>3, ReadAfter

\* The tables of structured patches.
Kinds == Type \cup {"frame", "none"}
FieldNames ==
  { "lamports", "space", "amount", "decimals", "fee", "m", "basis_points", "maximum_fee",
    "mint_authority", "freeze_authority" }
\* No two kinds of a field are one.
KindLists ==
  {ks \in Seq(Kinds) : ks # << >> /\ Len(ks) <= 3 /\ \A j, k \in DOMAIN ks : ks[j] = ks[k] => j = k}
PatchFields == [name : FieldNames, kinds : KindLists]
Alternatives == {alts \in Seq(Seq(PatchFields)) : alts # << >> /\ Len(alts) <= 7}
PayloadNames ==
  {"lamports", "space", "amount", "multisig", "unit", "create", "checked", "fee", "set_fee", "mint", "unwrap"}

LEMMA PatchVariantsTyped == PatchVariants \in Seq(PayloadNames) /\ Len(PatchVariants) = 34
BY DEF PatchVariants, PayloadNames

LEMMA FieldsTyped ==
  /\ \A x \in FieldNames : Bound(x) \in PatchFields
  /\ \A x \in FieldNames : \A ty \in {"U8", "U16", "U64"} : Literal(x, ty) \in PatchFields
  /\ [name |-> "mint_authority", kinds |-> <<"frame", "Pubkey">>] \in PatchFields
  /\ [name |-> "freeze_authority", kinds |-> <<"none", "frame", "Pubkey">>] \in PatchFields
<1>1. "U8" \in Kinds /\ "U16" \in Kinds /\ "U64" \in Kinds /\ "Pubkey" \in Kinds
      /\ "frame" \in Kinds /\ "none" \in Kinds
  BY DEF Kinds, Type, Ordered, Int_, Unsigned
<1>2. ASSUME NEW x \in FieldNames, NEW ks \in KindLists PROVE [name |-> x, kinds |-> ks] \in PatchFields
  BY DEF PatchFields
<1>3. \A k1 \in Kinds : <<k1>> \in KindLists
  BY DEF KindLists
<1>4. ASSUME NEW x \in FieldNames PROVE Bound(x) \in PatchFields
  BY <1>1, <1>2, <1>3 DEF Bound
<1>5. ASSUME NEW x \in FieldNames, NEW ty \in {"U8", "U16", "U64"} PROVE Literal(x, ty) \in PatchFields
  <2>1. ty \in Kinds
    BY <1>1
  <2> QED
    BY <1>2, <1>3, <2>1 DEF Literal
<1>6. <<"frame", "Pubkey">> \in KindLists /\ <<"none", "frame", "Pubkey">> \in KindLists
  BY <1>1 DEF KindLists
<1>7. [name |-> "mint_authority", kinds |-> <<"frame", "Pubkey">>] \in PatchFields
  <2> DEFINE ks == <<"frame", "Pubkey">>
  <2>1. ks \in KindLists
    BY <1>6
  <2> HIDE DEF ks
  <2>2. [name |-> "mint_authority", kinds |-> ks] \in PatchFields
    BY <1>2, <2>1 DEF FieldNames
  <2> QED
    BY <2>2 DEF ks
<1>8. [name |-> "freeze_authority", kinds |-> <<"none", "frame", "Pubkey">>] \in PatchFields
  <2> DEFINE ks == <<"none", "frame", "Pubkey">>
  <2>1. ks \in KindLists
    BY <1>6
  <2> HIDE DEF ks
  <2>2. [name |-> "freeze_authority", kinds |-> ks] \in PatchFields
    BY <1>2, <2>1 DEF FieldNames
  <2> QED
    BY <2>2 DEF ks
<1> QED
  BY <1>4, <1>5, <1>7, <1>8

LEMMA ListsOf ==
  ASSUME NEW F
  PROVE  /\ << >> \in Seq(F) /\ \A x \in F : <<x>> \in Seq(F)
         /\ \A x, y \in F : <<x, y>> \in Seq(F)
         /\ \A x, y, z \in F : <<x, y, z>> \in Seq(F)
<1>1. << >> \in Seq(F)
  OBVIOUS
<1>2. ASSUME NEW x \in F PROVE <<x>> \in Seq(F)
  OBVIOUS
<1>3. ASSUME NEW x \in F, NEW y \in F PROVE <<x, y>> \in Seq(F)
  OBVIOUS
<1>4. ASSUME NEW x \in F, NEW y \in F, NEW z \in F PROVE <<x, y, z>> \in Seq(F)
  OBVIOUS
<1> QED
  BY <1>1, <1>2, <1>3, <1>4

LEMMA AlternativesOf ==
  /\ \A s \in Seq(PatchFields) : <<s>> \in Alternatives
  /\ \A s, t \in Seq(PatchFields) : <<s, t>> \in Alternatives
  /\ \A s, t, u \in Seq(PatchFields) : <<s, t, u>> \in Alternatives
<1> DEFINE L == Seq(PatchFields)
           A == {alts \in Seq(L) : alts # << >> /\ Len(alts) <= 7}
<1> HIDE DEF L
<1>1. \A s \in L : <<s>> \in A
  OBVIOUS
<1>2. \A s, t \in L : <<s, t>> \in A
  OBVIOUS
<1>3. \A s, t, u \in L : <<s, t, u>> \in A
  OBVIOUS
<1> QED
  BY <1>1, <1>2, <1>3, Zenon DEF L, Alternatives

LEMMA PayloadTyped ==
  ASSUME NEW name \in PayloadNames
  PROVE  Payload[name] \in Alternatives
<1> DEFINE L == Seq(PatchFields)
           amount == Bound("amount")
           decimals == Bound("decimals")
           fee == Bound("fee")
           a == Literal("amount", "U64")
           d == Literal("decimals", "U8")
           f == Literal("fee", "U64")
           ma == [name |-> "mint_authority", kinds |-> <<"frame", "Pubkey">>]
           fa == [name |-> "freeze_authority", kinds |-> <<"none", "frame", "Pubkey">>]
           lam == Bound("lamports")
           sp == Bound("space")
           m == Bound("m")
           bps == Bound("basis_points")
           max == Bound("maximum_fee")
           lamL == Literal("lamports", "U64")
           spL == Literal("space", "U64")
           bpsL == Literal("basis_points", "U16")
           maxL == Literal("maximum_fee", "U64")
<1>1. amount \in PatchFields /\ decimals \in PatchFields /\ fee \in PatchFields
      /\ lam \in PatchFields /\ sp \in PatchFields /\ m \in PatchFields
      /\ bps \in PatchFields /\ max \in PatchFields
  BY FieldsTyped DEF FieldNames
<1>2. a \in PatchFields /\ d \in PatchFields /\ f \in PatchFields /\ lamL \in PatchFields
      /\ spL \in PatchFields /\ bpsL \in PatchFields /\ maxL \in PatchFields
  BY FieldsTyped DEF FieldNames
<1>3. ma \in PatchFields /\ fa \in PatchFields
  BY FieldsTyped
<1>4. /\ Payload["lamports"] = <<<<lam>>>> /\ Payload["space"] = <<<<sp>>>>
      /\ Payload["amount"] = <<<<amount>>>> /\ Payload["multisig"] = <<<<m>>>>
      /\ Payload["unit"] = <<<< >>>> /\ Payload["unwrap"] = << << >>, <<amount>> >>
      /\ Payload["mint"] = <<<<decimals, ma, fa>>>>
      /\ Payload["create"] = << <<lam, spL>>, <<lamL, sp>>, <<lam, sp>> >>
      /\ Payload["set_fee"] = << <<bps, maxL>>, <<bpsL, max>>, <<bps, max>> >>
      /\ Payload["checked"] = << <<amount, d>>, <<amount, decimals>>, <<a, decimals>> >>
      /\ Payload["fee"] = << <<amount, d, f>>, <<a, decimals, f>>, <<a, d, fee>>, <<amount, decimals, f>>,
                             <<amount, d, fee>>, <<a, decimals, fee>>, <<amount, decimals, fee>> >>
  BY DEF Payload
<1> HIDE DEF amount, decimals, fee, a, d, f, ma, fa, lam, sp, m, bps, max, lamL, spL, bpsL, maxL
<1>5. << >> \in L /\ <<lam>> \in L /\ <<sp>> \in L /\ <<m>> \in L /\ <<amount>> \in L
  BY <1>1, ListsOf, Zenon
<1>6. <<lam, spL>> \in L /\ <<lamL, sp>> \in L /\ <<lam, sp>> \in L
  BY <1>1, <1>2, ListsOf, Zenon
<1>7. <<bps, maxL>> \in L /\ <<bpsL, max>> \in L /\ <<bps, max>> \in L
  BY <1>1, <1>2, ListsOf, Zenon
<1>8. <<decimals, ma, fa>> \in L
  BY <1>1, <1>3, ListsOf, Zenon
<1>9. <<amount, d>> \in L /\ <<amount, decimals>> \in L /\ <<a, decimals>> \in L
  BY <1>1, <1>2, ListsOf, Zenon
<1>10. ASSUME NEW x \in {amount, a}, NEW y \in {d, decimals}, NEW z \in {f, fee} PROVE <<x, y, z>> \in L
  <2>1. x \in PatchFields /\ y \in PatchFields /\ z \in PatchFields
    BY <1>1, <1>2
  <2> QED
    BY <2>1, ListsOf, Zenon
<1>11. /\ <<amount, d, f>> \in L /\ <<a, decimals, f>> \in L /\ <<a, d, fee>> \in L
       /\ <<amount, decimals, f>> \in L /\ <<amount, d, fee>> \in L /\ <<a, decimals, fee>> \in L
       /\ <<amount, decimals, fee>> \in L
  <2> HIDE DEF L
  <2> QED
    BY <1>10
<1> HIDE DEF L
<1>12. /\ \A s \in L : <<s>> \in Alternatives
       /\ \A s, t \in L : <<s, t>> \in Alternatives
       /\ \A s, t, u \in L : <<s, t, u>> \in Alternatives
  BY AlternativesOf, Zenon DEF L
<1>13. CASE name \in {"lamports", "space", "amount", "multisig", "unit", "mint"}
  <2>1. \E s \in L : Payload[name] = <<s>>
    BY <1>4, <1>5, <1>8, <1>13
  <2> QED
    BY <1>12, <2>1, Zenon
<1>14. CASE name = "unwrap"
  BY <1>4, <1>5, <1>12, <1>14, Zenon
<1>15. CASE name \in {"create", "set_fee", "checked"}
  <2>1. name = "create" => Payload[name] \in Alternatives
    BY <1>4, <1>6, <1>12, Zenon
  <2>2. name = "set_fee" => Payload[name] \in Alternatives
    BY <1>4, <1>7, <1>12, Zenon
  <2>3. name = "checked" => Payload[name] \in Alternatives
    BY <1>4, <1>9, <1>12, Zenon
  <2> QED
    BY <1>15, <2>1, <2>2, <2>3
<1>16. CASE name = "fee"
  <2> DEFINE s1 == <<amount, d, f>>
             s2 == <<a, decimals, f>>
             s3 == <<a, d, fee>>
             s4 == <<amount, decimals, f>>
             s5 == <<amount, d, fee>>
             s6 == <<a, decimals, fee>>
             s7 == <<amount, decimals, fee>>
  <2>1. Payload[name] = <<s1, s2, s3, s4, s5, s6, s7>>
    BY <1>4, <1>16, Zenon
  <2>2. s1 \in L /\ s2 \in L /\ s3 \in L /\ s4 \in L /\ s5 \in L /\ s6 \in L /\ s7 \in L
    BY <1>11
  <2> HIDE DEF s1, s2, s3, s4, s5, s6, s7
  <2>3. <<s1, s2, s3, s4, s5, s6, s7>> \in {alts \in Seq(L) : alts # << >> /\ Len(alts) <= 7}
    BY <2>2
  <2> QED
    BY <2>1, <2>3 DEF Alternatives, L
<1> QED
  BY <1>13, <1>14, <1>15, <1>16 DEF PayloadNames

-----------------------------------------------------------------------------
(* Steps and arms.                                                         *)

FieldValues == [tag : Nat, v : Int]

LEMMA DecodeFieldTyped ==
  ASSUME NEW f \in PatchFields, NEW b \in Seq(Byte)
  PROVE  DecodeField(f, b) \in Reading(FieldValues)
<1> DEFINE n == Len(f.kinds)
           t == IF n > 1 THEN ReadTag(n, b) ELSE Read(0, b)
           kind == f.kinds[t.v + 1]
           of(k, rest) == CASE k = "none" -> Read(0, rest)
                            [] k = "frame" -> ReadByte(rest)
                            [] OTHER -> ReadNumber(k, rest)
           d == of(kind, t.rest)
           value == [tag |-> t.v, v |-> d.v]
           next == IF d.err = "Ok" THEN Read(value, d.rest) ELSE d
<1>1. DecodeField(f, b) = IF t.err = "Ok" THEN next ELSE t
  <2>1. DecodeField(f, b) =
          Then(t, LAMBDA tag, rest : Then(of(f.kinds[tag + 1], rest), LAMBDA v, r : Read([tag |-> tag, v |-> v], r)))
    BY DEF DecodeField
  <2> HIDE DEF t, of
  <2> QED
    BY <2>1 DEF Then
<1>2. n \in Nat \ {0} /\ f.kinds \in Seq(Kinds)
  BY LenProperties, EmptySeq DEF PatchFields, KindLists
<1>3. t \in Reading(0 .. n - 1)
  <2>1. 0 \in 0 .. n - 1
    BY <1>2
  <2> QED
    BY <1>2, <2>1, ReadTagTyped, ReadIsReading
<1> HIDE DEF t, n
<1>4. ASSUME t.v \in 0 .. n - 1, t.rest \in Seq(Byte) PROVE next \in Reading(FieldValues)
  <2>1. kind \in Kinds
    <3>1. t.v + 1 \in 1 .. n
      BY <1>2, <1>4
    <3> QED
      BY <1>2, <3>1, ElementOfSeq DEF n
  <2> HIDE DEF kind
  <2>2. d \in Reading(Int)
    <3>1. CASE kind = "none"
      <4>1. d = Read(0, t.rest) /\ 0 \in Int
        BY <3>1
      <4> HIDE DEF d
      <4> QED
        BY <1>4, <4>1, ReadIsReading
    <3>2. CASE kind = "frame"
      <4>1. d = ReadByte(t.rest)
        BY <3>2
      <4>2. ReadByte(t.rest) \in Reading(Byte)
        BY <1>4, ReadByteTyped
      <4> QED
        BY <4>1, <4>2, ByteIsNat DEF Reading
    <3>3. CASE kind \notin {"none", "frame"}
      <4>1. kind \in Type /\ d = ReadNumber(kind, t.rest)
        BY <2>1, <3>3 DEF Kinds
      <4>2. d \in Reading(Values(kind)) /\ Values(kind) \subseteq Int
        BY <1>4, <4>1, ReadNumberTyped, ValuesAreIntegers
      <4> QED
        BY <4>2 DEF Reading
    <3> QED
      BY <3>1, <3>2, <3>3
  <2> HIDE DEF d
  <2>3. ASSUME d.v \in Int, d.rest \in Seq(Byte) PROVE Read(value, d.rest) \in Reading(FieldValues)
    <3>1. value \in FieldValues
      BY <1>2, <1>4, <2>3 DEF FieldValues
    <3> HIDE DEF value
    <3> QED
      BY <2>3, <3>1, ReadIsReading
  <2> HIDE DEF value
  <2> QED
    BY <2>2, <2>3, ReadAfter
<1> HIDE DEF next
<1> QED
  BY <1>1, <1>3, <1>4, ReadAfter

Patches == [variant : Nat, alt : Nat, vals : Seq(FieldValues)]

LEMMA DecodePatchTyped ==
  ASSUME NEW b \in Seq(Byte)
  PROVE  DecodePatch(b) \in Reading(Patches)
<1> DEFINE t == ReadTag(Len(PatchVariants), b)
           alts == Payload[PatchVariants[t.v + 1]]
           readers(alt) == [k \in DOMAIN alts[alt + 1] |-> [r \in Seq(Byte) |-> DecodeField(alts[alt + 1][k], r)]]
           a == IF Len(alts) > 1 THEN ReadTag(Len(alts), t.rest) ELSE Read(0, t.rest)
           d == ReadEach(readers(a.v), a.rest)
           patch == [variant |-> t.v, alt |-> a.v, vals |-> d.v]
           last == IF d.err = "Ok" THEN Read(patch, d.rest) ELSE d
           next == IF a.err = "Ok" THEN last ELSE a
<1>1. DecodePatch(b) = IF t.err = "Ok" THEN next ELSE t
  <2> DEFINE A(variant, rest) ==
               LET xs == Payload[PatchVariants[variant + 1]] IN
               IF Len(xs) > 1 THEN ReadTag(Len(xs), rest) ELSE Read(0, rest)
             D(variant, alt, r) ==
               LET xs == Payload[PatchVariants[variant + 1]] IN
               ReadEach([k \in DOMAIN xs[alt + 1] |-> [q \in Seq(Byte) |-> DecodeField(xs[alt + 1][k], q)]], r)
  <2>1. DecodePatch(b) =
          Then(t, LAMBDA variant, rest : Then(A(variant, rest), LAMBDA alt, r : Then(D(variant, alt, r),
            LAMBDA vals, r2 : Read([variant |-> variant, alt |-> alt, vals |-> vals], r2))))
    BY DEF DecodePatch
  <2>2. a = A(t.v, t.rest) /\ d = D(t.v, a.v, a.rest)
    OBVIOUS
  <2> HIDE DEF t, a, d, A, D
  <2> QED
    BY <2>1, <2>2 DEF Then
<1>2. Len(PatchVariants) \in Nat /\ t \in Reading(0 .. Len(PatchVariants) - 1)
  BY PatchVariantsTyped, LenProperties, ReadTagTyped
<1> HIDE DEF t
<1>3. ASSUME t.v \in 0 .. Len(PatchVariants) - 1, t.rest \in Seq(Byte) PROVE next \in Reading(Patches)
  <2>1. alts \in Alternatives
    <3>1. t.v + 1 \in 1 .. Len(PatchVariants)
      BY <1>2, <1>3
    <3> QED
      BY <3>1, PatchVariantsTyped, ElementOfSeq, PayloadTyped
  <2> HIDE DEF alts
  <2>2. alts \in Seq(Seq(PatchFields)) /\ Len(alts) \in Nat \ {0}
    BY <2>1, LenProperties, EmptySeq DEF Alternatives
  <2>3. a \in Reading(0 .. Len(alts) - 1)
    <3>1. 0 \in 0 .. Len(alts) - 1
      BY <2>2
    <3> QED
      BY <1>3, <2>2, <3>1, ReadTagTyped, ReadIsReading
  <2> HIDE DEF a
  <2>4. ASSUME a.v \in 0 .. Len(alts) - 1, a.rest \in Seq(Byte) PROVE last \in Reading(Patches)
    <3> DEFINE fs == alts[a.v + 1]
               rs == readers(a.v)
    <3>1. fs \in Seq(PatchFields)
      <4>1. a.v + 1 \in 1 .. Len(alts)
        BY <2>2, <2>4
      <4> QED
        BY <2>2, <4>1, ElementOfSeq
    <3>2. Len(fs) \in Nat /\ DOMAIN fs = 1 .. Len(fs) /\ \A k \in 1 .. Len(fs) : fs[k] \in PatchFields
      BY <3>1, LenProperties, ElementOfSeq
    <3>3. rs = [k \in 1 .. Len(fs) |-> [r \in Seq(Byte) |-> DecodeField(fs[k], r)]]
      BY <3>2
    <3> HIDE DEF fs, rs
    <3>4. Len(rs) = Len(fs) /\ \A k \in 1 .. Len(fs) : \A r \in Seq(Byte) : rs[k][r] = DecodeField(fs[k], r)
      BY <3>2, <3>3, LenProperties
    <3>5. \A k \in 1 .. Len(rs) : \A r \in Seq(Byte) : rs[k][r] \in Reading(FieldValues)
      BY <3>2, <3>4, DecodeFieldTyped
    <3> DEFINE S == {vs \in Seq(FieldValues) : Len(vs) = Len(rs)}
    <3>6. ReadEach(rs, a.rest) \in Reading(S)
      BY <2>4, <3>2, <3>4, <3>5, ReadEachTyped
    <3>7. d \in Reading(S)
      BY <3>6 DEF rs
    <3> HIDE DEF d
    <3>8. ASSUME d.v \in S, d.rest \in Seq(Byte) PROVE Read(patch, d.rest) \in Reading(Patches)
      <4>1. patch \in Patches
        BY <1>2, <1>3, <2>2, <2>4, <3>8 DEF Patches
      <4> HIDE DEF patch
      <4> QED
        BY <3>8, <4>1, ReadIsReading
    <3> HIDE DEF patch, S
    <3> QED
      BY <3>7, <3>8, ReadAfter
  <2> HIDE DEF last
  <2> QED
    BY <2>3, <2>4, ReadAfter
<1> HIDE DEF next
<1> QED
  BY <1>1, <1>2, <1>3, ReadAfter

LEMMA ReadDataTyped ==
  ASSUME NEW n \in Nat, NEW b \in Seq(Byte)
  PROVE  ReadData(n, b) \in Reading(Seq(Byte))
<1>1. Len(b) \in Nat
  BY LenProperties
<1>2. CASE Len(b) < n
  BY <1>2 DEF ReadData, Reading
<1>3. CASE ~ (Len(b) < n)
  <2>1. n \in 0 .. Len(b)
    BY <1>1, <1>3
  <2>2. Leading(b, n) \in Seq(Byte) /\ Behind(b, n) \in Seq(Byte)
    BY <2>1, LeadingProperties, BehindProperties
  <2> QED
    BY <1>3, <2>2, ReadIsReading DEF ReadData
<1> QED
  BY <1>2, <1>3

Steps ==
  [kind : 0 .. 2, start : Byte, len : Byte, data : Seq(Byte), patches : Seq(Overlays), patch : Patches]

LEMMA DecodeStepTyped ==
  ASSUME NEW b \in Seq(Byte)
  PROVE  DecodeStep(b) \in Reading(Steps)
<1> DEFINE t == ReadTag(3, b)
           s == ReadByte(t.rest)
           l == ReadByte(s.rest)
           Step(data, patches, patch) ==
             [kind |-> t.v, start |-> s.v, len |-> l.v, data |-> data, patches |-> patches, patch |-> patch]
           p == DecodePatch(l.rest)
           structured == IF p.err = "Ok" THEN Read(Step(<< >>, << >>, p.v), p.rest) ELSE p
           c == ReadU16(l.rest)
           d == IF c.err = "Ok" THEN ReadData(c.v, c.rest) ELSE c
           n == ReadU16(d.rest)
           o == IF n.err = "Ok" THEN ReadMany(DecodeOverlay, n.v, n.rest) ELSE n
           patched == IF o.err = "Ok" THEN Read(Step(d.v, o.v, NoPatch), o.rest) ELSE o
           raw == IF t.v = 0 THEN Read(Step(d.v, << >>, NoPatch), d.rest) ELSE patched
           rest == IF d.err = "Ok" THEN raw ELSE d
           third == IF t.v = 2 THEN structured ELSE rest
           second == IF l.err = "Ok" THEN third ELSE l
           first == IF s.err = "Ok" THEN second ELSE s
<1>1. DecodeStep(b) = IF t.err = "Ok" THEN first ELSE t
  <2> DEFINE S(kind, start, len, data, patches, patch) ==
               [kind |-> kind, start |-> start, len |-> len, data |-> data, patches |-> patches, patch |-> patch]
             D(r) == Then(ReadU16(r), ReadData)
             O(r) == ReadList(ReadU16, DecodeOverlay, r)
             P(r) == DecodePatch(r)
  <2>1. DecodeStep(b) =
          Then(t, LAMBDA kind, b1 : Then(ReadByte(b1), LAMBDA start, b2 : Then(ReadByte(b2), LAMBDA len, b3 :
            IF kind = 2 THEN Then(P(b3), LAMBDA q, r : Read(S(kind, start, len, << >>, << >>, q), r))
            ELSE Then(D(b3), LAMBDA data, r :
                   IF kind = 0 THEN Read(S(kind, start, len, data, << >>, NoPatch), r)
                   ELSE Then(O(r), LAMBDA ps, r2 : Read(S(kind, start, len, data, ps, NoPatch), r2))))))
    BY DEF DecodeStep
  <2>2. d = D(l.rest)
    BY DEF Then
  <2>3. o = O(d.rest)
    <3> DEFINE M(k, r) == ReadMany(DecodeOverlay, k, r)
    <3>1. \A r : O(r) = Then(ReadU16(r), LAMBDA k, q : M(k, q))
      BY DEF ReadList
    <3>2. o = IF n.err = "Ok" THEN M(n.v, n.rest) ELSE n
      OBVIOUS
    <3>3. n = ReadU16(d.rest)
      OBVIOUS
    <3> HIDE DEF d, n, M, o, O
    <3> QED
      BY <3>1, <3>2, <3>3 DEF Then
  <2>4. p = P(l.rest)
    OBVIOUS
  <2>5. \A data, patches, patch : Step(data, patches, patch) = S(t.v, s.v, l.v, data, patches, patch)
    OBVIOUS
  <2> HIDE DEF S, D, O, P, t, s, l, p, d, o, Step
  <2>6. s = ReadByte(t.rest) /\ l = ReadByte(s.rest)
    BY DEF s, l
  <2> DEFINE R(kind, start, len, r) ==
               IF kind = 2 THEN Then(P(r), LAMBDA q, r2 : Read(S(kind, start, len, << >>, << >>, q), r2))
               ELSE Then(D(r), LAMBDA data, r2 :
                      IF kind = 0 THEN Read(S(kind, start, len, data, << >>, NoPatch), r2)
                      ELSE Then(O(r2), LAMBDA ps, r3 : Read(S(kind, start, len, data, ps, NoPatch), r3)))
  <2>7. R(t.v, s.v, l.v, l.rest) = third
    <3>1. CASE t.v = 2
      BY <2>4, <2>5, <3>1 DEF Then
    <3>2. CASE t.v # 2
      BY <2>2, <2>3, <2>5, <3>2 DEF Then
    <3> QED
      BY <3>1, <3>2
  <2>8. DecodeStep(b) =
          Then(t, LAMBDA kind, b1 : Then(ReadByte(b1), LAMBDA start, b2 : Then(ReadByte(b2), LAMBDA len, b3 :
            R(kind, start, len, b3))))
    BY <2>1
  <2> HIDE DEF R, third
  <2> QED
    BY <2>6, <2>7, <2>8 DEF Then
<1>2. t \in Reading(0 .. 3 - 1)
  BY ReadTagTyped
<1> HIDE DEF t
<1>3. ASSUME t.v \in 0 .. 3 - 1, t.rest \in Seq(Byte) PROVE first \in Reading(Steps)
  <2>1. s \in Reading(Byte)
    BY <1>3, ReadByteTyped
  <2> HIDE DEF s
  <2>2. ASSUME s.v \in Byte, s.rest \in Seq(Byte) PROVE second \in Reading(Steps)
    <3>1. l \in Reading(Byte)
      BY <2>2, ReadByteTyped
    <3> HIDE DEF l
    <3>2. ASSUME l.v \in Byte, l.rest \in Seq(Byte) PROVE third \in Reading(Steps)
      <4>1. ASSUME NEW data \in Seq(Byte), NEW patches \in Seq(Overlays), NEW patch \in Patches
            PROVE  Step(data, patches, patch) \in Steps
        BY <1>3, <2>2, <3>2, <4>1 DEF Steps
      <4>2. NoPatch \in Patches /\ << >> \in Seq(Byte) /\ << >> \in Seq(Overlays)
        BY EmptySeq DEF NoPatch, Patches
      <4> HIDE DEF Step
      <4>3. p \in Reading(Patches)
        BY <3>2, DecodePatchTyped
      <4> HIDE DEF p
      <4>4. structured \in Reading(Steps)
        <5>1. ASSUME p.v \in Patches, p.rest \in Seq(Byte)
              PROVE  Read(Step(<< >>, << >>, p.v), p.rest) \in Reading(Steps)
          BY <4>1, <4>2, <5>1, ReadIsReading
        <5> QED
          BY <4>3, <5>1, ReadAfter
      <4>5. c \in Reading(Nat)
        BY <3>2, ReadU16Typed
      <4> HIDE DEF c
      <4>6. d \in Reading(Seq(Byte))
        <5>1. ASSUME c.v \in Nat, c.rest \in Seq(Byte) PROVE ReadData(c.v, c.rest) \in Reading(Seq(Byte))
          BY <5>1, ReadDataTyped
        <5> QED
          BY <4>5, <5>1, ReadAfter
      <4> HIDE DEF d
      <4>7. ASSUME d.v \in Seq(Byte), d.rest \in Seq(Byte) PROVE raw \in Reading(Steps)
        <5>1. n \in Reading(Nat)
          BY <4>7, ReadU16Typed
        <5> HIDE DEF n
        <5>2. o \in Reading(Seq(Overlays))
          <6>1. ASSUME n.v \in Nat, n.rest \in Seq(Byte)
                PROVE  ReadMany(DecodeOverlay, n.v, n.rest) \in Reading(Seq(Overlays))
            <7> DEFINE reader == [r \in Seq(Byte) |-> DecodeOverlay(r)]
            <7>1. ReadMany(DecodeOverlay, n.v, n.rest) = ReadEach([k \in 1 .. n.v |-> reader], n.rest)
              BY DEF ReadMany, Reader
            <7>2. \A r \in Seq(Byte) : reader[r] \in Reading(Overlays)
              BY DecodeOverlayTyped
            <7> HIDE DEF reader
            <7>3. ReadEach([k \in 1 .. n.v |-> reader], n.rest)
                    \in Reading({vs \in Seq(Overlays) : Len(vs) = n.v})
              BY <6>1, <7>2, ReadManyTyped
            <7> QED
              BY <7>1, <7>3, ReadingMore
          <6> DEFINE many == ReadMany(DecodeOverlay, n.v, n.rest)
          <6> HIDE DEF many
          <6> QED
            BY <5>1, <6>1, ReadAfter DEF many
        <5> HIDE DEF o
        <5>3. patched \in Reading(Steps)
          <6>1. ASSUME o.v \in Seq(Overlays), o.rest \in Seq(Byte)
                PROVE  Read(Step(d.v, o.v, NoPatch), o.rest) \in Reading(Steps)
            BY <4>1, <4>2, <4>7, <6>1, ReadIsReading
          <6> QED
            BY <5>2, <6>1, ReadAfter
        <5> HIDE DEF patched
        <5>4. Read(Step(d.v, << >>, NoPatch), d.rest) \in Reading(Steps)
          BY <4>1, <4>2, <4>7, ReadIsReading
        <5> QED
          BY <5>3, <5>4
      <4> HIDE DEF raw
      <4>8. rest \in Reading(Steps)
        BY <4>6, <4>7, ReadAfter
      <4> HIDE DEF structured, rest
      <4> QED
        BY <4>4, <4>8
    <3> HIDE DEF third
    <3> QED
      BY <3>1, <3>2, ReadAfter
  <2> HIDE DEF second
  <2> QED
    BY <2>1, <2>2, ReadAfter
<1> HIDE DEF first
<1> QED
  BY <1>1, <1>2, <1>3, ReadAfter

Arms == [kind : {"skip", "revert", "cpi"}, steps : Seq(Steps)]

LEMMA DecodeArmTyped ==
  ASSUME NEW b \in Seq(Byte)
  PROVE  DecodeArm(b) \in Reading(Arms)
<1> DEFINE t == ReadByte(b)
           kind == ArmKind(t.v)
           d == ReadMany(DecodeStep, t.v, t.rest)
           empty == Read([kind |-> kind, steps |-> << >>], t.rest)
           full == IF d.err = "Ok" THEN Read([kind |-> "cpi", steps |-> d.v], d.rest) ELSE d
           next == IF kind # "cpi" THEN empty ELSE full
<1>1. DecodeArm(b) = IF t.err = "Ok" THEN next ELSE t
  <2> DEFINE M(k, r) == ReadMany(DecodeStep, k, r)
  <2>1. DecodeArm(b) =
          Then(t, LAMBDA tag, rest :
            IF ArmKind(tag) # "cpi" THEN Read([kind |-> ArmKind(tag), steps |-> << >>], rest)
            ELSE Then(M(tag, rest), LAMBDA steps, r : Read([kind |-> "cpi", steps |-> steps], r)))
    BY DEF DecodeArm
  <2>2. d = M(t.v, t.rest)
    OBVIOUS
  <2> HIDE DEF t, d, M
  <2> QED
    BY <2>1, <2>2 DEF Then
<1>2. t \in Reading(Byte)
  BY ReadByteTyped
<1> HIDE DEF t
<1>3. ASSUME t.v \in Byte, t.rest \in Seq(Byte) PROVE next \in Reading(Arms)
  <2>1. empty \in Reading(Arms)
    <3>1. [kind |-> kind, steps |-> << >>] \in Arms
      BY DEF Arms, ArmKind
    <3> HIDE DEF kind
    <3> QED
      BY <1>3, <3>1, ReadIsReading
  <2>2. d \in Reading(Seq(Steps))
    <3> DEFINE reader == [r \in Seq(Byte) |-> DecodeStep(r)]
    <3>1. d = ReadEach([k \in 1 .. t.v |-> reader], t.rest)
      BY DEF ReadMany, Reader
    <3>2. \A r \in Seq(Byte) : reader[r] \in Reading(Steps)
      BY DecodeStepTyped
    <3> HIDE DEF reader, d
    <3>3. t.v \in Nat
      BY <1>3, ByteIsNat
    <3>4. d \in Reading({vs \in Seq(Steps) : Len(vs) = t.v})
      BY <1>3, <3>1, <3>2, <3>3, ReadManyTyped
    <3>5. {vs \in Seq(Steps) : Len(vs) = t.v} \subseteq Seq(Steps)
      OBVIOUS
    <3> QED
      BY <3>4, <3>5, ReadingMore
  <2> HIDE DEF d
  <2>3. full \in Reading(Arms)
    <3>1. ASSUME d.v \in Seq(Steps), d.rest \in Seq(Byte)
          PROVE  Read([kind |-> "cpi", steps |-> d.v], d.rest) \in Reading(Arms)
      <4>1. [kind |-> "cpi", steps |-> d.v] \in Arms
        BY <3>1 DEF Arms
      <4> QED
        BY <3>1, <4>1, ReadIsReading
    <3> QED
      BY <2>2, <3>1, ReadAfter
  <2> HIDE DEF empty, full
  <2> QED
    BY <2>1, <2>3
<1> HIDE DEF next
<1> QED
  BY <1>1, <1>2, <1>3, ReadAfter

\* What the program reads.
Names ==
  {"create_frame", "close_frame", "reset_frame", "let", "assert", "assert_multi", "patched_cpi", "if_else"}
Decoded ==
  {s \in [ix : Names, args : Seq(Int), conds : Seq(Terms_(1)), bindings : Seq(WireBindings), arms : Seq(Arms)] :
     /\ s.ix \in {"assert", "if_else"} => Len(s.conds) = 1
     /\ s.ix = "if_else" => Len(s.arms) = 2
     /\ s.ix = "patched_cpi" => \E step \in Steps : s.arms = OneStep(step)}

LEMMA InstructionsAre == Instructions \in Seq(Names) /\ Len(Instructions) = 8
<1>1. Instructions \in Seq(Names)
  BY DEF Instructions, Names
<1>2. Len(Instructions) = 8
  BY DEF Instructions
<1> QED
  BY <1>1, <1>2

LEMMA CreateArgsTyped == CreateArgs \in Seq(Type \cup {"ValueType"})
<1> DEFINE S == Type \cup {"ValueType"}
<1>1. "Pubkey" \in S /\ "U32" \in S
  BY DEF Type, Ordered, Int_, Unsigned
<1> HIDE DEF S
<1>2. CreateArgs \in Seq(S)
  BY <1>1 DEF CreateArgs
<1> QED
  BY <1>2 DEF S

\* A list of elements behind a count, by one reader.
LEMMA ReadListTyped ==
  ASSUME NEW S, NEW reader, \A r \in Seq(Byte) : reader[r] \in Reading(S), NEW b \in Seq(Byte), NEW d,
         d = IF ReadByte(b).err = "Ok"
             THEN ReadEach([k \in 1 .. ReadByte(b).v |-> reader], ReadByte(b).rest) ELSE ReadByte(b)
  PROVE  d \in Reading(Seq(S))
<1> DEFINE c == ReadByte(b)
           many == ReadEach([k \in 1 .. c.v |-> reader], c.rest)
<1>1. c \in Reading(Byte)
  BY ReadByteTyped
<1>2. d = IF c.err = "Ok" THEN many ELSE c
  OBVIOUS
<1> HIDE DEF c
<1>3. ASSUME c.v \in Byte, c.rest \in Seq(Byte) PROVE many \in Reading(Seq(S))
  <2>1. c.v \in Nat
    BY <1>3, ByteIsNat
  <2>2. many \in Reading({vs \in Seq(S) : Len(vs) = c.v})
    BY <1>3, <2>1, ReadManyTyped
  <2>3. {vs \in Seq(S) : Len(vs) = c.v} \subseteq Seq(S)
    OBVIOUS
  <2> HIDE DEF many
  <2> QED
    BY <2>2, <2>3, ReadingMore
<1> HIDE DEF many
<1> QED
  BY <1>1, <1>2, <1>3, ReadAfter

LEMMA StatementsDecoded ==
  /\ \A ix \in {"create_frame", "close_frame", "reset_frame"} : Statement(ix, << >>, << >>, << >>) \in Decoded
  /\ \A args \in Seq(Int) : [Statement("create_frame", << >>, << >>, << >>) EXCEPT !.args = args] \in Decoded
  /\ \A bs \in Seq(WireBindings) : Statement("let", << >>, bs, << >>) \in Decoded
  /\ \A e \in Terms_(1) : Statement("assert", <<e>>, << >>, << >>) \in Decoded
  /\ \A es \in Seq(Terms_(1)) : Statement("assert_multi", es, << >>, << >>) \in Decoded
  /\ \A step \in Steps : Statement("patched_cpi", << >>, << >>, OneStep(step)) \in Decoded
  /\ \A e \in Terms_(1) : \A arms \in Seq(Arms) : Len(arms) = 2 => Statement("if_else", <<e>>, << >>, arms) \in Decoded
<1> DEFINE R == [ix : Names, args : Seq(Int), conds : Seq(Terms_(1)), bindings : Seq(WireBindings), arms : Seq(Arms)]
<1>1. << >> \in Seq(Int) /\ << >> \in Seq(Terms_(1)) /\ << >> \in Seq(WireBindings) /\ << >> \in Seq(Arms)
  BY EmptySeq
<1>2. ASSUME NEW ix \in Names, NEW es \in Seq(Terms_(1)), NEW bs \in Seq(WireBindings), NEW arms \in Seq(Arms)
      PROVE  Statement(ix, es, bs, arms) \in R
  BY <1>1 DEF Statement
<1>3. ASSUME NEW ix, NEW es, NEW bs, NEW arms
      PROVE  LET s == Statement(ix, es, bs, arms) IN s.ix = ix /\ s.conds = es /\ s.arms = arms
  BY DEF Statement
<1>4. \A e \in Terms_(1) : <<e>> \in Seq(Terms_(1)) /\ Len(<<e>>) = 1
  OBVIOUS
<1>5. ASSUME NEW s \in R, s.ix \in {"assert", "if_else"} => Len(s.conds) = 1, s.ix = "if_else" => Len(s.arms) = 2,
             s.ix = "patched_cpi" => \E step \in Steps : s.arms = OneStep(step)
      PROVE  s \in Decoded
  BY <1>5 DEF Decoded
<1> HIDE DEF R
<1>6. ASSUME NEW ix \in {"create_frame", "close_frame", "reset_frame"} PROVE Statement(ix, << >>, << >>, << >>) \in Decoded
  <2>1. ix \in Names
    BY DEF Names
  <2> QED
    BY <1>1, <1>2, <1>3, <1>5, <2>1
<1>7. ASSUME NEW args \in Seq(Int)
      PROVE  [Statement("create_frame", << >>, << >>, << >>) EXCEPT !.args = args] \in Decoded
  <2> DEFINE s == [Statement("create_frame", << >>, << >>, << >>) EXCEPT !.args = args]
  <2>1. s = [ix |-> "create_frame", args |-> args, conds |-> << >>, bindings |-> << >>, arms |-> << >>]
    BY DEF Statement
  <2>2. s \in R
    BY <1>1, <2>1 DEF R, Names
  <2> QED
    BY <1>5, <2>1, <2>2
<1>8. ASSUME NEW bs \in Seq(WireBindings) PROVE Statement("let", << >>, bs, << >>) \in Decoded
  <2>1. "let" \in Names
    BY DEF Names
  <2> DEFINE s == Statement("let", << >>, bs, << >>)
  <2>3. s \in R
    BY <1>1, <1>2, <2>1
  <2>4. s.ix = "let" /\ s.conds = << >> /\ s.arms = << >>
    BY <1>3
  <2> HIDE DEF s
  <2>5. s \in Decoded
    BY <1>4, <1>5, <2>3, <2>4
  <2> QED
    BY <2>5 DEF s
<1>9. ASSUME NEW e \in Terms_(1) PROVE Statement("assert", <<e>>, << >>, << >>) \in Decoded
  <2>1. "assert" \in Names
    BY DEF Names
  <2> DEFINE s == Statement("assert", <<e>>, << >>, << >>)
  <2>3. s \in R
    BY <1>1, <1>4, <1>2, <2>1
  <2>4. s.ix = "assert" /\ s.conds = <<e>> /\ s.arms = << >>
    BY <1>3
  <2> HIDE DEF s
  <2>5. s \in Decoded
    BY <1>4, <1>5, <2>3, <2>4
  <2> QED
    BY <2>5 DEF s
<1>10. ASSUME NEW es \in Seq(Terms_(1)) PROVE Statement("assert_multi", es, << >>, << >>) \in Decoded
  <2>1. "assert_multi" \in Names
    BY DEF Names
  <2> DEFINE s == Statement("assert_multi", es, << >>, << >>)
  <2>3. s \in R
    BY <1>1, <1>2, <2>1
  <2>4. s.ix = "assert_multi" /\ s.conds = es /\ s.arms = << >>
    BY <1>3
  <2> HIDE DEF s
  <2>5. s \in Decoded
    BY <1>4, <1>5, <2>3, <2>4
  <2> QED
    BY <2>5 DEF s
<1>11. ASSUME NEW step \in Steps PROVE Statement("patched_cpi", << >>, << >>, OneStep(step)) \in Decoded
  <2>1. "patched_cpi" \in Names
    BY DEF Names
  <2>2. OneStep(step) \in Seq(Arms)
    <3>1. << step >> \in Seq(Steps)
      OBVIOUS
    <3>2. [kind |-> "cpi", steps |-> <<step>>] \in Arms
      BY <3>1 DEF Arms
    <3> HIDE DEF R
    <3> QED
      BY <3>2 DEF OneStep
  <2> DEFINE s == Statement("patched_cpi", << >>, << >>, OneStep(step))
  <2>3. s \in R
    BY <1>1, <1>2, <2>1, <2>2
  <2>4. s.ix = "patched_cpi" /\ s.conds = << >> /\ s.arms = OneStep(step)
    BY <1>3
  <2> HIDE DEF s
  <2>5. s \in Decoded
    BY <1>4, <1>5, <2>3, <2>4
  <2> QED
    BY <2>5 DEF s
<1>12. ASSUME NEW e \in Terms_(1), NEW arms \in Seq(Arms), Len(arms) = 2
       PROVE  Statement("if_else", <<e>>, << >>, arms) \in Decoded
  <2>1. "if_else" \in Names
    BY DEF Names
  <2> DEFINE s == Statement("if_else", <<e>>, << >>, arms)
  <2>3. s \in R
    BY <1>1, <1>4, <1>2, <2>1
  <2>4. s.ix = "if_else" /\ s.conds = <<e>> /\ s.arms = arms
    BY <1>3
  <2> HIDE DEF s
  <2>5. s \in Decoded
    BY <1>4, <1>5, <1>12, <2>3, <2>4
  <2> QED
    BY <2>5 DEF s
<1> QED
  BY <1>6, <1>7, <1>8, <1>9, <1>10, <1>11, <1>12

LEMMA DecodeTyped ==
  ASSUME NEW b \in Seq(Byte)
  PROVE  Decode(b) \in Reading(Decoded)
<1> DEFINE t == ReadTag(Len(Instructions), b)
           Create(ix, rest) ==
             Then(ReadFields(CreateArgs, rest),
                  LAMBDA args, r : Read([Statement(ix, << >>, << >>, << >>) EXCEPT !.args = args], r))
           Let_(rest) == Then(ReadList(ReadByte, DecodeBinding, rest),
                              LAMBDA bs, r : Read(Statement("let", << >>, bs, << >>), r))
           One(rest) == Then(DecodeExpr(rest), LAMBDA e, r : Read(Statement("assert", <<e>>, << >>, << >>), r))
           Multi(rest) == Then(ReadList(ReadByte, DecodeExpr, rest),
                               LAMBDA es, r : Read(Statement("assert_multi", es, << >>, << >>), r))
           Cpi(rest) == Then(DecodeStep(rest),
                             LAMBDA s, r : Read(Statement("patched_cpi", << >>, << >>, OneStep(s)), r))
           Two(rest) == ReadMany(DecodeArm, 2, rest)
           If(rest) == Then(DecodeExpr(rest), LAMBDA e, r :
                         Then(Two(r), LAMBDA arms, r2 : Read(Statement("if_else", <<e>>, << >>, arms), r2)))
           Body(ix, rest) ==
             CASE ix = "create_frame" -> Create(ix, rest)
               [] ix = "let" -> Then(ReadList(ReadByte, DecodeBinding, rest),
                                     LAMBDA bs, r : Read(Statement(ix, << >>, bs, << >>), r))
               [] ix = "assert" -> Then(DecodeExpr(rest), LAMBDA e, r : Read(Statement(ix, <<e>>, << >>, << >>), r))
               [] ix = "assert_multi" -> Then(ReadList(ReadByte, DecodeExpr, rest),
                                              LAMBDA es, r : Read(Statement(ix, es, << >>, << >>), r))
               [] ix = "patched_cpi" -> Then(DecodeStep(rest),
                                             LAMBDA s, r : Read(Statement(ix, << >>, << >>, OneStep(s)), r))
               [] ix = "if_else" -> Then(DecodeExpr(rest), LAMBDA e, r :
                                      Then(Two(r), LAMBDA arms, r2 : Read(Statement(ix, <<e>>, << >>, arms), r2)))
               [] OTHER -> Read(Statement(ix, << >>, << >>, << >>), rest)
           ix_ == Instructions[t.v + 1]
           next == Body(ix_, t.rest)
<1>1. Decode(b) = IF t.err = "Ok" THEN next ELSE t
  <2>1. Decode(b) = Then(t, LAMBDA disc, rest : Body(Instructions[disc + 1], rest))
    BY DEF Decode
  <2> HIDE DEF t, Body
  <2> QED
    BY <2>1 DEF Then
<1>2. t \in Reading(0 .. 8 - 1)
  BY ReadTagTyped, InstructionsAre
<1> HIDE DEF t
<1>3. \A rest : /\ Body("create_frame", rest) = Create("create_frame", rest)
                /\ Body("let", rest) = Let_(rest) /\ Body("assert", rest) = One(rest)
                /\ Body("assert_multi", rest) = Multi(rest) /\ Body("patched_cpi", rest) = Cpi(rest)
                /\ Body("if_else", rest) = If(rest)
                /\ \A ix \in {"close_frame", "reset_frame"} : Body(ix, rest) = Read(Statement(ix, << >>, << >>, << >>), rest)
  OBVIOUS
<1> HIDE DEF Body
<1>4. ASSUME NEW rest \in Seq(Byte) PROVE Create("create_frame", rest) \in Reading(Decoded)
  <2> DEFINE d == ReadFields(CreateArgs, rest)
             s(args) == [Statement("create_frame", << >>, << >>, << >>) EXCEPT !.args = args]
  <2>1. Create("create_frame", rest) = IF d.err = "Ok" THEN Read(s(d.v), d.rest) ELSE d
    BY DEF Then
  <2>2. d \in Reading(Seq(Int))
    <3>1. {vs \in Seq(Int) : Len(vs) = Len(CreateArgs)} \subseteq Seq(Int)
      OBVIOUS
    <3>2. d \in Reading({vs \in Seq(Int) : Len(vs) = Len(CreateArgs)})
      BY CreateArgsTyped, ReadFieldsTyped
    <3> QED
      BY <3>1, <3>2, ReadingMore
  <2>3. \A args \in Seq(Int) : s(args) \in Decoded
    BY StatementsDecoded
  <2> HIDE DEF Create, d, s
  <2>4. d.err = "Ok" /\ d.v \in Seq(Int) /\ d.rest \in Seq(Byte) => Read(s(d.v), d.rest) \in Reading(Decoded)
    BY <2>3, ReadIsReading
  <2> QED
    BY <2>1, <2>2, <2>4, ReadAfter
<1>5. ASSUME NEW rest \in Seq(Byte) PROVE Let_(rest) \in Reading(Decoded)
  <2> DEFINE d == ReadList(ReadByte, DecodeBinding, rest)
             s(bs) == Statement("let", << >>, bs, << >>)
             reader == [r \in Seq(Byte) |-> DecodeBinding(r)]
  <2>1. Let_(rest) = IF d.err = "Ok" THEN Read(s(d.v), d.rest) ELSE d
    <3> HIDE DEF d
    <3>1. Let_(rest) = Then(d, LAMBDA bs, r : Read(s(bs), r))
      BY DEF d
    <3> QED
      BY <3>1 DEF Then
  <2>2. d \in Reading(Seq(WireBindings))
    <3>1. d = IF ReadByte(rest).err = "Ok"
              THEN ReadEach([k \in 1 .. ReadByte(rest).v |-> reader], ReadByte(rest).rest) ELSE ReadByte(rest)
      BY DEF ReadList, ReadMany, Reader, Then
    <3>2. \A r \in Seq(Byte) : reader[r] \in Reading(WireBindings)
      BY DecodeBindingTyped
    <3> HIDE DEF d, reader
    <3> QED
      BY <3>1, <3>2, ReadListTyped
  <2>3. \A bs \in Seq(WireBindings) : s(bs) \in Decoded
    BY StatementsDecoded
  <2> HIDE DEF Let_, d, s
  <2>4. d.err = "Ok" /\ d.v \in Seq(WireBindings) /\ d.rest \in Seq(Byte) => Read(s(d.v), d.rest) \in Reading(Decoded)
    BY <2>3, ReadIsReading
  <2> QED
    BY <2>1, <2>2, <2>4, ReadAfter
<1>6. ASSUME NEW rest \in Seq(Byte) PROVE One(rest) \in Reading(Decoded)
  <2> DEFINE d == DecodeExpr(rest)
             s(e) == Statement("assert", <<e>>, << >>, << >>)
  <2>1. One(rest) = IF d.err = "Ok" THEN Read(s(d.v), d.rest) ELSE d
    BY DEF Then
  <2>2. d \in Reading(Terms_(1)) /\ \A e \in Terms_(1) : s(e) \in Decoded
    BY DecodeExprTyped, StatementsDecoded
  <2> HIDE DEF One, d, s
  <2>3. d.err = "Ok" /\ d.v \in Terms_(1) /\ d.rest \in Seq(Byte) => Read(s(d.v), d.rest) \in Reading(Decoded)
    BY <2>2, ReadIsReading
  <2> QED
    BY <2>1, <2>2, <2>3, ReadAfter
<1>7. ASSUME NEW rest \in Seq(Byte) PROVE Multi(rest) \in Reading(Decoded)
  <2> DEFINE d == ReadList(ReadByte, DecodeExpr, rest)
             s(es) == Statement("assert_multi", es, << >>, << >>)
             reader == [r \in Seq(Byte) |-> DecodeExpr(r)]
  <2>1. Multi(rest) = IF d.err = "Ok" THEN Read(s(d.v), d.rest) ELSE d
    <3> HIDE DEF d
    <3>1. Multi(rest) = Then(d, LAMBDA es, r : Read(s(es), r))
      BY DEF d
    <3> QED
      BY <3>1 DEF Then
  <2>2. d \in Reading(Seq(Terms_(1)))
    <3>1. d = IF ReadByte(rest).err = "Ok"
              THEN ReadEach([k \in 1 .. ReadByte(rest).v |-> reader], ReadByte(rest).rest) ELSE ReadByte(rest)
      BY DEF ReadList, ReadMany, Reader, Then
    <3>2. \A r \in Seq(Byte) : reader[r] \in Reading(Terms_(1))
      BY DecodeExprTyped
    <3> HIDE DEF d, reader
    <3> QED
      BY <3>1, <3>2, ReadListTyped
  <2>3. \A es \in Seq(Terms_(1)) : s(es) \in Decoded
    BY StatementsDecoded
  <2> HIDE DEF Multi, d, s
  <2>4. d.err = "Ok" /\ d.v \in Seq(Terms_(1)) /\ d.rest \in Seq(Byte) => Read(s(d.v), d.rest) \in Reading(Decoded)
    BY <2>3, ReadIsReading
  <2> QED
    BY <2>1, <2>2, <2>4, ReadAfter
<1>8. ASSUME NEW rest \in Seq(Byte) PROVE Cpi(rest) \in Reading(Decoded)
  <2> DEFINE d == DecodeStep(rest)
             s(step) == Statement("patched_cpi", << >>, << >>, OneStep(step))
  <2>1. Cpi(rest) = IF d.err = "Ok" THEN Read(s(d.v), d.rest) ELSE d
    BY DEF Then
  <2>2. d \in Reading(Steps) /\ \A step \in Steps : s(step) \in Decoded
    BY DecodeStepTyped, StatementsDecoded
  <2> HIDE DEF Cpi, d, s
  <2>3. d.err = "Ok" /\ d.v \in Steps /\ d.rest \in Seq(Byte) => Read(s(d.v), d.rest) \in Reading(Decoded)
    BY <2>2, ReadIsReading
  <2> QED
    BY <2>1, <2>2, <2>3, ReadAfter
<1>9. ASSUME NEW rest \in Seq(Byte) PROVE If(rest) \in Reading(Decoded)
  <2> DEFINE e == DecodeExpr(rest)
             d == Two(e.rest)
             s(c, arms) == Statement("if_else", <<c>>, << >>, arms)
             last == IF d.err = "Ok" THEN Read(s(e.v, d.v), d.rest) ELSE d
             A == {arms \in Seq(Arms) : Len(arms) = 2}
  <2>1. If(rest) = IF e.err = "Ok" THEN last ELSE e
    <3> HIDE DEF Two
    <3> QED
      BY DEF Then
  <2>2. e \in Reading(Terms_(1)) /\ \A c \in Terms_(1) : \A arms \in A : s(c, arms) \in Decoded
    BY DecodeExprTyped, StatementsDecoded
  <2>3. ASSUME NEW r \in Seq(Byte) PROVE Two(r) \in Reading(A)
    <3> DEFINE reader == [q \in Seq(Byte) |-> DecodeArm(q)]
    <3>1. Two(r) = ReadEach([k \in 1 .. 2 |-> reader], r)
      BY DEF ReadMany, Reader
    <3>2. \A q \in Seq(Byte) : reader[q] \in Reading(Arms)
      BY DecodeArmTyped
    <3> HIDE DEF reader, Two
    <3>3. 2 \in Nat
      OBVIOUS
    <3>4. ReadEach([k \in 1 .. 2 |-> reader], r) \in Reading({vs \in Seq(Arms) : Len(vs) = 2})
      BY <3>2, <3>3, ReadManyTyped, Zenon
    <3> QED
      BY <3>1, <3>4
  <2> HIDE DEF If, e, s, A, Two
  <2>4. ASSUME e.v \in Terms_(1), e.rest \in Seq(Byte) PROVE last \in Reading(Decoded)
    <3>1. d \in Reading(A)
      BY <2>3, <2>4
    <3> HIDE DEF d
    <3>2. d.err = "Ok" /\ d.v \in A /\ d.rest \in Seq(Byte) => Read(s(e.v, d.v), d.rest) \in Reading(Decoded)
      BY <2>2, <2>4, ReadIsReading
    <3> QED
      BY <3>1, <3>2, ReadAfter
  <2> HIDE DEF last
  <2> QED
    BY <2>1, <2>2, <2>4, ReadAfter
<1>10. ASSUME NEW rest \in Seq(Byte), NEW ix \in {"close_frame", "reset_frame"}
       PROVE  Read(Statement(ix, << >>, << >>, << >>), rest) \in Reading(Decoded)
  BY StatementsDecoded, ReadIsReading
<1> HIDE DEF Create, Let_, One, Multi, Cpi, If
<1>11. ASSUME NEW ix \in Names, NEW rest \in Seq(Byte) PROVE Body(ix, rest) \in Reading(Decoded)
  BY <1>3, <1>4, <1>5, <1>6, <1>7, <1>8, <1>9, <1>10 DEF Names
<1>12. t.v \in 0 .. 8 - 1 /\ t.rest \in Seq(Byte) => next \in Reading(Decoded)
  <2>1. t.v \in 0 .. 8 - 1 => t.v + 1 \in 1 .. 8
    OBVIOUS
  <2> QED
    BY <1>11, <2>1, InstructionsAre, ElementOfSeq
<1> HIDE DEF next
<1> QED
  BY <1>1, <1>2, <1>12, ReadAfter

-----------------------------------------------------------------------------
(* Writing lists.                                                          *)

LEMMA FlattenEmpty == FlattenSeq(<< >>) = << >>
BY EmptySeq DEF FlattenSeq

\* f[k] is what the first k elements of s are flattened to.
Flattens(f, s) ==
  /\ FlattenSeq(s) = f[Len(s)] /\ f[1] = s[1]
  /\ \A k \in 2 .. Len(s) : f[k] = f[k - 1] \o s[k]

LEMMA FlattenRecursion ==
  ASSUME NEW S, NEW s \in Seq(Seq(S)), Len(s) > 0
  PROVE  \E f : Flattens(f, s) /\ \A k \in 1 .. Len(s) : f[k] \in Seq(S)
<1> DEFINE n == Len(s)
           m == n - 1
           T == Seq(S)
           I == [k \in 0 .. m |-> T]
           step == [p \in (1 .. m) \X T |-> p[2] \o s[p[1] + 1]]
           E(g) == g = [i \in 1 .. n |-> IF i = 1 THEN s[i] ELSE g[i - 1] \o s[i]]
           flat == CHOOSE g : E(g)
<1>1. n \in Nat /\ n > 0 /\ m \in Nat /\ n = m + 1
  BY LenProperties
<1>2. \A k \in 1 .. n : s[k] \in T
  BY ElementOfSeq
<1>3. FlattenSeq(s) = flat[n]
  BY <1>1 DEF FlattenSeq
<1> HIDE DEF n, m
<1>4. ASSUME NEW k \in 1 .. m, NEW u \in T PROVE step[<<k, u>>] = u \o s[k + 1] /\ step[<<k, u>>] \in T
  <2>1. k + 1 \in 1 .. n
    BY <1>1
  <2>2. s[k + 1] \in T
    BY <1>2, <2>1
  <2>3. step[<<k, u>>] = u \o s[k + 1]
    BY <1>4
  <2> QED
    BY <2>2, <2>3, ConcatProperties
<1>5. \A k \in 0 .. m : I[k] = T
  OBVIOUS
<1> HIDE DEF T, I, step
<1>6. PICK f : Iterates(f, m, I, s[1], step)
  <2>1. 1 \in 1 .. n /\ 0 \in 0 .. m
    BY <1>1
  <2>2. s[1] \in I[0]
    BY <1>2, <1>5, <2>1
  <2>3. ASSUME NEW k \in 1 .. m, NEW u \in I[k - 1] PROVE step[<<k, u>>] \in I[k]
    <3>1. k \in 0 .. m /\ k - 1 \in 0 .. m
      BY <1>1
    <3> QED
      BY <1>4, <1>5, <3>1
  <2> QED
    BY <1>1, <2>2, <2>3, Iteration
<1> DEFINE h == [i \in 1 .. n |-> f[i - 1]]
<1>7. \A i \in 1 .. n : h[i] = f[i - 1]
  OBVIOUS
<1>8. h = [i \in 1 .. n |-> h[i]]
  OBVIOUS
<1> HIDE DEF h
<1>9. E(h)
  <2>1. ASSUME NEW i \in 1 .. n PROVE h[i] = IF i = 1 THEN s[i] ELSE h[i - 1] \o s[i]
    <3>1. CASE i = 1
      <4>1. f[0] = s[1]
        BY <1>6 DEF Iterates
      <4>2. h[i] = f[0]
        BY <1>7, <3>1
      <4> QED
        BY <3>1, <4>1, <4>2
    <3>2. CASE i # 1
      <4>1. i - 1 \in 1 .. m /\ i - 1 \in 1 .. n /\ (i - 1) - 1 \in 0 .. m /\ (i - 1) + 1 = i
        BY <1>1, <3>2
      <4>2. f[(i - 1) - 1] \in T /\ f[i - 1] = step[<<i - 1, f[(i - 1) - 1]>>]
        BY <1>5, <1>6, <4>1 DEF Iterates
      <4> QED
        BY <1>4, <1>7, <3>2, <4>1, <4>2
    <3> QED
      BY <3>1, <3>2
  <2> QED
    BY <1>8, <2>1, Zenon
<1>10. E(flat)
  BY <1>9
<1> HIDE DEF flat
<1>11. ASSUME NEW i \in 1 .. n PROVE flat[i] = IF i = 1 THEN s[i] ELSE flat[i - 1] \o s[i]
  BY <1>10
<1> HIDE DEF E
<1> DEFINE P == {k \in 0 .. m : flat[k + 1] \in T}
<1>12. 0 \in P
  BY <1>1, <1>2, <1>11
<1>13. ASSUME NEW k \in 1 .. m, k - 1 \in P PROVE k \in P
  <2>1. k + 1 \in 1 .. n /\ k + 1 # 1 /\ (k + 1) - 1 = (k - 1) + 1 /\ k \in 0 .. m
    BY <1>1
  <2>2. flat[k + 1] = flat[(k - 1) + 1] \o s[k + 1] /\ s[k + 1] \in T /\ flat[(k - 1) + 1] \in T
    BY <1>2, <1>11, <1>13, <2>1
  <2>3. flat[k + 1] \in T
    BY <2>2, ConcatProperties DEF T
  <2> QED
    BY <2>1, <2>3
<1>14. \A k \in 0 .. m : flat[k + 1] \in T
  <2> HIDE DEF P
  <2>1. \A k \in 0 .. m : k \in P
    BY <1>1, <1>12, <1>13, NatInduct
  <2> QED
    BY <2>1 DEF P
<1>15. ASSUME NEW k \in 1 .. n PROVE flat[k] \in T
  <2>1. k - 1 \in 0 .. m /\ (k - 1) + 1 = k
    BY <1>1
  <2> QED
    BY <1>14, <2>1
<1>16. flat[1] = s[1] /\ \A k \in 2 .. n : flat[k] = flat[k - 1] \o s[k]
  <2>1. 1 \in 1 .. n /\ \A k \in 2 .. n : k \in 1 .. n /\ k # 1
    BY <1>1
  <2> QED
    BY <1>11, <2>1
<1>17. Flattens(flat, s)
  BY <1>3, <1>16 DEF n, Flattens
<1> QED
  BY <1>15, <1>17 DEF n, T

LEMMA FlattenTyped ==
  ASSUME NEW S, NEW s \in Seq(Seq(S))
  PROVE  FlattenSeq(s) \in Seq(S)
<1>1. Len(s) \in Nat
  BY LenProperties
<1>2. CASE Len(s) > 0
  <2>1. Len(s) \in 1 .. Len(s)
    BY <1>1, <1>2
  <2>2. PICK f : Flattens(f, s) /\ \A k \in 1 .. Len(s) : f[k] \in Seq(S)
    BY <1>2, FlattenRecursion
  <2> QED
    BY <2>1, <2>2 DEF Flattens
<1>3. CASE ~ (Len(s) > 0)
  <2>1. s = << >> /\ << >> \in Seq(S)
    BY <1>1, <1>3, EmptySeq
  <2> QED
    BY <2>1, FlattenEmpty
<1> QED
  BY <1>2, <1>3

LEMMA FlattenAppend ==
  ASSUME NEW S, NEW s \in Seq(Seq(S)), NEW w \in Seq(S)
  PROVE  FlattenSeq(Append(s, w)) = FlattenSeq(s) \o w
<1> DEFINE T == Seq(S)
           t == Append(s, w)
           n == Len(s)
<1>1. n \in Nat /\ t \in Seq(T) /\ Len(t) = n + 1 /\ t[n + 1] = w /\ \A k \in 1 .. n : t[k] = s[k]
  BY LenProperties, AppendProperties
<1> HIDE DEF t
<1>2. PICK g : Flattens(g, t)
  <2>1. t \in Seq(Seq(S)) /\ Len(t) > 0
    BY <1>1
  <2> QED
    BY <2>1, FlattenRecursion
<1>3. CASE n = 0
  <2>1. s = << >> /\ FlattenSeq(s) = << >>
    BY <1>3, EmptySeq, FlattenEmpty
  <2>2. FlattenSeq(t) = w
    BY <1>1, <1>2, <1>3 DEF Flattens
  <2> QED
    BY <2>1, <2>2, ConcatEmptySeq DEF t
<1>4. CASE n # 0
  <2>1. n > 0
    BY <1>1, <1>4
  <2>2. PICK f : Flattens(f, s)
    BY <2>1, FlattenRecursion
  <2>9. /\ FlattenSeq(s) = f[n] /\ f[1] = s[1] /\ \A k \in 2 .. n : f[k] = f[k - 1] \o s[k]
        /\ FlattenSeq(t) = g[n + 1] /\ g[1] = t[1] /\ \A k \in 2 .. n + 1 : g[k] = g[k - 1] \o t[k]
    BY <1>1, <1>2, <2>2 DEF Flattens
  <2> HIDE DEF n
  <2> DEFINE P == {k \in 0 .. n : k = 0 \/ f[k] = g[k]}
  <2>3. 0 \in P
    BY <1>1
  <2>4. ASSUME NEW k \in 1 .. n, k - 1 \in P PROVE k \in P
    <3>1. k \in 0 .. n
      BY <1>1
    <3>2. CASE k = 1
      <4>1. f[1] = g[1]
        BY <1>1, <2>9, <3>2
      <4> QED
        BY <3>1, <3>2, <4>1
    <3>3. CASE k # 1
      <4>1. k \in 2 .. n /\ k \in 2 .. n + 1 /\ k - 1 # 0
        BY <1>1, <3>3
      <4>2. f[k - 1] = g[k - 1] /\ s[k] = t[k]
        BY <1>1, <2>4, <4>1
      <4>3. f[k] = g[k]
        BY <2>9, <4>1, <4>2
      <4> QED
        BY <3>1, <4>3
    <3> QED
      BY <3>2, <3>3
  <2>5. \A k \in 0 .. n : k \in P
    <3> HIDE DEF P
    <3> QED
      BY <1>1, <2>3, <2>4, NatInduct
  <2>6. f[n] = g[n]
    BY <1>1, <1>4, <2>5
  <2>7. n + 1 \in 2 .. n + 1 /\ (n + 1) - 1 = n
    BY <1>1, <2>1
  <2>8. g[n + 1] = g[n] \o w
    BY <1>1, <2>7, <2>9
  <2> QED
    BY <2>6, <2>8, <2>9 DEF t
<1> QED
  BY <1>3, <1>4

LEMMA FlattenPrepend ==
  ASSUME NEW S, NEW w \in Seq(S), NEW s \in Seq(Seq(S))
  PROVE  FlattenSeq(<<w>> \o s) = w \o FlattenSeq(s)
<1> DEFINE T == Seq(S)
           n == Len(s)
           Part(k) == Leading(s, k)
           P == {k \in 0 .. n : FlattenSeq(<<w>> \o Part(k)) = w \o FlattenSeq(Part(k))}
<1>1. n \in Nat /\ <<w>> \in Seq(T)
  BY LenProperties
<1>2. \A k \in 0 .. n : Part(k) \in Seq(T) /\ Len(Part(k)) = k /\ \A j \in 1 .. k : Part(k)[j] = s[j]
  BY LeadingProperties
<1>3. ASSUME NEW k \in 1 .. n PROVE Part(k) = Append(Part(k - 1), s[k]) /\ s[k] \in T
  <2>1. k \in 0 .. n /\ k - 1 \in 0 .. n /\ s[k] \in T
    BY <1>1, ElementOfSeq
  <2> DEFINE u == Append(Part(k - 1), s[k])
  <2>2. u \in Seq(T) /\ Len(u) = k /\ u[k] = s[k] /\ \A j \in 1 .. k - 1 : u[j] = s[j]
    <3> HIDE DEF Part, T
    <3>1. Part(k - 1) \in Seq(T) /\ Len(Part(k - 1)) = k - 1 /\ \A j \in 1 .. k - 1 : Part(k - 1)[j] = s[j]
      BY <1>2, <2>1
    <3> QED
      BY <2>1, <3>1, AppendProperties
  <2> HIDE DEF u
  <2>3. Part(k) \in Seq(T) /\ Len(Part(k)) = k /\ \A j \in 1 .. k : Part(k)[j] = s[j]
    BY <1>2, <2>1
  <2> HIDE DEF Part, T
  <2>4. \A j \in 1 .. k : Part(k)[j] = u[j]
    <3>1. \A j \in 1 .. k : j = k \/ j \in 1 .. k - 1
      BY <1>1
    <3> QED
      BY <2>2, <2>3, <3>1
  <2>5. Part(k) = u
    BY <2>2, <2>3, <2>4, SeqEqual
  <2> QED
    BY <2>1, <2>5 DEF u
<1> HIDE DEF Part
<1>4. 0 \in P
  <2>1. 0 \in 0 .. n
    BY <1>1
  <2>2. Part(0) = << >>
    BY <1>2, <2>1, EmptySeq
  <2>3. <<w>> = Append(<< >>, w) /\ << >> \in Seq(T)
    BY EmptySeq
  <2>4. FlattenSeq(<<w>>) = w
    <3>1. FlattenSeq(Append(<< >>, w)) = FlattenSeq(<< >>) \o w
      BY <2>3, FlattenAppend
    <3> QED
      BY <2>3, <3>1, FlattenEmpty, ConcatEmptySeq
  <2>5. <<w>> \o << >> = <<w>> /\ w \o << >> = w
    BY <1>1, ConcatEmptySeq
  <2> QED
    BY <2>1, <2>2, <2>4, <2>5, FlattenEmpty
<1>5. ASSUME NEW k \in 1 .. n, k - 1 \in P PROVE k \in P
  <2>1. k \in 0 .. n /\ k - 1 \in 0 .. n
    BY <1>1
  <2> DEFINE u == Part(k - 1)
             x == s[k]
  <2>2. u \in Seq(T) /\ x \in T /\ Part(k) = Append(u, x)
    BY <1>2, <1>3, <2>1
  <2>3. FlattenSeq(<<w>> \o u) = w \o FlattenSeq(u)
    BY <1>5
  <2> HIDE DEF u, x
  <2>4. <<w>> \o Append(u, x) = Append(<<w>> \o u, x) /\ <<w>> \o u \in Seq(T)
    <3> HIDE DEF T
    <3>1. <<w>> \o u \in Seq(T) /\ <<x>> \in Seq(T)
      BY <1>1, <2>2, ConcatProperties
    <3>2. Append(u, x) = u \o <<x>> /\ Append(<<w>> \o u, x) = (<<w>> \o u) \o <<x>>
      BY <2>2, <3>1, AppendIsConcat
    <3>3. (<<w>> \o u) \o <<x>> = <<w>> \o (u \o <<x>>)
      BY <1>1, <2>2, <3>1, ConcatAssociative
    <3> QED
      BY <3>1, <3>2, <3>3
  <2>5. FlattenSeq(<<w>> \o Append(u, x)) = (w \o FlattenSeq(u)) \o x
    BY <2>2, <2>3, <2>4, FlattenAppend
  <2>6. FlattenSeq(Append(u, x)) = FlattenSeq(u) \o x /\ FlattenSeq(u) \in Seq(S)
    BY <2>2, FlattenAppend, FlattenTyped
  <2>7. (w \o FlattenSeq(u)) \o x = w \o (FlattenSeq(u) \o x)
    <3> DEFINE v == FlattenSeq(u)
    <3>1. v \in Seq(S) /\ x \in Seq(S)
      BY <2>2, <2>6
    <3> HIDE DEF v
    <3> QED
      BY <3>1, ConcatAssociative DEF v
  <2> QED
    BY <2>1, <2>2, <2>5, <2>6, <2>7
<1>6. n \in P
  <2> HIDE DEF P
  <2>1. \A k \in 0 .. n : k \in P
    BY <1>1, <1>4, <1>5, NatInduct
  <2> QED
    BY <1>1, <2>1
<1>7. Part(n) = s
  <2>1. n \in 0 .. n
    BY <1>1
  <2>2. Part(n) \in Seq(T) /\ Len(Part(n)) = Len(s) /\ \A j \in 1 .. Len(s) : Part(n)[j] = s[j]
    BY <1>2, <2>1
  <2> QED
    BY <2>2, SeqEqual
<1> QED
  BY <1>6, <1>7

-----------------------------------------------------------------------------
(* What is read is what is written.                                        *)

\* The bytes b are w and then the rest.
Spells(w, rest, b) == w \in Seq(Byte) /\ rest \in Seq(Byte) /\ w \o rest = b

LEMMA SpellsNothing ==
  ASSUME NEW b \in Seq(Byte)
  PROVE  Spells(<< >>, b, b)
BY EmptySeq, ConcatEmptySeq DEF Spells

LEMMA Regrouped ==
  ASSUME NEW w \in Seq(Byte), NEW v \in Seq(Byte), NEW q \in Seq(Byte)
  PROVE  (w \o v) \o q = w \o (v \o q)
BY ConcatAssociative

LEMMA SpellsMore ==
  ASSUME NEW w, NEW v, NEW q, NEW r, NEW b, Spells(w, r, b), Spells(v, q, r)
  PROVE  Spells(w \o v, q, b)
<1>1. w \in Seq(Byte) /\ v \in Seq(Byte) /\ q \in Seq(Byte) /\ w \o r = b /\ v \o q = r
  BY DEF Spells
<1>2. w \o v \in Seq(Byte)
  BY <1>1, ConcatProperties
<1>3. (w \o v) \o q = w \o (v \o q)
  BY <1>1, Regrouped
<1> QED
  BY <1>1, <1>2, <1>3 DEF Spells

\* A reader's answer r for b is of a set S and what it read is what W writes.
Regains(r, S, W, b) == r \in Reading(S) /\ (r.err = "Ok" => Spells(W[r.v], r.rest, b))

\* Readers in a row regain a list if each regains its element.
LEMMA ReadEachRegains ==
  ASSUME NEW S, NEW readers, Len(readers) \in Nat, NEW W, NEW b \in Seq(Byte),
         \A k \in 1 .. Len(readers) : \A r \in Seq(Byte) : Regains(readers[k][r], S, W[k], r)
  PROVE  LET d == ReadEach(readers, b) IN
         d.err = "Ok" => Spells(FlattenSeq([k \in 1 .. Len(readers) |-> W[k][d.v[k]]]), d.rest, b)
<1> DEFINE n == Len(readers)
           L(k) == {vs \in Seq(S) : Len(vs) = k}
           words(k, vs) == [j \in 1 .. k |-> W[j][vs[j]]]
           Good(k, u) == u.err = "Ok" => /\ words(k, u.v) \in Seq(Seq(Byte))
                                         /\ Spells(FlattenSeq(words(k, u.v)), u.rest, b)
<1>1. \A k \in 1 .. n : \A r \in Seq(Byte) : readers[k][r] \in Reading(S)
  BY DEF Regains
<1>2. PICK read : ReadsEach(S, readers, b, read)
  BY <1>1, ReadEachRecursion
<1>3. /\ ReadEach(readers, b) = read[n] /\ read[0] = Read(<< >>, b)
      /\ \A k \in 1 .. n : read[k] = GoesOn(readers, k, read[k - 1])
      /\ \A k \in 0 .. n : read[k] \in Reading(L(k))
  BY <1>2 DEF ReadsEach
<1> HIDE DEF n, L
<1>4. n \in Nat
  BY DEF n
<1> DEFINE P == {k \in 0 .. n : Good(k, read[k])}
<1>5. 0 \in P
  <2>1. read[0].err = "Ok" /\ read[0].v = << >> /\ read[0].rest = b
    BY <1>3, ReadFieldsOf
  <2>2. words(0, << >>) = << >>
    BY EmptySeq
  <2>3. Good(0, read[0])
    <3> HIDE DEF words
    <3> QED
      BY <2>1, <2>2, FlattenEmpty, SpellsNothing, EmptySeq
  <2> HIDE DEF Good
  <2> QED
    BY <1>4, <2>3
<1>6. ASSUME NEW k \in 1 .. n, k - 1 \in P PROVE k \in P
  <2> DEFINE u == read[k - 1]
             d == readers[k][u.rest]
  <2>1. Good(k - 1, u) /\ k \in 0 .. n /\ k - 1 \in 0 .. n
    BY <1>4, <1>6
  <2>2. read[k] = GoesOn(readers, k, u) /\ u \in Reading(L(k - 1))
    BY <1>3, <2>1
  <2> HIDE DEF u
  <2>3. read[k] = IF u.err = "Ok" THEN IF d.err = "Ok" THEN Read(Append(u.v, d.v), d.rest) ELSE d ELSE u
    BY <2>2 DEF GoesOn, Then
  <2> HIDE DEF d, Good
  <2>4. CASE u.err = "Ok" /\ d.err = "Ok"
    <3>1. u.v \in L(k - 1) /\ u.rest \in Seq(Byte)
      BY <2>2, <2>4, ReadingCases
    <3>2. Regains(d, S, W[k], u.rest)
      BY <3>1 DEF d, n
    <3>3. Spells(W[k][d.v], d.rest, u.rest) /\ d.v \in S
      BY <2>4, <3>2, ReadingCases DEF Regains
    <3> DEFINE vs == Append(u.v, d.v)
               a == words(k - 1, u.v)
               x == W[k][d.v]
    <3>4. a \in Seq(Seq(Byte)) /\ Spells(FlattenSeq(a), u.rest, b)
      BY <2>1, <2>4 DEF Good
    <3>5. vs[k] = d.v /\ \A j \in 1 .. k - 1 : vs[j] = u.v[j]
      BY <3>1, <3>3, AppendProperties DEF L
    <3>6. x \in Seq(Byte)
      BY <3>3 DEF Spells
    <3>7. words(k, vs) = Append(a, x)
      <4>1. Len(a) = k - 1 /\ \A j \in 1 .. k - 1 : a[j] = W[j][u.v[j]]
        BY <1>4, LenProperties
      <4>2. words(k, vs) = [j \in 1 .. k |-> words(k, vs)[j]] /\ \A j \in 1 .. k : words(k, vs)[j] = W[j][vs[j]]
        OBVIOUS
      <4>3. Append(a, x) = [j \in 1 .. k |-> Append(a, x)[j]]
        <5> HIDE DEF a, x
        <5>1. Append(a, x) \in Seq(Seq(Byte)) /\ Len(Append(a, x)) = k
          BY <3>4, <3>6, <4>1, AppendProperties
        <5> QED
          BY <5>1, LenProperties, SeqDef
      <4>4. \A j \in 1 .. k : Append(a, x)[j] = W[j][vs[j]]
        <5>1. \A j \in 1 .. k : j = k \/ j \in 1 .. k - 1
          BY <1>4
        <5>2. Append(a, x)[k] = x /\ \A j \in 1 .. k - 1 : Append(a, x)[j] = a[j]
          <6> HIDE DEF a, x
          <6> QED
            BY <3>4, <3>6, <4>1, AppendProperties
        <5> HIDE DEF vs, a
        <5> QED
          BY <3>5, <4>1, <5>1, <5>2
      <4> HIDE DEF words, vs, a, x
      <4> QED
        BY <4>2, <4>3, <4>4
    <3> HIDE DEF words, vs, a, x
    <3>8. Append(a, x) \in Seq(Seq(Byte)) /\ FlattenSeq(Append(a, x)) = FlattenSeq(a) \o x
      BY <3>4, <3>6, AppendProperties, FlattenAppend
    <3>9. Spells(FlattenSeq(a) \o x, d.rest, b)
      BY <3>3, <3>4, SpellsMore DEF x
    <3>10. read[k].v = vs /\ read[k].rest = d.rest
      <4>1. read[k] = Read(vs, d.rest)
        BY <2>3, <2>4 DEF vs
      <4> QED
        BY <4>1, ReadFieldsOf
    <3>11. Good(k, read[k])
      BY <3>7, <3>8, <3>9, <3>10 DEF Good
    <3> QED
      BY <2>1, <3>11
  <2>5. CASE ~ (u.err = "Ok" /\ d.err = "Ok")
    <3>1. read[k].err # "Ok"
      BY <2>3, <2>5
    <3> QED
      BY <2>1, <3>1 DEF Good
  <2> QED
    BY <2>4, <2>5
<1>7. n \in P
  <2> HIDE DEF P
  <2>1. \A k \in 0 .. n : k \in P
    BY <1>4, <1>5, <1>6, NatInduct
  <2> QED
    BY <1>4, <2>1
<1>8. Good(n, read[n])
  BY <1>7
<1> QED
  BY <1>3, <1>8 DEF n

-----------------------------------------------------------------------------
(* Numbers.                                                                *)

LEMMA Remainder ==
  ASSUME NEW a \in Int, NEW m \in Nat, m > 0, NEW q \in Int, NEW c \in 0 .. m - 1, a = q * m + c
  PROVE  a % m = c
OBVIOUS

\* The digits of a number that is put together from the bytes d, whatever it
\* started with: 0, or -1 for a negative one.
LEMMA DigitsOf ==
  ASSUME NEW d \in Seq(Byte), NEW h, NEW n \in 0 .. MaxWidth, n = Len(d),
         \A k \in 0 .. n : h[k] \in Int,
         \A k \in 1 .. n : h[k] = h[k - 1] * Base + d[n + 1 - k]
  PROVE  Digits(h[n], n) = d
<1>1. n \in Nat /\ n <= MaxWidth /\ MaxWidth \in Nat /\ Base \in Nat /\ Base > 68
  <2>1. MaxWidth \in Nat
    BY DEF MaxWidth
  <2> QED
    BY <2>1, WireAssumption
<1> DEFINE a == h[n]
           Split(k, low) == low \in 0 .. Power[k] - 1 /\ a = h[n - k] * Power[k] + low
           P == {k \in 0 .. n : \E low \in Int : Split(k, low)}
<1>2. \A k \in 0 .. n : Power[k] \in Nat \ {0}
  BY <1>1, PowerIs
<1>3. \A k \in 1 .. n : Power[k] = Base * Power[k - 1]
  BY <1>1, PowerIs
<1>4. 0 \in P
  <2>1. Split(0, 0)
    <3>1. n - 0 = n /\ Power[0] = 1 /\ a \in Int
      BY <1>1, PowerIs
    <3> HIDE DEF a
    <3>2. a = a * 1 + 0
      BY <3>1
    <3> QED
      BY <3>1, <3>2 DEF a
  <2> QED
    BY <1>1, <2>1
<1>5. ASSUME NEW k \in 1 .. n, k - 1 \in P PROVE k \in P
  <2>1. PICK low \in Int : Split(k - 1, low)
    BY <1>5
  <2>2. k \in 0 .. n /\ k - 1 \in 0 .. n /\ n - k \in 0 .. n /\ n - (k - 1) \in 1 .. n
        /\ (n - (k - 1)) - 1 = n - k /\ n + 1 - (n - (k - 1)) = k /\ k \in 1 .. Len(d)
    BY <1>1
  <2> DEFINE p == Power[k - 1]
             q == h[n - k]
             c == d[k]
  <2>3. p \in Nat \ {0} /\ q \in Int /\ Power[k] = Base * p
    BY <1>2, <1>3, <2>2
  <2>4. c \in 0 .. Base - 1
    BY <2>2, ElementOfSeq DEF Byte
  <2>5. h[n - (k - 1)] = q * Base + c
    BY <2>2
  <2>6. low \in 0 .. p - 1 /\ a = (q * Base + c) * p + low
    BY <2>1, <2>5
  <2>7. Split(k, c * p + low)
    <3> HIDE DEF p, q, c, a
    <3>1. c * p \in Nat /\ (Base - 1 - c) * p \in Nat /\ Base * p = (Base - 1 - c) * p + c * p + p
      BY <1>1, <2>3, <2>4
    <3>2. c * p + low \in 0 .. Base * p - 1
      BY <2>3, <2>6, <3>1
    <3>3. a = q * (Base * p) + (c * p + low)
      BY <1>1, <2>3, <2>4, <2>6
    <3> QED
      BY <2>3, <3>2, <3>3 DEF q
  <2>8. c * p + low \in Int
    <3> HIDE DEF p, c
    <3> QED
      BY <1>1, <2>3, <2>4
  <2> HIDE DEF Split
  <2> QED
    BY <2>2, <2>7, <2>8
<1>6. \A k \in 0 .. n : k \in P
  <2> HIDE DEF P
  <2> QED
    BY <1>1, <1>4, <1>5, NatInduct
<1>7. ASSUME NEW k \in 1 .. n PROVE (a \div Power[k - 1]) % Base = d[k]
  <2>1. k - 1 \in 0 .. n /\ n - (k - 1) \in 1 .. n /\ n - (k - 1) \in 0 .. n
        /\ (n - (k - 1)) - 1 \in 0 .. n /\ n + 1 - (n - (k - 1)) = k /\ k \in 1 .. Len(d)
    BY <1>1
  <2>2. PICK low \in Int : Split(k - 1, low)
    BY <1>6, <2>1
  <2> DEFINE p == Power[k - 1]
             u == h[n - (k - 1)]
             q == h[(n - (k - 1)) - 1]
             c == d[k]
  <2>3. p \in Nat \ {0} /\ u \in Int /\ q \in Int /\ a \in Int
    BY <1>1, <1>2, <2>1
  <2>4. u = q * Base + c
    BY <2>1
  <2>5. c \in 0 .. Base - 1
    BY <2>1, ElementOfSeq DEF Byte
  <2>6. a = u * p + low /\ low \in 0 .. p - 1
    BY <2>2
  <2> HIDE DEF p, u, q, c, a
  <2>7. u * p \in Int /\ 0 <= a - u * p /\ a - u * p < p
    BY <2>3, <2>6
  <2>8. a \div p = u
    BY <2>3, <2>7, FloorIs
  <2>9. u % Base = c
    <3>1. Base \in Nat /\ Base > 0
      BY <1>1
    <3> QED
      BY <2>3, <2>4, <2>5, <3>1, Remainder
  <2> QED
    BY <2>8, <2>9 DEF p, c
<1>8. d = [k \in 1 .. n |-> d[k]]
  BY SeqDef, LenProperties
<1> QED
  BY <1>7, <1>8 DEF Digits

\* A number regains its bytes, with or without a sign.
LEMMA FromDigitsRegains ==
  ASSUME NEW ty, NEW d \in Seq(Byte), Len(d) \in 0 .. MaxWidth
  PROVE  Digits(FromDigits(ty, d), Len(d)) = d
<1> DEFINE n == Len(d)
<1>1. PICK h : Highs(h, d)
  BY NumberRecursion
<1>2. n \in Nat /\ n <= MaxWidth /\ MaxWidth \in Nat /\ Base \in Nat
  <2>1. MaxWidth \in Nat
    BY DEF MaxWidth
  <2> QED
    BY <2>1, WireAssumption
<1>3. \A k \in 0 .. n : h[k] \in Int /\ Power[k] \in Int
  BY <1>1, <1>2, PowerIs DEF Highs
<1>4. \A k \in 1 .. n : h[k] = h[k - 1] * Base + d[n + 1 - k]
  BY <1>1 DEF Highs
<1> HIDE DEF n
<1>5. Digits(h[n], n) = d
  BY <1>3, <1>4, DigitsOf DEF n
<1> DEFINE g == [k \in 0 .. n |-> h[k] - Power[k]]
<1>6. \A k \in 0 .. n : g[k] = h[k] - Power[k] /\ g[k] \in Int
  BY <1>3
<1> HIDE DEF g
<1>7. ASSUME NEW k \in 1 .. n PROVE g[k] = g[k - 1] * Base + d[n + 1 - k]
  <2>1. k \in 0 .. n /\ k - 1 \in 0 .. n /\ k \in 1 .. MaxWidth /\ n + 1 - k \in 1 .. n
    BY <1>2
  <2> DEFINE p == Power[k - 1]
             u == h[k - 1]
             c == d[n + 1 - k]
  <2>2. Power[k] = Base * p /\ p \in Int /\ u \in Int
    BY <1>3, <2>1, PowerIs
  <2>3. c \in Int
    BY <1>2, <2>1, ElementOfSeq DEF Byte, n
  <2>4. g[k] = (u * Base + c) - Base * p /\ g[k - 1] = u - p
    BY <1>4, <1>6, <2>1, <2>2
  <2> HIDE DEF p, u, c
  <2>5. g[k] = (u - p) * Base + c
    BY <1>2, <2>2, <2>3, <2>4
  <2> QED
    BY <2>4, <2>5 DEF c
<1>8. Digits(g[n], n) = d
  BY <1>6, <1>7, DigitsOf DEF n
<1>9. FromDigits(ty, d) \in {h[n], g[n]}
  <2>1. Number(d) = h[n] /\ n \in 0 .. n
    BY <1>1, <1>2 DEF Highs, n
  <2>2. g[n] = Number(d) - Power[n]
    BY <1>6, <2>1
  <2> QED
    BY <2>1, <2>2 DEF FromDigits, n
<1> QED
  BY <1>5, <1>8, <1>9 DEF n

\* A byte string is its first n bytes and the others.
LEMMA SpellsLeading ==
  ASSUME NEW b \in Seq(Byte), NEW n \in 0 .. Len(b)
  PROVE  Spells(Leading(b, n), Behind(b, n), b)
<1> DEFINE u == Leading(b, n)
           v == Behind(b, n)
<1>1. Len(b) \in Nat /\ n \in Nat /\ n <= Len(b)
  BY LenProperties
<1>2. /\ u \in Seq(Byte) /\ Len(u) = n /\ \A k \in 1 .. n : u[k] = b[k]
      /\ v \in Seq(Byte) /\ Len(v) = Len(b) - n /\ \A k \in 1 .. Len(b) - n : v[k] = b[k + n]
  BY LeadingProperties, BehindProperties
<1> HIDE DEF u, v
<1>3. /\ u \o v \in Seq(Byte) /\ Len(u \o v) = Len(b)
      /\ \A k \in 1 .. n : (u \o v)[k] = u[k]
      /\ \A k \in 1 .. Len(b) - n : (u \o v)[n + k] = v[k]
  BY <1>1, <1>2, ConcatLayout
<1>4. ASSUME NEW k \in 1 .. Len(b) PROVE (u \o v)[k] = b[k]
  <2>1. CASE k \in 1 .. n
    BY <1>2, <1>3, <2>1
  <2>2. CASE k \notin 1 .. n
    <3> DEFINE j == k - n
    <3>1. j \in 1 .. Len(b) - n /\ n + j = k /\ j + n = k
      BY <1>1, <2>2
    <3> HIDE DEF j
    <3>2. (u \o v)[n + j] = v[j] /\ v[j] = b[j + n]
      BY <1>2, <1>3, <3>1
    <3> QED
      BY <3>1, <3>2
  <2> QED
    BY <2>1, <2>2
<1>5. u \o v = b
  BY <1>3, <1>4, SeqEqual
<1> QED
  BY <1>2, <1>5 DEF Spells, u, v

LEMMA ReadByteRegains ==
  ASSUME NEW b \in Seq(Byte), ReadByte(b).err = "Ok"
  PROVE  Spells(<<ReadByte(b).v>>, ReadByte(b).rest, b)
<1>1. b # << >>
  BY DEF ReadByte, Stop
<1>2. 1 \in 0 .. Len(b) /\ 1 \in 1 .. Len(b)
  BY <1>1
<1>3. ReadByte(b).v = b[1] /\ ReadByte(b).rest = Behind(b, 1)
  BY <1>1, ReadFieldsOf DEF ReadByte
<1>4. Leading(b, 1) = <<b[1]>>
  <2>1. Leading(b, 1) \in Seq(Byte) /\ Len(Leading(b, 1)) = 1 /\ Leading(b, 1)[1] = b[1]
    <3>1. 1 \in 1 .. 1
      OBVIOUS
    <3> QED
      BY <1>2, <3>1, LeadingProperties
  <2>2. b[1] \in Byte
    BY <1>2, ElementOfSeq
  <2>3. <<b[1]>> \in Seq(Byte) /\ Len(<<b[1]>>) = 1 /\ <<b[1]>>[1] = b[1]
    BY <2>2
  <2> QED
    BY <2>1, <2>3, SeqEqual
<1> QED
  BY <1>2, <1>3, <1>4, SpellsLeading

LEMMA ReadTagRegains ==
  ASSUME NEW n \in Nat, NEW b \in Seq(Byte), ReadTag(n, b).err = "Ok"
  PROVE  /\ Spells(<<ReadTag(n, b).v>>, ReadTag(n, b).rest, b)
         /\ ReadTag(n, b).v \in 0 .. n - 1 /\ ReadTag(n, b).rest \in Seq(Byte)
<1> DEFINE r == ReadByte(b)
<1>1. ReadTag(n, b) = IF r.err = "Ok" THEN IF r.v < n THEN Read(r.v, r.rest) ELSE Stop("InvalidData") ELSE r
  BY DEF ReadTag, Then
<1>2. Stop("InvalidData").err # "Ok"
  BY DEF Stop
<1>3. r.err = "Ok" /\ ReadTag(n, b) = Read(r.v, r.rest)
  BY <1>1, <1>2
<1>4. ReadTag(n, b) \in Reading(0 .. n - 1)
  BY ReadTagTyped
<1>5. Spells(<<r.v>>, r.rest, b)
  BY <1>3, ReadByteRegains
<1> QED
  BY <1>3, <1>4, <1>5, ReadFieldsOf, ReadingCases

LEMMA ReadNumberRegains ==
  ASSUME NEW ty \in Type, NEW b \in Seq(Byte), ReadNumber(ty, b).err = "Ok"
  PROVE  Spells(Write(ty, ReadNumber(ty, b).v), ReadNumber(ty, b).rest, b)
<1> DEFINE w == Width[ty]
           d == Leading(b, w)
           n == FromDigits(ty, d)
<1>1. w \in 0 .. MaxWidth /\ w \in Nat /\ Len(b) \in Nat
  <2>1. MaxWidth \in Nat
    BY DEF MaxWidth
  <2>2. w \in 1 .. MaxWidth
    BY WireAssumption
  <2> HIDE DEF w
  <2> QED
    BY <2>1, <2>2, LenProperties
<1>2. ~ (Len(b) < w) /\ ReadNumber(ty, b) = Read(n, Behind(b, w))
  BY DEF ReadNumber, Stop
<1>3. w \in 0 .. Len(b)
  <2> HIDE DEF w
  <2> QED
    BY <1>1, <1>2
<1>4. d \in Seq(Byte) /\ Len(d) = w
  BY <1>3, LeadingProperties
<1>5. Write(ty, n) = d
  <2> HIDE DEF d
  <2>1. Digits(n, Len(d)) = d
    BY <1>1, <1>4, FromDigitsRegains
  <2> QED
    BY <1>4, <2>1 DEF Write
<1>6. Spells(d, Behind(b, w), b)
  BY <1>3, SpellsLeading
<1> QED
  BY <1>2, <1>5, <1>6, ReadFieldsOf

-----------------------------------------------------------------------------
(* The table of nodes.                                                     *)

LEMMA JoinIs ==
  ASSUME NEW S, NEW s \in Seq(S), NEW t \in Seq(S), NEW u \in Seq(S), Len(u) = Len(s) + Len(t),
         \A k \in 1 .. Len(s) : u[k] = s[k], \A k \in 1 .. Len(t) : u[k + Len(s)] = t[k]
  PROVE  s \o t = u
<1> DEFINE v == s \o t
           m == Len(s)
<1>1. m \in Nat /\ Len(t) \in Nat
  BY LenProperties
<1>2. /\ v \in Seq(S) /\ Len(v) = m + Len(t)
      /\ \A k \in 1 .. m + Len(t) : v[k] = IF k <= m THEN s[k] ELSE t[k - m]
  BY ConcatProperties
<1>3. \A k \in 1 .. m : u[k] = s[k]
  OBVIOUS
<1>4. \A k \in 1 .. Len(t) : u[k + m] = t[k]
  OBVIOUS
<1>5. Len(u) = m + Len(t)
  OBVIOUS
<1> HIDE DEF v, m
<1>6. ASSUME NEW k \in 1 .. Len(u) PROVE v[k] = u[k]
  <2>1. k \in 1 .. m + Len(t)
    BY <1>5
  <2>2. CASE k <= m
    <3>1. k \in 1 .. m
      BY <1>1, <2>1, <2>2
    <3> QED
      BY <1>2, <1>3, <2>1, <2>2, <3>1
  <2>3. CASE ~ (k <= m)
    <3> DEFINE i == k - m
    <3>1. i \in 1 .. Len(t) /\ i + m = k
      BY <1>1, <2>1, <2>3
    <3>2. v[k] = t[i]
      BY <1>2, <2>1, <2>3
    <3> HIDE DEF i
    <3>3. u[i + m] = t[i]
      BY <1>4, <3>1
    <3> QED
      BY <3>1, <3>2, <3>3
  <2> QED
    BY <2>2, <2>3
<1>7. v = u
  BY <1>2, <1>5, <1>6, SeqEqual
<1> QED
  BY <1>7 DEF v

Operators_ == << "Add", "Sub", "Mul", "Div", "DivFloor", "DivCeil", "Min", "Max",
                 "Eq", "Ne", "Gt", "Ge", "Lt", "Le", "SaturatingSub", "And", "Or",
                 "BpsMulFloor", "BpsMulCeil", "MulDivFloor", "MulDivCeil",
                 "Clamp", "Select" >>

\* The place of a key in the table, of which no other key has the same.
ConstRank(ty) ==
  CASE ty = "Bool" -> 2
    [] ty = "U8" -> 3
    [] ty = "U16" -> 4
    [] ty = "U32" -> 5
    [] ty = "U64" -> 6
    [] ty = "U128" -> 7
    [] ty = "I8" -> 8
    [] ty = "I16" -> 9
    [] ty = "I32" -> 10
    [] ty = "I64" -> 11
    [] ty = "I128" -> 12
    [] ty = "F32" -> 13
    [] ty = "F64" -> 14
    [] ty = "Pubkey" -> 52

CastRank(ty) ==
  CASE ty = "U8" -> 19
    [] ty = "U16" -> 20
    [] ty = "U32" -> 21
    [] ty = "U64" -> 22
    [] ty = "U128" -> 23
    [] ty = "I8" -> 24
    [] ty = "I16" -> 25
    [] ty = "I32" -> 26
    [] ty = "I64" -> 27
    [] ty = "I128" -> 28

OperatorRank(op) ==
  CASE op = "Value" -> 1
    [] op = "Not" -> 15
    [] op = "Neg" -> 16
    [] op = "IsZero" -> 17
    [] op = "NonZero" -> 18
    [] op = "Add" -> 29
    [] op = "Sub" -> 30
    [] op = "Mul" -> 31
    [] op = "Div" -> 32
    [] op = "DivFloor" -> 33
    [] op = "DivCeil" -> 34
    [] op = "Min" -> 35
    [] op = "Max" -> 36
    [] op = "Eq" -> 37
    [] op = "Ne" -> 38
    [] op = "Gt" -> 39
    [] op = "Ge" -> 40
    [] op = "Lt" -> 41
    [] op = "Le" -> 42
    [] op = "SaturatingSub" -> 43
    [] op = "And" -> 44
    [] op = "Or" -> 45
    [] op = "BpsMulFloor" -> 46
    [] op = "BpsMulCeil" -> 47
    [] op = "MulDivFloor" -> 48
    [] op = "MulDivCeil" -> 49
    [] op = "Clamp" -> 50
    [] op = "Select" -> 51

KeyRank(x) ==
  CASE x[1] = "Const" -> ConstRank(x[2])
    [] x[1] = "As" -> CastRank(x[2])
    [] OTHER -> OperatorRank(x[1])

\* The tables of the program and of an SDK, in parts.
LEMMA TableIs ==
  /\ Len(SdkVariants) = 52 /\ SdkVariants[1] = <<"Value", "none">>
  /\ \A k \in 1 .. 13 : SdkVariants[k + 1] = <<"Const", ConstTypes[k]>>
  /\ \A k \in 1 .. 4 : SdkVariants[k + 14] = <<<<"Not", "Neg", "IsZero", "NonZero">>[k], "none">>
  /\ \A k \in 1 .. 10 : SdkVariants[k + 18] = <<"As", CastTypes[k]>>
  /\ \A k \in 1 .. 23 : SdkVariants[k + 28] = <<Operators_[k], "none">>
  /\ SdkVariants[52] = <<"Const", "Pubkey">>
<1>1. Len(SdkVariants) = 52 /\ SdkVariants[1] = <<"Value", "none">> /\ SdkVariants[52] = <<"Const", "Pubkey">>
  BY DEF SdkVariants
<1>2. ASSUME NEW k \in 1 .. 13 PROVE SdkVariants[k + 1] = <<"Const", ConstTypes[k]>>
  <2>1. \/ k = 1 \/ k = 2 \/ k = 3 \/ k = 4 \/ k = 5 \/ k = 6 \/ k = 7
        \/ k = 8 \/ k = 9 \/ k = 10 \/ k = 11 \/ k = 12 \/ k = 13
    OBVIOUS
  <2> QED
    BY <2>1 DEF SdkVariants, ConstTypes
<1>3. ASSUME NEW k \in 1 .. 4
      PROVE  SdkVariants[k + 14] = <<<<"Not", "Neg", "IsZero", "NonZero">>[k], "none">>
  <2>1. k = 1 \/ k = 2 \/ k = 3 \/ k = 4
    OBVIOUS
  <2> QED
    BY <2>1 DEF SdkVariants
<1>4. ASSUME NEW k \in 1 .. 10 PROVE SdkVariants[k + 18] = <<"As", CastTypes[k]>>
  <2>1. k = 1 \/ k = 2 \/ k = 3 \/ k = 4 \/ k = 5 \/ k = 6 \/ k = 7 \/ k = 8 \/ k = 9 \/ k = 10
    OBVIOUS
  <2> QED
    BY <2>1 DEF SdkVariants, CastTypes
<1>5. ASSUME NEW k \in 1 .. 23 PROVE SdkVariants[k + 28] = <<Operators_[k], "none">>
  <2>1. \/ k = 1 \/ k = 2 \/ k = 3 \/ k = 4 \/ k = 5 \/ k = 6 \/ k = 7 \/ k = 8
        \/ k = 9 \/ k = 10 \/ k = 11 \/ k = 12 \/ k \in 13 .. 23
    OBVIOUS
  <2>2. k \in 13 .. 23 => \/ k = 13 \/ k = 14 \/ k = 15 \/ k = 16 \/ k = 17 \/ k = 18
                          \/ k = 19 \/ k = 20 \/ k = 21 \/ k = 22 \/ k = 23
    OBVIOUS
  <2> QED
    BY <2>1, <2>2 DEF SdkVariants, Operators_
<1> QED
  BY <1>1, <1>2, <1>3, <1>4, <1>5

\* An SDK's tags are the program's.
LEMMA TablesAgree == SdkVariants = Variants
<1> DEFINE V == SdkVariants
           S == VariantKeys \cup {V[k] : k \in 1 .. 52}
           first(n) == Leading(V, n)
           s1 == Untyped(<<"Value">>)
           s2 == Typed("Const", ConstTypes)
           unary == <<"Not", "Neg", "IsZero", "NonZero">>
           s3 == Untyped(unary)
           s4 == Typed("As", CastTypes)
           s5 == Untyped(Operators_)
           s6 == <<<<"Const", "Pubkey">>>>
<1>1. V = [k \in 1 .. 52 |-> V[k]] /\ V \in Seq(S) /\ Len(V) = 52
  <2>1. V = [k \in 1 .. 52 |-> V[k]]
    BY DEF SdkVariants
  <2>2. V \in [1 .. 52 -> S]
    <3> HIDE DEF V
    <3> QED
      BY <2>1
  <2>3. V \in Seq(S)
    <3> HIDE DEF V, S
    <3> QED
      BY <2>2, SeqDef
  <2> QED
    BY <2>1, <2>3, TableIs
<1>2. \A n \in 0 .. 52 : first(n) \in Seq(S) /\ Len(first(n)) = n /\ \A k \in 1 .. n : first(n)[k] = V[k]
  <2> HIDE DEF V, S
  <2> SUFFICES ASSUME NEW n \in 0 .. 52
               PROVE  Leading(V, n) \in Seq(S) /\ Len(Leading(V, n)) = n /\ \A k \in 1 .. n : Leading(V, n)[k] = V[k]
    OBVIOUS
  <2>1. n \in 0 .. Len(V) /\ V \in Seq(S)
    BY <1>1
  <2> QED
    BY <2>1, LeadingProperties
<1> DEFINE Next_(m, n, t) == \A k \in 1 .. n : V[k + m] = t[k]
<1>3. ASSUME NEW m \in 0 .. 52, NEW n \in 0 .. 52, NEW t \in Seq(S), m + n <= 52, Len(t) = n, Next_(m, n, t)
      PROVE  first(m) \o t = first(m + n)
  <2>1. m + n \in 0 .. 52 /\ \A k \in 1 .. m : k \in 1 .. m + n
    BY <1>3
  <2>2. \A k \in 1 .. n : k + m \in 1 .. m + n
    BY <1>3
  <2> DEFINE u == first(m)
             v == first(m + n)
  <2>3. /\ u \in Seq(S) /\ Len(u) = m /\ \A k \in 1 .. m : u[k] = V[k]
        /\ v \in Seq(S) /\ Len(v) = m + n /\ \A k \in 1 .. m + n : v[k] = V[k]
    BY <1>2, <2>1
  <2> HIDE DEF u, v, V, S
  <2>4. Len(v) = Len(u) + Len(t) /\ \A k \in 1 .. Len(u) : v[k] = u[k]
    BY <1>3, <2>1, <2>3
  <2>5. \A k \in 1 .. Len(t) : v[k + Len(u)] = t[k]
    BY <1>3, <2>2, <2>3
  <2>6. u \o t = v
    BY <2>3, <2>4, <2>5, JoinIs
  <2> QED
    BY <2>6 DEF u, v
<1>4. /\ s1 \in Seq(VariantKeys) /\ s2 \in Seq(VariantKeys) /\ s3 \in Seq(VariantKeys)
      /\ s4 \in Seq(VariantKeys) /\ s5 \in Seq(VariantKeys) /\ s6 \in Seq(VariantKeys)
  <2>1. <<"Value">> \in Seq(Operation \cup {"Value"})
    OBVIOUS
  <2>2. unary \in Seq(Operation \cup {"Value"})
    BY DEF Operation, UnaryOp
  <2>3. Operators_ \in Seq(Operation \cup {"Value"})
    BY DEF Operators_, Operation, BinaryOp, TernaryOp, Numeric, Arith, Compare, Logic, Bps, MulDiv
  <2>4. s6 \in Seq(VariantKeys)
    BY DEF VariantKeys, Type
  <2> QED
    BY <2>1, <2>2, <2>3, <2>4, UntypedIs, TypedIs, TypesAre
<1>5. ASSUME NEW t \in Seq(VariantKeys) PROVE t \in Seq(S)
  <2> HIDE DEF V
  <2> QED
    BY <1>5
<1>6. /\ Len(s1) = 1 /\ Len(s2) = 13 /\ Len(s3) = 4 /\ Len(s4) = 10 /\ Len(s5) = 23 /\ Len(s6) = 1
      /\ s1[1] = <<"Value", "none">> /\ s6[1] = <<"Const", "Pubkey">>
      /\ \A k \in 1 .. 13 : s2[k] = <<"Const", ConstTypes[k]>>
      /\ \A k \in 1 .. 4 : s3[k] = <<unary[k], "none">>
      /\ \A k \in 1 .. 10 : s4[k] = <<"As", CastTypes[k]>>
      /\ \A k \in 1 .. 23 : s5[k] = <<Operators_[k], "none">>
  BY DEF Untyped, Typed, ConstTypes, CastTypes, Operators_
<1>7. /\ \A k \in 1 .. 1 : V[k + 0] = s1[k]
      /\ \A k \in 1 .. 13 : V[k + 1] = s2[k]
      /\ \A k \in 1 .. 4 : V[k + 14] = s3[k]
      /\ \A k \in 1 .. 10 : V[k + 18] = s4[k]
      /\ \A k \in 1 .. 23 : V[k + 28] = s5[k]
      /\ \A k \in 1 .. 1 : V[k + 51] = s6[k]
  <2> HIDE DEF s1, s2, s3, s4, s5, s6, unary
  <2>1. \A k \in 1 .. 1 : k + 0 = 1 /\ k + 51 = 52 /\ k = 1
    OBVIOUS
  <2>2. \A k \in 1 .. 1 : V[k + 0] = s1[k] /\ V[k + 51] = s6[k]
    BY <1>6, <2>1, TableIs
  <2>3. \A k \in 1 .. 13 : V[k + 1] = s2[k]
    BY <1>6, TableIs
  <2>4. \A k \in 1 .. 4 : V[k + 14] = s3[k]
    BY <1>6, TableIs DEF unary
  <2>5. \A k \in 1 .. 10 : V[k + 18] = s4[k]
    BY <1>6, TableIs
  <2>6. \A k \in 1 .. 23 : V[k + 28] = s5[k]
    BY <1>6, TableIs
  <2> QED
    BY <2>2, <2>3, <2>4, <2>5, <2>6
<1>13. Next_(0, 1, s1) /\ Next_(1, 13, s2) /\ Next_(14, 4, s3) /\ Next_(18, 10, s4) /\ Next_(28, 23, s5) /\ Next_(51, 1, s6)
  <2> HIDE DEF V, s1, s2, s3, s4, s5, s6
  <2> QED
    BY <1>7, Zenon
<1> HIDE DEF V, S, first, s1, s2, s3, s4, s5, s6, Next_
<1>8. /\ s1 \in Seq(S) /\ s2 \in Seq(S) /\ s3 \in Seq(S) /\ s4 \in Seq(S) /\ s5 \in Seq(S) /\ s6 \in Seq(S)
      /\ 0 \in 0 .. 52 /\ 1 \in 0 .. 52 /\ 4 \in 0 .. 52 /\ 10 \in 0 .. 52 /\ 13 \in 0 .. 52 /\ 14 \in 0 .. 52
      /\ 18 \in 0 .. 52 /\ 23 \in 0 .. 52 /\ 28 \in 0 .. 52 /\ 51 \in 0 .. 52 /\ 52 \in 0 .. 52
  BY <1>4, <1>5
<1>9. /\ s1 = first(1) /\ first(1) \o s2 = first(14) /\ first(14) \o s3 = first(18)
      /\ first(18) \o s4 = first(28) /\ first(28) \o s5 = first(51) /\ first(51) \o s6 = first(52)
  <2>11. /\ 0 + 1 <= 52 /\ 1 + 13 <= 52 /\ 14 + 4 <= 52
         /\ 18 + 10 <= 52 /\ 28 + 23 <= 52 /\ 51 + 1 <= 52
    OBVIOUS
  <2>1. first(0) \o s1 = first(0 + 1)
    BY <1>3, <1>6, <1>8, <1>13, <2>11
  <2>2. first(1) \o s2 = first(1 + 13)
    BY <1>3, <1>6, <1>8, <1>13, <2>11
  <2>3. first(14) \o s3 = first(14 + 4)
    BY <1>3, <1>6, <1>8, <1>13, <2>11
  <2>4. first(18) \o s4 = first(18 + 10)
    BY <1>3, <1>6, <1>8, <1>13, <2>11
  <2>5. first(28) \o s5 = first(28 + 23)
    BY <1>3, <1>6, <1>8, <1>13, <2>11
  <2>6. first(51) \o s6 = first(51 + 1)
    BY <1>3, <1>6, <1>8, <1>13, <2>11
  <2>7. 0 + 1 = 1 /\ 1 + 13 = 14 /\ 14 + 4 = 18 /\ 18 + 10 = 28 /\ 28 + 23 = 51 /\ 51 + 1 = 52
    OBVIOUS
  <2>8. first(0) \in Seq(S) /\ Len(first(0)) = 0
    BY <1>2, <1>8
  <2>9. first(0) = << >>
    BY <2>8, EmptySeq
  <2>10. << >> \o s1 = s1
    BY <1>8, ConcatEmptySeq
  <2> QED
    BY <2>1, <2>2, <2>3, <2>4, <2>5, <2>6, <2>7, <2>9, <2>10, Zenon
<1>11. Variants = ((((s1 \o s2) \o s3) \o s4) \o s5) \o s6
  BY DEF Variants, s1, s2, s3, s4, s5, s6, Operators_
<1>12. first(52) = V
  <2> DEFINE u == first(52)
  <2>1. u \in Seq(S) /\ Len(u) = 52 /\ \A k \in 1 .. 52 : u[k] = V[k]
    BY <1>2, <1>8
  <2> HIDE DEF u
  <2>2. u = V
    BY <1>1, <2>1, SeqEqual
  <2> QED
    BY <2>2 DEF u
<1> QED
  BY <1>9, <1>11, <1>12, Zenon DEF V

\* No key is there twice.
LEMMA TagsAre ==
  ASSUME NEW t \in 0 .. 51
  PROVE  TagIn(SdkVariants, SdkVariants[t + 1]) = t
<1>1. ASSUME NEW k \in 1 .. 13 PROVE KeyRank(<<"Const", ConstTypes[k]>>) = k + 1
  <2>1. \/ k = 1 \/ k = 2 \/ k = 3 \/ k = 4 \/ k = 5 \/ k = 6 \/ k = 7
        \/ k = 8 \/ k = 9 \/ k = 10 \/ k = 11 \/ k = 12 \/ k = 13
    OBVIOUS
  <2> QED
    BY <2>1 DEF KeyRank, ConstRank, ConstTypes
<1>2. ASSUME NEW k \in 1 .. 10 PROVE KeyRank(<<"As", CastTypes[k]>>) = k + 18
  <2>1. k = 1 \/ k = 2 \/ k = 3 \/ k = 4 \/ k = 5 \/ k = 6 \/ k = 7 \/ k = 8 \/ k = 9 \/ k = 10
    OBVIOUS
  <2> QED
    BY <2>1 DEF KeyRank, CastRank, CastTypes
<1>3. ASSUME NEW k \in 1 .. 4 PROVE KeyRank(<<<<"Not", "Neg", "IsZero", "NonZero">>[k], "none">>) = k + 14
  <2>1. k = 1 \/ k = 2 \/ k = 3 \/ k = 4
    OBVIOUS
  <2> QED
    BY <2>1 DEF KeyRank, OperatorRank
<1>4. ASSUME NEW k \in 1 .. 23 PROVE KeyRank(<<Operators_[k], "none">>) = k + 28
  <2>1. \/ k = 1 \/ k = 2 \/ k = 3 \/ k = 4 \/ k = 5 \/ k = 6 \/ k = 7 \/ k = 8
        \/ k = 9 \/ k = 10 \/ k = 11 \/ k = 12 \/ k \in 13 .. 23
    OBVIOUS
  <2>2. k \in 13 .. 23 => \/ k = 13 \/ k = 14 \/ k = 15 \/ k = 16 \/ k = 17 \/ k = 18
                          \/ k = 19 \/ k = 20 \/ k = 21 \/ k = 22 \/ k = 23
    OBVIOUS
  <2> QED
    BY <2>1, <2>2 DEF KeyRank, OperatorRank, Operators_
<1>5. KeyRank(<<"Value", "none">>) = 1 /\ KeyRank(<<"Const", "Pubkey">>) = 52
  BY DEF KeyRank, OperatorRank, ConstRank
<1>6. ASSUME NEW k \in 1 .. 52 PROVE KeyRank(SdkVariants[k]) = k
  <2>1. \/ k = 1 \/ k = 52 \/ k - 1 \in 1 .. 13 \/ k - 14 \in 1 .. 4
        \/ k - 18 \in 1 .. 10 \/ k - 28 \in 1 .. 23
    OBVIOUS
  <2>2. (k - 1) + 1 = k /\ (k - 14) + 14 = k /\ (k - 18) + 18 = k /\ (k - 28) + 28 = k
    OBVIOUS
  <2>3. CASE k - 1 \in 1 .. 13
    <3> DEFINE j == k - 1
    <3>1. j \in 1 .. 13 /\ j + 1 = k
      BY <2>2, <2>3
    <3> HIDE DEF j
    <3> QED
      BY <1>1, <3>1, TableIs
  <2>4. CASE k - 14 \in 1 .. 4
    <3> DEFINE j == k - 14
    <3>1. j \in 1 .. 4 /\ j + 14 = k
      BY <2>2, <2>4
    <3> HIDE DEF j
    <3> QED
      BY <1>3, <3>1, TableIs
  <2>5. CASE k - 18 \in 1 .. 10
    <3> DEFINE j == k - 18
    <3>1. j \in 1 .. 10 /\ j + 18 = k
      BY <2>2, <2>5
    <3> HIDE DEF j
    <3> QED
      BY <1>2, <3>1, TableIs
  <2>6. CASE k - 28 \in 1 .. 23
    <3> DEFINE j == k - 28
    <3>1. j \in 1 .. 23 /\ j + 28 = k
      BY <2>2, <2>6
    <3> HIDE DEF j
    <3> QED
      BY <1>4, <3>1, TableIs
  <2>7. CASE k = 1 \/ k = 52
    BY <1>5, <2>7, TableIs
  <2> QED
    BY <2>1, <2>3, <2>4, <2>5, <2>6, <2>7
<1>7. ASSUME NEW j \in 0 .. 51, SdkVariants[j + 1] = SdkVariants[t + 1] PROVE j = t
  <2>1. KeyRank(SdkVariants[j + 1]) = j + 1 /\ KeyRank(SdkVariants[t + 1]) = t + 1
    BY <1>6
  <2> QED
    BY <1>7, <2>1
<1>8. 0 .. Len(SdkVariants) - 1 = 0 .. 51
  BY TableIs
<1>9. t \in 0 .. Len(SdkVariants) - 1 /\ SdkVariants[t + 1] = SdkVariants[t + 1]
  BY <1>8
<1> DEFINE j == TagIn(SdkVariants, SdkVariants[t + 1])
<1>10. j \in 0 .. Len(SdkVariants) - 1 /\ SdkVariants[j + 1] = SdkVariants[t + 1]
  BY <1>9, Zenon DEF TagIn
<1> HIDE DEF j
<1>11. j = t
  BY <1>7, <1>8, <1>10
<1> QED
  BY <1>11 DEF j

-----------------------------------------------------------------------------
(* Expressions.                                                            *)

LEMMA ReadNodeIs ==
  ASSUME NEW b
  PROVE  LET t == ReadTag(Len(Variants), b)
             op == Variants[t.v + 1][1]
             ty == Variants[t.v + 1][2]
             i == ReadByte(t.rest)
             n == ReadNumber(ty, t.rest)
         IN ReadNode(b) =
              IF t.err # "Ok" THEN t
              ELSE IF op = "Value" THEN IF i.err = "Ok" THEN Read(Node(op, ty, i.v), i.rest) ELSE i
              ELSE IF op = "Const" THEN IF n.err = "Ok" THEN Read(Node(op, ty, n.v), n.rest) ELSE n
              ELSE Read(Node(op, ty, 0), t.rest)
BY SMTT(20) DEF ReadNode, Then

LEMMA ReadNodeRegains ==
  ASSUME NEW b \in Seq(Byte), ReadNode(b).err = "Ok"
  PROVE  Spells(EncodeNode(ReadNode(b).v), ReadNode(b).rest, b)
<1> DEFINE t == ReadTag(Len(Variants), b)
           op == Variants[t.v + 1][1]
           ty == Variants[t.v + 1][2]
           i == ReadByte(t.rest)
           n == ReadNumber(ty, t.rest)
           r == ReadNode(b)
<1>1. r = IF t.err # "Ok" THEN t
          ELSE IF op = "Value" THEN IF i.err = "Ok" THEN Read(Node(op, ty, i.v), i.rest) ELSE i
          ELSE IF op = "Const" THEN IF n.err = "Ok" THEN Read(Node(op, ty, n.v), n.rest) ELSE n
          ELSE Read(Node(op, ty, 0), t.rest)
  BY ReadNodeIs, Zenon
<1>2. Len(Variants) = 52 /\ 52 \in Nat
  BY TablesAgree, TableIs
<1>3. t.err = "Ok"
  BY <1>1
<1>4. Spells(<<t.v>>, t.rest, b) /\ t.v \in 0 .. 51 /\ t.rest \in Seq(Byte)
  <2>1. Spells(<<t.v>>, t.rest, b) /\ t.v \in 0 .. 52 - 1 /\ t.rest \in Seq(Byte)
    BY <1>2, <1>3, ReadTagRegains
  <2> QED
    BY <2>1
<1> DEFINE k == t.v
<1>12. k \in 0 .. 51
  BY <1>4
<1> HIDE DEF t, k
<1>5. Variants[t.v + 1] \in VariantKeys
  <2>1. t.v + 1 \in 1 .. Len(Variants)
    <3>1. k + 1 \in 1 .. 52
      BY <1>12
    <3> QED
      BY <1>2, <3>1, Zenon DEF k
  <2> QED
    BY <2>1, VariantsTyped, ElementOfSeq
<1>6. Variants[t.v + 1] = <<op, ty>>
  BY <1>5 DEF VariantKeys
<1> HIDE DEF op, ty
<1>7. \/ op \in Operation \cup {"Value"} /\ ty = "none"
      \/ op = "Const" /\ ty \in Type
      \/ op = "As" /\ ty \in Int_
  BY <1>5, <1>6 DEF VariantKeys
<1>8. ASSUME NEW v PROVE TagIn(SdkVariants, Key(Node(op, ty, v))) = t.v
  <2>1. Key(Node(op, ty, v)) = <<op, ty>>
    BY <1>7, ArityIs DEF Key, Node
  <2>2. SdkVariants[t.v + 1] = <<op, ty>>
    BY <1>6, TablesAgree
  <2> QED
    BY <1>4, <2>1, <2>2, TagsAre
<1>9. CASE op = "Value"
  <2>1. i.err = "Ok" /\ r = Read(Node(op, ty, i.v), i.rest)
    BY <1>1, <1>3, <1>9
  <2>2. Spells(<<i.v>>, i.rest, t.rest)
    BY <1>4, <2>1, ReadByteRegains
  <2>3. r.v = Node(op, ty, i.v) /\ r.rest = i.rest
    BY <2>1, ReadFieldsOf
  <2>4. EncodeNode(Node(op, ty, i.v)) = <<t.v>> \o <<i.v>>
    BY <1>8, <1>9 DEF EncodeNode, Node
  <2> QED
    BY <1>4, <2>2, <2>3, <2>4, SpellsMore
<1>10. CASE op = "Const"
  <2>1. n.err = "Ok" /\ r = Read(Node(op, ty, n.v), n.rest) /\ ty \in Type
    BY <1>1, <1>3, <1>7, <1>10, ArityIs
  <2>2. Spells(Write(ty, n.v), n.rest, t.rest)
    BY <1>4, <2>1, ReadNumberRegains
  <2>3. r.v = Node(op, ty, n.v) /\ r.rest = n.rest
    BY <2>1, ReadFieldsOf
  <2>4. EncodeNode(Node(op, ty, n.v)) = <<t.v>> \o Write(ty, n.v)
    BY <1>8, <1>10 DEF EncodeNode, Node
  <2> QED
    BY <1>4, <2>2, <2>3, <2>4, SpellsMore
<1>11. CASE op \notin {"Value", "Const"}
  <2>1. r = Read(Node(op, ty, 0), t.rest)
    BY <1>1, <1>3, <1>11
  <2>2. r.v = Node(op, ty, 0) /\ r.rest = t.rest
    BY <2>1, ReadFieldsOf
  <2>3. EncodeNode(Node(op, ty, 0)) = <<t.v>> \o << >>
    BY <1>8, <1>11 DEF EncodeNode, Node
  <2>4. Spells(<< >>, t.rest, t.rest)
    BY <1>4, SpellsNothing
  <2> QED
    BY <1>4, <2>2, <2>3, <2>4, SpellsMore
<1> QED
  BY <1>9, <1>10, <1>11

\* What each node of an expression is written as.
NodeWords(e) == [k \in DOMAIN e |-> EncodeNode(e[k])]

LEMMA EncodePrepend ==
  ASSUME NEW x \in Nodes, NEW e \in Seq(Nodes), EncodeNode(x) \in Seq(Byte), NodeWords(e) \in Seq(Seq(Byte))
  PROVE  /\ NodeWords(<<x>> \o e) \in Seq(Seq(Byte))
         /\ EncodeExpr(<<x>> \o e) = EncodeNode(x) \o EncodeExpr(e)
<1> DEFINE e2 == <<x>> \o e
           w == EncodeNode(x)
           ws == NodeWords(e)
           us == NodeWords(e2)
           T == Seq(Byte)
<1>1. e2 \in Seq(Nodes) /\ Len(e2) = Len(e) + 1 /\ e2[1] = x /\ \A j \in 1 .. Len(e) : e2[j + 1] = e[j]
  BY PrependProperties
<1>2. Len(e) \in Nat
  BY LenProperties
<1> HIDE DEF e2
<1>3. DOMAIN e = 1 .. Len(e) /\ DOMAIN e2 = 1 .. Len(e2)
  BY <1>1, LenProperties
<1>4. Len(ws) = Len(e) /\ \A k \in 1 .. Len(e) : ws[k] = EncodeNode(e[k])
  BY <1>2, <1>3 DEF NodeWords
<1>5. us = [k \in 1 .. Len(e) + 1 |-> us[k]] /\ us[1] = w /\ \A k \in 1 .. Len(e) : us[k + 1] = ws[k]
  <2>1. us = [k \in 1 .. Len(e) + 1 |-> EncodeNode(e2[k])]
    BY <1>1, <1>3 DEF NodeWords
  <2> HIDE DEF us, ws, w
  <2>2. 1 \in 1 .. Len(e) + 1 /\ \A k \in 1 .. Len(e) : k + 1 \in 1 .. Len(e) + 1
    BY <1>2
  <2>3. us[1] = EncodeNode(e2[1]) /\ \A k \in 1 .. Len(e) : us[k + 1] = EncodeNode(e2[k + 1])
    BY <2>1, <2>2
  <2> QED
    BY <1>1, <1>4, <2>1, <2>3 DEF w
<1> HIDE DEF us, ws, w, T
<1>6. ws \in Seq(T) /\ w \in T
  BY DEF ws, w, T
<1>7. us \in Seq(T) /\ Len(us) = Len(e) + 1
  <2>1. ASSUME NEW k \in 1 .. Len(e) + 1 PROVE us[k] \in T
    <3> DEFINE j == k - 1
    <3>1. k = 1 \/ (j \in 1 .. Len(e) /\ j + 1 = k)
      BY <1>2
    <3> HIDE DEF j
    <3>2. \A i \in 1 .. Len(e) : ws[i] \in T
      BY <1>4, <1>6, ElementOfSeq
    <3> QED
      BY <1>5, <1>6, <3>1, <3>2
  <2>2. us \in [1 .. Len(e) + 1 -> T]
    BY <1>5, <2>1
  <2> QED
    BY <1>2, <2>2, SeqDef, LenProperties
<1>8. <<w>> \o ws = us
  <2>1. <<w>> \in Seq(T) /\ Len(<<w>>) = 1 /\ <<w>>[1] = w
    BY <1>6
  <2>2. Len(us) = Len(<<w>>) + Len(ws) /\ \A k \in 1 .. Len(<<w>>) : us[k] = <<w>>[k]
    BY <1>2, <1>4, <1>5, <1>7, <2>1
  <2>3. \A k \in 1 .. Len(ws) : us[k + Len(<<w>>)] = ws[k]
    BY <1>4, <1>5, <2>1
  <2> QED
    BY <1>6, <1>7, <2>1, <2>2, <2>3, JoinIs
<1>9. FlattenSeq(us) = w \o FlattenSeq(ws)
  BY <1>6, <1>8, FlattenPrepend DEF T
<1>10. EncodeExpr(e2) = FlattenSeq(us) /\ EncodeExpr(e) = FlattenSeq(ws)
  BY DEF EncodeExpr, WriteEach, us, ws, NodeWords
<1> QED
  BY <1>7, <1>9, <1>10 DEF e2, us, w, T

LEMMA DecodeExprRegains ==
  ASSUME NEW b \in Seq(Byte)
  PROVE  DecodeExpr(b).err = "Ok" => Spells(EncodeExpr(DecodeExpr(b).v), DecodeExpr(b).rest, b)
<1>1. PICK g : (\A p \in Due : g[p] = NodesStep(g, p)) /\ \A c : DecodeExpr(c) = g[<<1, c>>]
  BY DecodeExprRecursion
<1> DEFINE n == Len(b) + 1
           Good(r, c) == r.err = "Ok" => /\ r.v \in Seq(Nodes) /\ NodeWords(r.v) \in Seq(Seq(Byte))
                                         /\ Spells(EncodeExpr(r.v), r.rest, c)
           P == {k \in 0 .. n : \A p \in Due : Len(p[2]) < k => Good(g[p], p[2])}
<1>2. \A p \in Due : Len(p[2]) \in Nat
  BY LenProperties DEF Due
<1>3. 0 \in P /\ n \in Nat
  BY <1>2, LenProperties
<1>4. ASSUME NEW k \in 1 .. n, k - 1 \in P PROVE k \in P
  <2>1. ASSUME NEW p \in Due, Len(p[2]) < k PROVE Good(g[p], p[2])
    <3> DEFINE x == ReadNode(p[2])
               q == <<p[1] - 1 + Arity(x.v.op), x.rest>>
               r == g[q]
    <3>1. /\ p[1] = 0 => NodesStep(g, p) = Read(<< >>, p[2])
          /\ p[1] # 0 /\ x.err # "Ok" => NodesStep(g, p) = x
          /\ p[1] # 0 /\ x.err = "Ok" =>
               /\ x.v \in Nodes /\ q \in Due /\ Len(q[2]) < Len(p[2])
               /\ NodesStep(g, p) = IF r.err = "Ok" THEN Read(<<x.v>> \o r.v, r.rest) ELSE r
      BY NodesStepIs
    <3>7. ReadNode(p[2]) = x
      OBVIOUS
    <3>2. p[2] \in Seq(Byte) /\ g[p] = NodesStep(g, p)
      BY <1>1 DEF Due
    <3>3. x.err = "Ok" => Spells(EncodeNode(x.v), q[2], p[2])
      BY <3>2, ReadNodeRegains
    <3> HIDE DEF x, q
    <3>4. CASE p[1] = 0
      <4>1. g[p].v = << >> /\ g[p].rest = p[2]
        BY <3>1, <3>2, <3>4, ReadFieldsOf
      <4>2. NodeWords(<< >>) = << >> /\ EncodeExpr(<< >>) = << >> /\ << >> \in Seq(Nodes) /\ << >> \in Seq(Seq(Byte))
        BY FlattenEmpty DEF NodeWords, EncodeExpr, WriteEach
      <4> QED
        BY <3>2, <4>1, <4>2, SpellsNothing
    <3>5. CASE p[1] # 0 /\ x.err # "Ok"
      BY <3>1, <3>2, <3>5
    <3>6. CASE p[1] # 0 /\ x.err = "Ok"
      <4>1. x.v \in Nodes /\ q \in Due /\ Len(q[2]) < Len(p[2])
        BY <3>1, <3>6
      <4>2. Len(q[2]) < k - 1
        BY <1>2, <2>1, <4>1
      <4>3. Good(r, q[2])
        BY <1>4, <4>1, <4>2
      <4>4. g[p] = IF r.err = "Ok" THEN Read(<<x.v>> \o r.v, r.rest) ELSE r
        BY <3>1, <3>2, <3>6
      <4> HIDE DEF r
      <4>5. CASE r.err = "Ok"
        <5>1. r.v \in Seq(Nodes) /\ NodeWords(r.v) \in Seq(Seq(Byte)) /\ Spells(EncodeExpr(r.v), r.rest, q[2])
          BY <4>3, <4>5
        <5>2. Spells(EncodeNode(x.v), q[2], p[2]) /\ EncodeNode(x.v) \in Seq(Byte)
          BY <3>3, <3>6 DEF Spells
        <5>3. /\ NodeWords(<<x.v>> \o r.v) \in Seq(Seq(Byte))
              /\ EncodeExpr(<<x.v>> \o r.v) = EncodeNode(x.v) \o EncodeExpr(r.v)
          BY <4>1, <5>1, <5>2, EncodePrepend
        <5>4. Spells(EncodeExpr(<<x.v>> \o r.v), r.rest, p[2])
          BY <5>1, <5>2, <5>3, SpellsMore
        <5>5. <<x.v>> \o r.v \in Seq(Nodes)
          BY <4>1, <5>1, PrependProperties
        <5>6. g[p].v = <<x.v>> \o r.v /\ g[p].rest = r.rest
          <6>1. g[p] = Read(<<x.v>> \o r.v, r.rest)
            BY <4>4, <4>5
          <6> DEFINE e == <<x.v>> \o r.v
          <6> HIDE DEF e
          <6>2. g[p] = Read(e, r.rest)
            BY <6>1 DEF e
          <6>3. g[p].v = e /\ g[p].rest = r.rest
            BY <6>2, ReadFieldsOf
          <6> QED
            BY <6>3 DEF e
        <5> QED
          BY <5>3, <5>4, <5>5, <5>6
      <4>6. CASE r.err # "Ok"
        BY <4>4, <4>6
      <4> QED
        BY <4>5, <4>6
    <3> QED
      BY <3>4, <3>5, <3>6
  <2> HIDE DEF Good
  <2> QED
    BY <2>1
<1>5. n \in P
  <2> HIDE DEF P, n
  <2>1. \A k \in 0 .. n : k \in P
    BY <1>3, <1>4, NatInduct
  <2> QED
    BY <1>3, <2>1
<1>6. <<1, b>> \in Due /\ Len(b) < n
  BY LenProperties DEF Due
<1> DEFINE p == <<1, b>>
<1>7. Good(g[p], p[2])
  <2> HIDE DEF Good, n
  <2> QED
    BY <1>5, <1>6
<1> QED
  BY <1>1, <1>7

-----------------------------------------------------------------------------
(* The tables of the SDK say what the program's say.                       *)

\* The place of each binding.
LetRank ==
  [ accountDataSlice |-> 1, accountLamports |-> 2, eval |-> 3, sysvarClockSlot |-> 4,
     sysvarClockEpochStartTimestamp |-> 5, sysvarClockEpoch |-> 6, sysvarClockLeaderScheduleEpoch |-> 7,
     sysvarClockUnixTimestamp |-> 8, sysvarRentMinimumBalance |-> 9, splTokenAccountAmount |-> 10,
     splTokenAccountDelegatedAmount |-> 11, splTokenAccountState |-> 12, splMintSupply |-> 13,
     splMintDecimals |-> 14, splToken2022AccountAmount |-> 15, splToken2022AccountDelegatedAmount |-> 16,
     splToken2022AccountState |-> 17, splToken2022MintSupply |-> 18, splToken2022MintDecimals |-> 19,
     splToken2022AccountTransferFeeWithheld |-> 20, splToken2022MintTransferFeeBasisPoints |-> 21,
     splToken2022MintTransferFeeMaximum |-> 22, splToken2022MintWithheldAmount |-> 23,
     splToken2022MintDefaultAccountState |-> 24, accountDataLen |-> 25, accountKey |-> 26,
     constPubkey |-> 27, frameGeneration |-> 28, frameIndexCount |-> 29, accountIsSigner |-> 30,
     accountIsWritable |-> 31, stakeDelegationStake |-> 32, stakeDelegationActivationEpoch |-> 33,
     stakeDelegationDeactivationEpoch |-> 34, stakeLockupUnixTimestamp |-> 35, stakeLockupEpoch |-> 36,
     stakeAuthorizedStaker |-> 37, stakeAuthorizedWithdrawer |-> 38, stakeDelegationVoter |-> 39,
     splMintIsInitialized |-> 40, splMintMintAuthority |-> 41, splMintFreezeAuthority |-> 42,
     splToken2022MintIsInitialized |-> 43, splToken2022MintMintAuthority |-> 44,
     splToken2022MintFreezeAuthority |-> 45, accountProgramOwner |-> 46, accountExecutable |-> 47,
     accountRentEpoch |-> 48, splTokenAccountMint |-> 49, splTokenAccountOwner |-> 50,
     splTokenAccountDelegate |-> 51, splTokenAccountCloseAuthority |-> 52,
     splTokenAccountIsNative |-> 53, splTokenAccountOwnerIsDerived |-> 54,
     splToken2022AccountMint |-> 55, splToken2022AccountOwner |-> 56, splToken2022AccountDelegate |-> 57,
     splToken2022AccountCloseAuthority |-> 58, splToken2022AccountIsNative |-> 59,
     splToken2022AccountOwnerIsDerived |-> 60, stakeAccountState |-> 61, stakeLockupCustodian |-> 62,
     stakeRentExemptReserve |-> 63, stakeCreditsObserved |-> 64, stakeStakeFlags |-> 65,
     upgradeableProgramDataTag |-> 66, upgradeableProgramDataUpgradeAuthority |-> 67,
     upgradeableProgramProgramDataAddress |-> 68 ]

LEMMA LetRanks ==
  ASSUME NEW k \in 1 .. 68
  PROVE  LetRank[LetVariants[k]] = k
<1>1. CASE k \in 1 .. 12
  <2>1. \/ k = 1 \/ k = 2 \/ k = 3 \/ k = 4 \/ k = 5 \/ k = 6 \/ k = 7 \/ k = 8 \/ k = 9 \/ k = 10
        \/ k = 11 \/ k = 12
    BY <1>1
  <2> QED
    BY <2>1 DEF LetRank, LetVariants
<1>2. CASE k \in 13 .. 24
  <2>1. \/ k = 13 \/ k = 14 \/ k = 15 \/ k = 16 \/ k = 17 \/ k = 18 \/ k = 19 \/ k = 20 \/ k = 21
        \/ k = 22 \/ k = 23 \/ k = 24
    BY <1>2
  <2> QED
    BY <2>1 DEF LetRank, LetVariants
<1>3. CASE k \in 25 .. 36
  <2>1. \/ k = 25 \/ k = 26 \/ k = 27 \/ k = 28 \/ k = 29 \/ k = 30 \/ k = 31 \/ k = 32 \/ k = 33
        \/ k = 34 \/ k = 35 \/ k = 36
    BY <1>3
  <2> QED
    BY <2>1 DEF LetRank, LetVariants
<1>4. CASE k \in 37 .. 48
  <2>1. \/ k = 37 \/ k = 38 \/ k = 39 \/ k = 40 \/ k = 41 \/ k = 42 \/ k = 43 \/ k = 44 \/ k = 45
        \/ k = 46 \/ k = 47 \/ k = 48
    BY <1>4
  <2> QED
    BY <2>1 DEF LetRank, LetVariants
<1>5. CASE k \in 49 .. 60
  <2>1. \/ k = 49 \/ k = 50 \/ k = 51 \/ k = 52 \/ k = 53 \/ k = 54 \/ k = 55 \/ k = 56 \/ k = 57
        \/ k = 58 \/ k = 59 \/ k = 60
    BY <1>5
  <2> QED
    BY <2>1 DEF LetRank, LetVariants
<1>6. CASE k \in 61 .. 68
  <2>1. \/ k = 61 \/ k = 62 \/ k = 63 \/ k = 64 \/ k = 65 \/ k = 66 \/ k = 67 \/ k = 68
    BY <1>6
  <2> QED
    BY <2>1 DEF LetRank, LetVariants
<1> QED
  BY <1>1, <1>2, <1>3, <1>4, <1>5, <1>6

LEMMA LetTags ==
  ASSUME NEW t \in 0 .. 67
  PROVE  TagIn(SdkLetVariants, LetVariants[t + 1]) = t
<1>1. SdkLetVariants = LetVariants
  BY DEF SdkLetVariants, LetVariants
<1>2. Len(LetVariants) = 68
  BY DEF LetVariants
<1>3. ASSUME NEW j \in 0 .. 68 - 1, LetVariants[j + 1] = LetVariants[t + 1] PROVE j = t
  <2>1. LetRank[LetVariants[j + 1]] = j + 1 /\ LetRank[LetVariants[t + 1]] = t + 1
    BY LetRanks
  <2> QED
    BY <1>3, <2>1
<1>4. t \in 0 .. Len(LetVariants) - 1
  BY <1>2
<1> QED
  BY <1>1, <1>2, <1>3, <1>4 DEF TagIn

LEMMA SdkFieldsAre ==
  ASSUME NEW t \in 0 .. 67
  PROVE  LET fs == SdkBindingFields(LetVariants[t + 1])
             tys == BindingFields(t)
         IN /\ (LetVariants[t + 1] = "eval") = (t = 2)
            /\ t # 2 => /\ DOMAIN fs = DOMAIN tys
                        /\ \A k \in DOMAIN tys : fs[k].ty = tys[k] /\ TagIn(BindingNames(t), fs[k].name) = k - 1
<1> DEFINE key == LetVariants[t + 1]
           fs == SdkBindingFields(key)
<1>1. LetRank[key] = t + 1
  BY LetRanks
<1>2. /\ LetRank["accountDataSlice"] = 1 /\ LetRank["eval"] = 3 /\ LetRank["constPubkey"] = 27
      /\ LetRank["sysvarClockSlot"] = 4 /\ LetRank["sysvarClockEpochStartTimestamp"] = 5
      /\ LetRank["sysvarClockEpoch"] = 6 /\ LetRank["sysvarClockLeaderScheduleEpoch"] = 7
      /\ LetRank["sysvarClockUnixTimestamp"] = 8 /\ LetRank["sysvarRentMinimumBalance"] = 9
      /\ LetRank["frameGeneration"] = 28 /\ LetRank["frameIndexCount"] = 29
  BY DEF LetRank
<1>3. /\ t = 0 => key = "accountDataSlice"
      /\ t = 2 => key = "eval"
      /\ t \in 3 .. 7 \cup {27, 28} =>
           key \in { "sysvarClockSlot", "sysvarClockEpochStartTimestamp", "sysvarClockEpoch",
                     "sysvarClockLeaderScheduleEpoch", "sysvarClockUnixTimestamp",
                     "frameGeneration", "frameIndexCount" }
      /\ t = 8 => key = "sysvarRentMinimumBalance"
      /\ t = 26 => key = "constPubkey"
  <2>1. t \in 3 .. 7 => t = 3 \/ t = 4 \/ t = 5 \/ t = 6 \/ t = 7
    OBVIOUS
  <2> QED
    BY <2>1 DEF LetVariants
<1>4. (key = "eval") = (t = 2)
  BY <1>1, <1>2, <1>3
<1> HIDE DEF key
<1> DEFINE one == <<"account_index">>
           four == <<"ty", "account_index", "offset", "expected_program_owner">>
<1>5. CASE t = 0
  <2>1. /\ fs = << Field("ty", "ValueType"), Field("account_index", "U8"),
                   Field("offset", "U32"), Field("expected_program_owner", "U8") >>
        /\ BindingFields(t) = <<"ValueType", "U8", "U32", "U8">> /\ BindingNames(t) = four
    BY <1>3, <1>5 DEF SdkBindingFields, BindingFields, BindingNames
  <2>2. /\ TagIn(four, "ty") = 0 /\ TagIn(four, "account_index") = 1
        /\ TagIn(four, "offset") = 2 /\ TagIn(four, "expected_program_owner") = 3
    BY DEF TagIn
  <2> HIDE DEF four
  <2> QED
    BY <1>4, <1>5, <2>1, <2>2 DEF Field, key
<1>6. CASE t \in 3 .. 7 \cup {27, 28}
  <2>1. fs = << >> /\ BindingFields(t) = << >>
    BY <1>3, <1>6 DEF SdkBindingFields, BindingFields
  <2> QED
    BY <1>4, <2>1 DEF key
<1>7. CASE t = 8
  <2>1. fs = <<Field("data_len", "U32")>> /\ BindingFields(t) = <<"U32">> /\ BindingNames(t) = <<"data_len">>
    BY <1>3, <1>7 DEF SdkBindingFields, BindingFields, BindingNames
  <2>2. TagIn(<<"data_len">>, "data_len") = 0
    BY DEF TagIn
  <2> QED
    BY <1>4, <2>1, <2>2 DEF Field, key
<1>8. CASE t = 26
  <2>1. fs = <<Field("bytes", "Pubkey")>> /\ BindingFields(t) = <<"Pubkey">> /\ BindingNames(t) = <<"bytes">>
    BY <1>3, <1>8 DEF SdkBindingFields, BindingFields, BindingNames
  <2>2. TagIn(<<"bytes">>, "bytes") = 0
    BY DEF TagIn
  <2> QED
    BY <1>4, <2>1, <2>2 DEF Field, key
<1>9. CASE t = 2
  BY <1>4, <1>9 DEF key
<1>10. CASE t # 0 /\ t # 2 /\ t \notin 3 .. 7 \cup {27, 28} /\ t # 8 /\ t # 26
  <2>1. /\ key \notin { "sysvarClockSlot", "sysvarClockEpochStartTimestamp", "sysvarClockEpoch",
                        "sysvarClockLeaderScheduleEpoch", "sysvarClockUnixTimestamp",
                        "frameGeneration", "frameIndexCount" }
        /\ key # "accountDataSlice" /\ key # "sysvarRentMinimumBalance" /\ key # "constPubkey"
    BY <1>1, <1>2, <1>10
  <2>2. fs = <<Field("account_index", "U8")>>
    BY <2>1 DEF SdkBindingFields
  <2>3. BindingFields(t) = <<"U8">> /\ BindingNames(t) = one
    BY <1>10 DEF BindingFields, BindingNames
  <2>4. TagIn(one, "account_index") = 0
    BY DEF TagIn
  <2> HIDE DEF one
  <2> QED
    BY <1>4, <2>2, <2>3, <2>4 DEF Field, key
<1> QED
  BY <1>5, <1>6, <1>7, <1>8, <1>9, <1>10

LEMMA ValueTypeTag ==
  ASSUME NEW v \in 0 .. 13
  PROVE  EncodeArg("ValueType", v) = <<v>>
<1> DEFINE table == SdkValueTypes
<1>1. table = ValueTypes /\ Len(table) = 14
  BY DEF SdkValueTypes, ValueTypes, ConstTypes
<1>2. \/ v = 0 \/ v = 1 \/ v = 2 \/ v = 3 \/ v = 4 \/ v = 5 \/ v = 6 \/ v = 7
      \/ v = 8 \/ v = 9 \/ v = 10 \/ v = 11 \/ v = 12 \/ v = 13
  OBVIOUS
<1>3. TagIn(SdkValueTypes, SdkValueTypes[v + 1]) = v
  <2>1. ASSUME NEW j \in 0 .. 13, SdkValueTypes[j + 1] = SdkValueTypes[v + 1] PROVE j = v
    <3>1. \/ j = 0 \/ j = 1 \/ j = 2 \/ j = 3 \/ j = 4 \/ j = 5 \/ j = 6 \/ j = 7
          \/ j = 8 \/ j = 9 \/ j = 10 \/ j = 11 \/ j = 12 \/ j = 13
      OBVIOUS
    <3> QED
      BY <1>2, <2>1, <3>1 DEF SdkValueTypes
  <2> HIDE DEF table
  <2>2. v \in 0 .. Len(table) - 1 /\ \A j \in 0 .. Len(table) - 1 : table[j + 1] = table[v + 1] => j = v
    BY <1>1, <2>1 DEF table
  <2>3. TagIn(table, table[v + 1]) = v
    BY <2>2 DEF TagIn
  <2> QED
    BY <2>3 DEF table
<1> QED
  BY <1>1, <1>3 DEF EncodeArg

\* What the fields of a binding are written as.
FieldWords(tys, args) == [k \in DOMAIN tys |-> EncodeArg(tys[k], args[k])]

LEMMA EncodeBindingIs ==
  ASSUME NEW t \in 0 .. 67, NEW args, NEW expr
  PROVE  EncodeBinding([tag |-> t, args |-> args, expr |-> expr]) =
           <<t>> \o IF t = 2 THEN EncodeExpr(expr) ELSE FlattenSeq(FieldWords(BindingFields(t), args))
<1> DEFINE key == LetVariants[t + 1]
           fs == SdkBindingFields(key)
           names == BindingNames(t)
           b == [tag |-> t, args |-> args, expr |-> expr]
           ws == [k \in DOMAIN fs |-> EncodeArg(fs[k].ty, Named(names, args, fs[k].name))]
<1>1. EncodeBinding(b) = <<TagIn(SdkLetVariants, key)>> \o IF key = "eval" THEN EncodeExpr(expr) ELSE FlattenSeq(ws)
  BY DEF EncodeBinding
<1>2. TagIn(SdkLetVariants, key) = t
  BY LetTags
<1>3. (key = "eval") = (t = 2)
  BY SdkFieldsAre
<1> DEFINE tys == BindingFields(t)
<1>4. t # 2 => /\ DOMAIN fs = DOMAIN tys
               /\ \A k \in DOMAIN tys : fs[k].ty = tys[k] /\ TagIn(names, fs[k].name) = k - 1
  BY SdkFieldsAre
<1>5. \A k \in DOMAIN tys : k \in Int
  BY BindingFieldsTyped, LenProperties
<1> HIDE DEF fs, tys, names, key
<1>6. t # 2 => ws = FieldWords(tys, args)
  <2>1. ASSUME t # 2, NEW k \in DOMAIN tys PROVE Named(names, args, fs[k].name) = args[k]
    <3>1. TagIn(names, fs[k].name) + 1 = k
      BY <1>4, <1>5, <2>1
    <3> QED
      BY <3>1 DEF Named
  <2> QED
    BY <1>4, <2>1 DEF FieldWords
<1> HIDE DEF ws, b
<1>7. EncodeBinding(b) = <<t>> \o IF t = 2 THEN EncodeExpr(expr) ELSE FlattenSeq(FieldWords(tys, args))
  BY <1>1, <1>2, <1>3, <1>6
<1> QED
  BY <1>7 DEF tys, b

\* No two fields of a list have one name.
NamedOnce(fs) == \A j, k \in DOMAIN fs : fs[j].name = fs[k].name => j = k

\* What the SDK has for alternative n of a form, whose fields are fs.
Agreed(form, n, fs) ==
  LET name == AlternativeNames[form][n] IN
  SdkPayload[form][name] = fs /\ (form \in DOMAIN SdkTags => SdkTags[form][name] = n - 1) /\ NamedOnce(fs)

LEMMA PayloadAgrees ==
  ASSUME NEW form \in PayloadNames
  PROVE  /\ (form \in DOMAIN SdkTags) = (Len(Payload[form]) > 1)
         /\ \A n \in 1 .. Len(Payload[form]) : Agreed(form, n, Payload[form][n])
<1>1. DOMAIN SdkTags = {"create", "checked", "fee", "set_fee", "unwrap"}
  BY DEF SdkTags
<1>2. CASE form = "lamports"
  <2>1. Len(Payload["lamports"]) = 1
    BY DEF Payload
  <2>2. Agreed("lamports", 1, Payload["lamports"][1])
    BY <1>1 DEF Agreed, NamedOnce, Payload, SdkPayload, AlternativeNames, SdkTags, Bound, Literal
  <2>3. \A k \in 1 .. 1 : k = 1
    OBVIOUS
  <2> QED
    BY <1>1, <1>2, <2>1, <2>2, <2>3
<1>3. CASE form = "space"
  <2>1. Len(Payload["space"]) = 1
    BY DEF Payload
  <2>2. Agreed("space", 1, Payload["space"][1])
    BY <1>1 DEF Agreed, NamedOnce, Payload, SdkPayload, AlternativeNames, SdkTags, Bound, Literal
  <2>3. \A k \in 1 .. 1 : k = 1
    OBVIOUS
  <2> QED
    BY <1>1, <1>3, <2>1, <2>2, <2>3
<1>4. CASE form = "amount"
  <2>1. Len(Payload["amount"]) = 1
    BY DEF Payload
  <2>2. Agreed("amount", 1, Payload["amount"][1])
    BY <1>1 DEF Agreed, NamedOnce, Payload, SdkPayload, AlternativeNames, SdkTags, Bound, Literal
  <2>3. \A k \in 1 .. 1 : k = 1
    OBVIOUS
  <2> QED
    BY <1>1, <1>4, <2>1, <2>2, <2>3
<1>5. CASE form = "multisig"
  <2>1. Len(Payload["multisig"]) = 1
    BY DEF Payload
  <2>2. Agreed("multisig", 1, Payload["multisig"][1])
    BY <1>1 DEF Agreed, NamedOnce, Payload, SdkPayload, AlternativeNames, SdkTags, Bound, Literal
  <2>3. \A k \in 1 .. 1 : k = 1
    OBVIOUS
  <2> QED
    BY <1>1, <1>5, <2>1, <2>2, <2>3
<1>6. CASE form = "unit"
  <2>1. Len(Payload["unit"]) = 1
    BY DEF Payload
  <2>2. Agreed("unit", 1, Payload["unit"][1])
    BY <1>1 DEF Agreed, NamedOnce, Payload, SdkPayload, AlternativeNames, SdkTags, Bound, Literal
  <2>3. \A k \in 1 .. 1 : k = 1
    OBVIOUS
  <2> QED
    BY <1>1, <1>6, <2>1, <2>2, <2>3
<1>7. CASE form = "mint"
  <2>1. Len(Payload["mint"]) = 1
    BY DEF Payload
  <2>2. Agreed("mint", 1, Payload["mint"][1])
    BY <1>1 DEF Agreed, NamedOnce, Payload, SdkPayload, AlternativeNames, SdkTags, Bound, Literal
  <2>3. \A k \in 1 .. 1 : k = 1
    OBVIOUS
  <2> QED
    BY <1>1, <1>7, <2>1, <2>2, <2>3
<1>8. CASE form = "create"
  <2>1. Len(Payload["create"]) = 3
    BY DEF Payload
  <2>2. Agreed("create", 1, Payload["create"][1])
    BY <1>1 DEF Agreed, NamedOnce, Payload, SdkPayload, AlternativeNames, SdkTags, Bound, Literal
  <2>3. Agreed("create", 2, Payload["create"][2])
    BY <1>1 DEF Agreed, NamedOnce, Payload, SdkPayload, AlternativeNames, SdkTags, Bound, Literal
  <2>4. Agreed("create", 3, Payload["create"][3])
    BY <1>1 DEF Agreed, NamedOnce, Payload, SdkPayload, AlternativeNames, SdkTags, Bound, Literal
  <2>5. \A k \in 1 .. 3 : k = 1 \/ k = 2 \/ k = 3
    OBVIOUS
  <2> QED
    BY <1>1, <1>8, <2>1, <2>2, <2>3, <2>4, <2>5
<1>9. CASE form = "checked"
  <2>1. Len(Payload["checked"]) = 3
    BY DEF Payload
  <2>2. Agreed("checked", 1, Payload["checked"][1])
    BY <1>1 DEF Agreed, NamedOnce, Payload, SdkPayload, AlternativeNames, SdkTags, Bound, Literal
  <2>3. Agreed("checked", 2, Payload["checked"][2])
    BY <1>1 DEF Agreed, NamedOnce, Payload, SdkPayload, AlternativeNames, SdkTags, Bound, Literal
  <2>4. Agreed("checked", 3, Payload["checked"][3])
    BY <1>1 DEF Agreed, NamedOnce, Payload, SdkPayload, AlternativeNames, SdkTags, Bound, Literal
  <2>5. \A k \in 1 .. 3 : k = 1 \/ k = 2 \/ k = 3
    OBVIOUS
  <2> QED
    BY <1>1, <1>9, <2>1, <2>2, <2>3, <2>4, <2>5
<1>10. CASE form = "set_fee"
  <2>1. Len(Payload["set_fee"]) = 3
    BY DEF Payload
  <2>2. Agreed("set_fee", 1, Payload["set_fee"][1])
    BY <1>1 DEF Agreed, NamedOnce, Payload, SdkPayload, AlternativeNames, SdkTags, Bound, Literal
  <2>3. Agreed("set_fee", 2, Payload["set_fee"][2])
    BY <1>1 DEF Agreed, NamedOnce, Payload, SdkPayload, AlternativeNames, SdkTags, Bound, Literal
  <2>4. Agreed("set_fee", 3, Payload["set_fee"][3])
    BY <1>1 DEF Agreed, NamedOnce, Payload, SdkPayload, AlternativeNames, SdkTags, Bound, Literal
  <2>5. \A k \in 1 .. 3 : k = 1 \/ k = 2 \/ k = 3
    OBVIOUS
  <2> QED
    BY <1>1, <1>10, <2>1, <2>2, <2>3, <2>4, <2>5
<1>11. CASE form = "unwrap"
  <2>1. Len(Payload["unwrap"]) = 2
    BY DEF Payload
  <2>2. Agreed("unwrap", 1, Payload["unwrap"][1])
    BY <1>1 DEF Agreed, NamedOnce, Payload, SdkPayload, AlternativeNames, SdkTags, Bound, Literal
  <2>3. Agreed("unwrap", 2, Payload["unwrap"][2])
    BY <1>1 DEF Agreed, NamedOnce, Payload, SdkPayload, AlternativeNames, SdkTags, Bound, Literal
  <2>4. \A k \in 1 .. 2 : k = 1 \/ k = 2
    OBVIOUS
  <2> QED
    BY <1>1, <1>11, <2>1, <2>2, <2>3, <2>4
<1>12. CASE form = "fee"
  <2>1. Len(Payload["fee"]) = 7
    BY DEF Payload
  <2>2. Agreed("fee", 1, Payload["fee"][1])
    BY <1>1 DEF Agreed, NamedOnce, Payload, SdkPayload, AlternativeNames, SdkTags, Bound, Literal
  <2>3. Agreed("fee", 2, Payload["fee"][2])
    BY <1>1 DEF Agreed, NamedOnce, Payload, SdkPayload, AlternativeNames, SdkTags, Bound, Literal
  <2>4. Agreed("fee", 3, Payload["fee"][3])
    BY <1>1 DEF Agreed, NamedOnce, Payload, SdkPayload, AlternativeNames, SdkTags, Bound, Literal
  <2>5. Agreed("fee", 4, Payload["fee"][4])
    BY <1>1 DEF Agreed, NamedOnce, Payload, SdkPayload, AlternativeNames, SdkTags, Bound, Literal
  <2>6. Agreed("fee", 5, Payload["fee"][5])
    BY <1>1 DEF Agreed, NamedOnce, Payload, SdkPayload, AlternativeNames, SdkTags, Bound, Literal
  <2>7. Agreed("fee", 6, Payload["fee"][6])
    BY <1>1 DEF Agreed, NamedOnce, Payload, SdkPayload, AlternativeNames, SdkTags, Bound, Literal
  <2>8. Agreed("fee", 7, Payload["fee"][7])
    BY <1>1 DEF Agreed, NamedOnce, Payload, SdkPayload, AlternativeNames, SdkTags, Bound, Literal
  <2>9. \A k \in 1 .. 7 : k = 1 \/ k = 2 \/ k = 3 \/ k = 4 \/ k = 5 \/ k = 6 \/ k = 7
    OBVIOUS
  <2> QED
    BY <1>1, <1>12, <2>1, <2>2, <2>3, <2>4, <2>5, <2>6, <2>7, <2>8, <2>9
<1> QED
  BY <1>2, <1>3, <1>4, <1>5, <1>6, <1>7, <1>8, <1>9, <1>10, <1>11, <1>12 DEF PayloadNames


LEMMA PatchTags ==
  ASSUME NEW k \in 1 .. 34
  PROVE  SdkPatchWire[PatchNames[k]] = k - 1 /\ SdkForm(PatchNames[k]) = PatchVariants[k]
<1>1. CASE k \in 1 .. 9
  <2>1. \/ k = 1 \/ k = 2 \/ k = 3 \/ k = 4 \/ k = 5 \/ k = 6 \/ k = 7 \/ k = 8 \/ k = 9
    BY <1>1
  <2>2. SdkPatchWire[PatchNames[k]] = k - 1
    BY <2>1 DEF SdkPatchWire, PatchNames
  <2>3. SdkForm(PatchNames[k]) = PatchVariants[k]
    BY <2>1 DEF SdkForm, PatchNames, PatchVariants
  <2> QED
    BY <2>2, <2>3
<1>2. CASE k \in 10 .. 18
  <2>1. \/ k = 10 \/ k = 11 \/ k = 12 \/ k = 13 \/ k = 14 \/ k = 15 \/ k = 16 \/ k = 17 \/ k = 18
    BY <1>2
  <2>2. SdkPatchWire[PatchNames[k]] = k - 1
    BY <2>1 DEF SdkPatchWire, PatchNames
  <2>3. SdkForm(PatchNames[k]) = PatchVariants[k]
    BY <2>1 DEF SdkForm, PatchNames, PatchVariants
  <2> QED
    BY <2>2, <2>3
<1>3. CASE k \in 19 .. 27
  <2>1. \/ k = 19 \/ k = 20 \/ k = 21 \/ k = 22 \/ k = 23 \/ k = 24 \/ k = 25 \/ k = 26 \/ k = 27
    BY <1>3
  <2>2. SdkPatchWire[PatchNames[k]] = k - 1
    BY <2>1 DEF SdkPatchWire, PatchNames
  <2>3. SdkForm(PatchNames[k]) = PatchVariants[k]
    BY <2>1 DEF SdkForm, PatchNames, PatchVariants
  <2> QED
    BY <2>2, <2>3
<1>4. CASE k \in 28 .. 34
  <2>1. \/ k = 28 \/ k = 29 \/ k = 30 \/ k = 31 \/ k = 32 \/ k = 33 \/ k = 34
    BY <1>4
  <2>2. SdkPatchWire[PatchNames[k]] = k - 1
    BY <2>1 DEF SdkPatchWire, PatchNames
  <2>3. SdkForm(PatchNames[k]) = PatchVariants[k]
    BY <2>1 DEF SdkForm, PatchNames, PatchVariants
  <2> QED
    BY <2>2, <2>3
<1> QED
  BY <1>1, <1>2, <1>3, <1>4

\* What a field of a patch is written as.
PatchWord(f, v) == EncodeField(f, f.kinds, v)

LEMMA PlaceOf ==
  ASSUME NEW t \in 0 .. 33
  PROVE  t + 1 \in 1 .. 34 /\ (t + 1) - 1 = t
OBVIOUS

LEMMA EncodePatchIs ==
  ASSUME NEW variant \in 0 .. 33, NEW alt, NEW vals,
         alt \in 0 .. Len(Payload[PatchVariants[variant + 1]]) - 1,
         DOMAIN Payload[PatchVariants[variant + 1]][alt + 1] = 1 .. Len(Payload[PatchVariants[variant + 1]][alt + 1])
  PROVE  LET alts == Payload[PatchVariants[variant + 1]]
             fs == alts[alt + 1]
         IN EncodePatch([variant |-> variant, alt |-> alt, vals |-> vals]) =
              <<variant>> \o (IF Len(alts) > 1 THEN <<alt>> ELSE << >>)
                \o FlattenSeq([k \in DOMAIN fs |-> PatchWord(fs[k], vals[k])])
<1> DEFINE name == PatchNames[variant + 1]
           form == PatchVariants[variant + 1]
           alts == Payload[form]
           fs == alts[alt + 1]
           of == AlternativeNames[form][alt + 1]
           names == [k \in DOMAIN fs |-> fs[k].name]
           kinds == [k \in DOMAIN fs |-> fs[k].kinds]
           own == SdkForm(name)
           fields == SdkPayload[own][of]
           p == [variant |-> variant, alt |-> alt, vals |-> vals]
           tag == IF own \in DOMAIN SdkTags THEN <<SdkTags[own][of]>> ELSE << >>
           ws == [k \in DOMAIN fields |->
                    EncodeField(fields[k], Named(names, kinds, fields[k].name), Named(names, vals, fields[k].name))]
<1>1. EncodePatch(p) = <<SdkPatchWire[name]>> \o tag \o FlattenSeq(ws)
  BY DEF EncodePatch
<1>2. variant + 1 \in 1 .. 34 /\ form \in PayloadNames
  <2>1. variant + 1 \in 1 .. 34
    BY PlaceOf
  <2> QED
    BY <2>1, PatchVariantsTyped, ElementOfSeq
<1>3. SdkPatchWire[name] = variant /\ own = form
  <2> DEFINE k == variant + 1
  <2>1. k \in 1 .. 34 /\ k - 1 = variant
    BY PlaceOf
  <2> HIDE DEF k
  <2>2. SdkPatchWire[PatchNames[k]] = variant /\ SdkForm(PatchNames[k]) = PatchVariants[k]
    BY <2>1, PatchTags
  <2> QED
    BY <2>2 DEF k
<1> HIDE DEF name, own, p
<1> DEFINE n == Len(fs)
<1>4. DOMAIN fs = 1 .. n /\ alt + 1 \in 1 .. Len(alts)
  <2> HIDE DEF alts
  <2> QED
    BY DEF alts, form
<1>5. (form \in DOMAIN SdkTags) = (Len(alts) > 1) /\ Agreed(form, alt + 1, fs)
  BY <1>2, <1>4, PayloadAgrees
<1> HIDE DEF form, alts
<1>6. fields = fs /\ (form \in DOMAIN SdkTags => SdkTags[form][of] = alt) /\ NamedOnce(fs)
  <2>1. fields = fs /\ (form \in DOMAIN SdkTags => SdkTags[form][of] = (alt + 1) - 1) /\ NamedOnce(fs)
    BY <1>3, <1>5 DEF Agreed
  <2>2. (alt + 1) - 1 = alt
    BY <1>4
  <2> QED
    BY <2>1, <2>2
<1>7. tag = IF Len(alts) > 1 THEN <<alt>> ELSE << >>
  BY <1>3, <1>5, <1>6
<1> HIDE DEF tag, fields, of, fs
<1>8. ASSUME NEW k \in 1 .. n
      PROVE  TagIn(names, fs[k].name) = k - 1
  <2>1. Len(names) = n /\ \A j \in 1 .. n : names[j] = fs[j].name
    BY <1>4
  <2>2. k - 1 \in 0 .. Len(names) - 1 /\ names[(k - 1) + 1] = fs[k].name
    BY <1>4, <2>1
  <2>3. ASSUME NEW t \in 0 .. Len(names) - 1, names[t + 1] = fs[k].name PROVE t = k - 1
    <3>1. t + 1 \in 1 .. n
      BY <1>4, <2>1
    <3>2. t + 1 = k
      BY <1>4, <1>6, <2>1, <2>3, <3>1 DEF NamedOnce
    <3> QED
      BY <3>1, <3>2
  <2> HIDE DEF names
  <2> QED
    BY <2>2, <2>3 DEF TagIn
<1>9. ws = [k \in DOMAIN fs |-> PatchWord(fs[k], vals[k])]
  <2>1. ASSUME NEW k \in 1 .. n
        PROVE  Named(names, kinds, fs[k].name) = fs[k].kinds /\ Named(names, vals, fs[k].name) = vals[k]
    <3>1. TagIn(names, fs[k].name) + 1 = k
      BY <1>8
    <3>2. kinds[k] = fs[k].kinds
      BY <1>4
    <3> HIDE DEF names, kinds
    <3> QED
      BY <3>1, <3>2 DEF Named
  <2> HIDE DEF names, kinds
  <2> QED
    BY <1>4, <1>6, <2>1 DEF PatchWord
<1> HIDE DEF ws, n
<1>10. EncodePatch(p) = <<variant>> \o (IF Len(alts) > 1 THEN <<alt>> ELSE << >>)
                         \o FlattenSeq([k \in DOMAIN fs |-> PatchWord(fs[k], vals[k])])
  BY <1>1, <1>3, <1>7, <1>9
<1> QED
  BY <1>10 DEF p, fs, alts, form

\* A field is written as its tag, if there are several kinds, and the value.
LEMMA PatchWordIs ==
  ASSUME NEW f \in PatchFields, NEW tag \in 0 .. Len(f.kinds) - 1, NEW x
  PROVE  LET kind == f.kinds[tag + 1] IN
         PatchWord(f, [tag |-> tag, v |-> x]) =
           (IF Len(f.kinds) > 1 THEN <<tag>> ELSE << >>)
             \o CASE kind = "none" -> << >>
                  [] kind = "frame" -> <<x>>
                  [] OTHER -> Write(kind, x)
<1> DEFINE ks == f.kinds
           n == Len(ks)
           kind == ks[tag + 1]
           own == IF n > 1 THEN TagIn(ks, kind) ELSE 0
           body(k) == CASE k = "none" -> << >> [] k = "frame" -> <<x>> [] OTHER -> Write(k, x)
<1>1. ks \in Seq(Kinds) /\ \A j, k \in DOMAIN ks : ks[j] = ks[k] => j = k
  BY DEF PatchFields, KindLists
<1>2. n \in Nat /\ DOMAIN ks = 1 .. n
  BY <1>1, LenProperties
<1>3. PatchWord(f, [tag |-> tag, v |-> x]) = (IF n > 1 THEN <<own>> ELSE << >>) \o body(ks[own + 1])
  BY DEF PatchWord, EncodeField
<1> HIDE DEF ks
<1>4. TagIn(ks, kind) = tag
  <2>1. tag \in 0 .. Len(ks) - 1 /\ ks[tag + 1] = kind
    BY DEF ks
  <2>2. ASSUME NEW t \in 0 .. Len(ks) - 1, ks[t + 1] = kind PROVE t = tag
    <3>1. t + 1 \in DOMAIN ks /\ tag + 1 \in DOMAIN ks
      BY <1>2, <2>1
    <3>2. t + 1 = tag + 1
      BY <1>1, <2>2, <3>1
    <3> QED
      BY <1>2, <2>1, <3>2
  <2> HIDE DEF kind
  <2> QED
    BY <2>1, <2>2 DEF TagIn
<1>5. own = tag
  BY <1>2, <1>4 DEF ks
<1> HIDE DEF own
<1>6. PatchWord(f, [tag |-> tag, v |-> x]) = (IF n > 1 THEN <<tag>> ELSE << >>) \o body(kind)
  BY <1>3, <1>5
<1> QED
  BY <1>6, Zenon DEF ks

-----------------------------------------------------------------------------
(* Bindings.                                                               *)

LEMMA ReadFieldsRegains ==
  ASSUME NEW tys \in Seq(Type \cup {"ValueType"}), NEW b \in Seq(Byte)
  PROVE  LET d == ReadFields(tys, b) IN
         d.err = "Ok" => Spells(FlattenSeq(FieldWords(tys, d.v)), d.rest, b)
<1> DEFINE readers == [k \in DOMAIN tys |-> [r \in Seq(Byte) |->
                         IF tys[k] = "ValueType" THEN ReadTag(14, r) ELSE ReadNumber(tys[k], r)]]
           n == Len(tys)
           W == [k \in 1 .. n |-> [v \in Int |-> EncodeArg(tys[k], v)]]
<1>1. n \in Nat /\ DOMAIN tys = 1 .. n
  BY LenProperties
<1>2. Len(readers) = n
  BY <1>1, LenProperties
<1> HIDE DEF n
<1>3. ASSUME NEW k \in 1 .. n, NEW r \in Seq(Byte) PROVE Regains(readers[k][r], Int, W[k], r)
  <2> DEFINE d == readers[k][r]
  <2>1. k \in DOMAIN tys /\ tys[k] \in Type \cup {"ValueType"}
    BY <1>1, ElementOfSeq DEF n
  <2>2. d = IF tys[k] = "ValueType" THEN ReadTag(14, r) ELSE ReadNumber(tys[k], r)
    BY <2>1
  <2>3. \A v \in Int : W[k][v] = EncodeArg(tys[k], v)
    OBVIOUS
  <2> DEFINE w == W[k]
  <2> HIDE DEF d, w
  <2>4. CASE tys[k] = "ValueType"
    <3>1. d = ReadTag(14, r) /\ 14 \in Nat
      BY <2>2, <2>4
    <3>2. d \in Reading(0 .. 14 - 1)
      BY <3>1, ReadTagTyped
    <3>3. d \in Reading(Int)
      BY <3>2 DEF Reading
    <3>4. d.err = "Ok" => Spells(<<d.v>>, d.rest, r) /\ d.v \in Int
      BY <3>1, <3>3, ReadTagRegains, ReadingCases
    <3>5. d.err = "Ok" => w[d.v] = <<d.v>>
      <4> SUFFICES ASSUME d.err = "Ok" PROVE w[d.v] = <<d.v>>
        OBVIOUS
      <4>1. d.v \in 0 .. 13
        BY <3>2, ReadingCases
      <4>2. w[d.v] = EncodeArg("ValueType", d.v)
        BY <2>3, <2>4, <3>4 DEF w
      <4> QED
        BY <4>1, <4>2, ValueTypeTag
    <3> QED
      BY <3>3, <3>4, <3>5 DEF Regains, d, w
  <2>5. CASE tys[k] # "ValueType"
    <3>1. d = ReadNumber(tys[k], r) /\ tys[k] \in Type
      BY <2>1, <2>2, <2>5
    <3>2. d \in Reading(Values(tys[k])) /\ Values(tys[k]) \subseteq Int
      BY <3>1, ReadNumberTyped, ValuesAreIntegers
    <3>3. d \in Reading(Int)
      BY <3>2 DEF Reading
    <3>4. d.err = "Ok" => Spells(Write(tys[k], d.v), d.rest, r) /\ d.v \in Int
      BY <3>1, <3>3, ReadNumberRegains, ReadingCases
    <3>5. d.err = "Ok" => w[d.v] = Write(tys[k], d.v)
      BY <2>3, <2>5, <3>4 DEF w, EncodeArg
    <3> QED
      BY <3>3, <3>4, <3>5 DEF Regains, d, w
  <2> QED
    BY <2>4, <2>5
<1>4. ReadFields(tys, b) = ReadEach(readers, b)
  BY DEF ReadFields
<1> DEFINE d == ReadFields(tys, b)
           words == [k \in 1 .. n |-> W[k][d.v[k]]]
<1>5. d.err = "Ok" => words = FieldWords(tys, d.v)
  <2>1. d \in Reading({vs \in Seq(Int) : Len(vs) = n})
    BY ReadFieldsTyped DEF n
  <2> HIDE DEF d
  <2> SUFFICES ASSUME d.err = "Ok" PROVE words = FieldWords(tys, d.v)
    OBVIOUS
  <2>2. d.v \in Seq(Int) /\ Len(d.v) = n
    BY <2>1, ReadingCases
  <2>3. \A k \in 1 .. n : d.v[k] \in Int
    BY <2>2, ElementOfSeq
  <2>4. \A k \in 1 .. n : W[k][d.v[k]] = EncodeArg(tys[k], d.v[k])
    BY <2>3
  <2> HIDE DEF W
  <2> QED
    BY <1>1, <2>4 DEF FieldWords
<1> HIDE DEF readers, W
<1>6. d.err = "Ok" => Spells(FlattenSeq(words), d.rest, b)
  <2>1. Len(readers) \in Nat /\ \A k \in 1 .. Len(readers) : \A r \in Seq(Byte) : Regains(readers[k][r], Int, W[k], r)
    BY <1>1, <1>2, <1>3
  <2> DEFINE e == ReadEach(readers, b)
  <2>2. e.err = "Ok" => Spells(FlattenSeq([k \in 1 .. Len(readers) |-> W[k][e.v[k]]]), e.rest, b)
    BY <2>1, ReadEachRegains
  <2> QED
    BY <1>2, <1>4, <2>2
<1> QED
  BY <1>5, <1>6

LEMMA DecodeBindingIs ==
  ASSUME NEW b
  PROVE  LET t == ReadTag(68, b)
             e == DecodeExpr(t.rest)
             a == ReadFields(BindingFields(t.v), t.rest)
         IN DecodeBinding(b) =
              IF t.err # "Ok" THEN t
              ELSE IF t.v = 2 THEN IF e.err = "Ok" THEN Read([tag |-> 2, args |-> << >>, expr |-> e.v], e.rest) ELSE e
              ELSE IF a.err = "Ok" THEN Read([tag |-> t.v, args |-> a.v, expr |-> NoExpr], a.rest) ELSE a
BY DEF DecodeBinding, Then

LEMMA DecodeBindingRegains ==
  ASSUME NEW b \in Seq(Byte)
  PROVE  DecodeBinding(b).err = "Ok" => Spells(EncodeBinding(DecodeBinding(b).v), DecodeBinding(b).rest, b)
<1> DEFINE t == ReadTag(68, b)
           e == DecodeExpr(t.rest)
           a == ReadFields(BindingFields(t.v), t.rest)
           r == DecodeBinding(b)
           eval(x) == [tag |-> 2, args |-> << >>, expr |-> x]
           load(x) == [tag |-> t.v, args |-> x, expr |-> NoExpr]
<1>1. r = IF t.err # "Ok" THEN t
          ELSE IF t.v = 2 THEN IF e.err = "Ok" THEN Read(eval(e.v), e.rest) ELSE e
          ELSE IF a.err = "Ok" THEN Read(load(a.v), a.rest) ELSE a
  BY DecodeBindingIs, Zenon
<1> HIDE DEF r
<1> SUFFICES ASSUME r.err = "Ok" PROVE Spells(EncodeBinding(r.v), r.rest, b)
  BY DEF r
<1>2. t.err = "Ok" /\ 68 \in Nat
  BY <1>1
<1>3. Spells(<<t.v>>, t.rest, b) /\ t.rest \in Seq(Byte) /\ t.v \in 0 .. 67
  <2>1. t.v \in 0 .. 68 - 1
    BY <1>2, ReadTagRegains
  <2> QED
    BY <1>2, <2>1, ReadTagRegains
<1> HIDE DEF t
<1>4. CASE t.v = 2
  <2>1. e.err = "Ok" /\ r = Read(eval(e.v), e.rest)
    BY <1>1, <1>2, <1>4
  <2>2. Spells(EncodeExpr(e.v), e.rest, t.rest)
    BY <1>3, <2>1, DecodeExprRegains
  <2> HIDE DEF e
  <2>3. r.v = eval(e.v) /\ r.rest = e.rest
    <3> HIDE DEF eval
    <3> QED
      BY <2>1, ReadFieldsOf
  <2>4. EncodeBinding(eval(e.v)) = <<t.v>> \o EncodeExpr(e.v)
    <3>1. EncodeBinding([tag |-> t.v, args |-> << >>, expr |-> e.v]) = <<t.v>> \o EncodeExpr(e.v)
      BY <1>3, <1>4, EncodeBindingIs
    <3> QED
      BY <1>4, <3>1
  <2>5. Spells(<<t.v>> \o EncodeExpr(e.v), e.rest, b)
    BY <1>3, <2>2, SpellsMore
  <2> QED
    BY <2>3, <2>4, <2>5
<1>5. CASE t.v # 2
  <2>1. a.err = "Ok" /\ r = Read(load(a.v), a.rest)
    BY <1>1, <1>2, <1>5
  <2> DEFINE tys == BindingFields(t.v)
             w == FlattenSeq(FieldWords(tys, a.v))
  <2>2. Spells(w, a.rest, t.rest)
    BY <1>3, <2>1, BindingFieldsTyped, ReadFieldsRegains
  <2> HIDE DEF a
  <2>3. r.v = load(a.v) /\ r.rest = a.rest
    <3> HIDE DEF load
    <3> QED
      BY <2>1, ReadFieldsOf
  <2>4. EncodeBinding(load(a.v)) = <<t.v>> \o w
    BY <1>3, <1>5, EncodeBindingIs
  <2> HIDE DEF w
  <2>5. Spells(<<t.v>> \o w, a.rest, b)
    BY <1>3, <2>2, SpellsMore
  <2> QED
    BY <2>3, <2>4, <2>5
<1> QED
  BY <1>4, <1>5

-----------------------------------------------------------------------------
(* Lists of one kind.                                                      *)

\* A reader of elements of S, which W writes; and a list that it regains.
Regainer(reader, S, W) == \A r \in Seq(Byte) : Regains(reader[r], S, W, r)
ListRegained(d, S, W, n, b) ==
  d.err = "Ok" => /\ d.v \in Seq(S) /\ Len(d.v) = n /\ d.rest \in Seq(Byte)
                  /\ Spells(FlattenSeq([k \in DOMAIN d.v |-> W[d.v[k]]]), d.rest, b)

LEMMA ReadManyRegains ==
  ASSUME NEW S, NEW reader, NEW W, NEW n \in Nat, NEW b \in Seq(Byte), Regainer(reader, S, W)
  PROVE  ListRegained(ReadEach([k \in 1 .. n |-> reader], b), S, W, n, b)
<1> DEFINE readers == [k \in 1 .. n |-> reader]
           V == [k \in 1 .. n |-> W]
           d == ReadEach(readers, b)
<1>1. Len(readers) = n /\ \A k \in 1 .. n : readers[k] = reader
  BY LenProperties
<1>2. d \in Reading({vs \in Seq(S) : Len(vs) = n})
  BY ReadManyTyped DEF Regainer, Regains
<1>3. d.err = "Ok" => Spells(FlattenSeq([k \in 1 .. n |-> V[k][d.v[k]]]), d.rest, b)
  <2> HIDE DEF readers, d, V
  <2>1. \A k \in 1 .. Len(readers) : \A r \in Seq(Byte) : Regains(readers[k][r], S, V[k], r)
    BY <1>1 DEF V, Regainer
  <2> QED
    BY <1>1, <2>1, ReadEachRegains DEF d
<1>4. [k \in 1 .. n |-> V[k][d.v[k]]] = [k \in 1 .. n |-> W[d.v[k]]]
  <2> HIDE DEF d
  <2> QED
    OBVIOUS
<1> HIDE DEF d, V
<1>5. d.err = "Ok" => d.v \in Seq(S) /\ Len(d.v) = n /\ d.rest \in Seq(Byte) /\ DOMAIN d.v = 1 .. n
  BY <1>2, ReadingCases, LenProperties
<1>6. d.err = "Ok" => Spells(FlattenSeq([k \in DOMAIN d.v |-> W[d.v[k]]]), d.rest, b)
  BY <1>3, <1>4, <1>5
<1> QED
  BY <1>5, <1>6 DEF d, ListRegained

-----------------------------------------------------------------------------
(* Steps.                                                                  *)

LEMMA ReadU16Regains ==
  ASSUME NEW b \in Seq(Byte)
  PROVE  ReadU16(b).err = "Ok" => Spells(Write("U16", ReadU16(b).v), ReadU16(b).rest, b) /\ ReadU16(b).rest \in Seq(Byte)
<1>1. "U16" \in Type
  BY DEF Type, Ordered, Int_, Unsigned
<1> QED
  BY <1>1, ReadNumberRegains, ReadU16Typed, ReadingCases DEF ReadU16

LEMMA DecodeOverlayRegains ==
  ASSUME NEW b \in Seq(Byte)
  PROVE  LET d == DecodeOverlay(b) IN d.err = "Ok" => Spells(Write("U16", d.v.offset) \o <<d.v.index>>, d.rest, b)
<1> DEFINE t == ReadU16(b)
           i == ReadByte(t.rest)
           p == [offset |-> t.v, index |-> i.v]
           d == DecodeOverlay(b)
<1>1. d = IF t.err # "Ok" THEN t ELSE IF i.err = "Ok" THEN Read(p, i.rest) ELSE i
  BY DEF DecodeOverlay, Then
<1> HIDE DEF d
<1> SUFFICES ASSUME d.err = "Ok" PROVE Spells(Write("U16", d.v.offset) \o <<d.v.index>>, d.rest, b)
  BY DEF d
<1>2. t.err = "Ok" /\ i.err = "Ok" /\ d = Read(p, i.rest)
  BY <1>1
<1>3. Spells(Write("U16", t.v), t.rest, b) /\ t.rest \in Seq(Byte)
  BY <1>2, ReadU16Regains
<1> HIDE DEF t
<1>4. Spells(<<i.v>>, i.rest, t.rest)
  BY <1>2, <1>3, ReadByteRegains
<1> HIDE DEF i
<1>5. Spells(Write("U16", t.v) \o <<i.v>>, i.rest, b)
  BY <1>3, <1>4, SpellsMore
<1>6. d.v = p /\ d.rest = i.rest
  <2> HIDE DEF p
  <2> QED
    BY <1>2, ReadFieldsOf
<1>7. p.offset = t.v /\ p.index = i.v
  OBVIOUS
<1> HIDE DEF p
<1> QED
  BY <1>5, <1>6, <1>7

LEMMA DecodeFieldIs ==
  ASSUME NEW f, NEW b
  PROVE  LET t == IF Len(f.kinds) > 1 THEN ReadTag(Len(f.kinds), b) ELSE Read(0, b)
             kind == f.kinds[t.v + 1]
             d == CASE kind = "none" -> Read(0, t.rest)
                    [] kind = "frame" -> ReadByte(t.rest)
                    [] OTHER -> ReadNumber(kind, t.rest)
         IN DecodeField(f, b) =
              IF t.err # "Ok" THEN t ELSE IF d.err = "Ok" THEN Read([tag |-> t.v, v |-> d.v], d.rest) ELSE d
<1> DEFINE t == IF Len(f.kinds) > 1 THEN ReadTag(Len(f.kinds), b) ELSE Read(0, b)
           of(k, rest) == CASE k = "none" -> Read(0, rest)
                            [] k = "frame" -> ReadByte(rest)
                            [] OTHER -> ReadNumber(k, rest)
<1>1. DecodeField(f, b) =
        Then(t, LAMBDA tag, rest : Then(of(f.kinds[tag + 1], rest), LAMBDA v, r : Read([tag |-> tag, v |-> v], r)))
  BY DEF DecodeField
<1> DEFINE d == of(f.kinds[t.v + 1], t.rest)
<1>2. DecodeField(f, b) =
        IF t.err # "Ok" THEN t ELSE IF d.err = "Ok" THEN Read([tag |-> t.v, v |-> d.v], d.rest) ELSE d
  <2> HIDE DEF t, of
  <2> QED
    BY <1>1 DEF Then
<1> QED
  BY <1>2, Zenon

LEMMA DecodeFieldRegains ==
  ASSUME NEW f \in PatchFields, NEW b \in Seq(Byte)
  PROVE  DecodeField(f, b).err = "Ok" => Spells(PatchWord(f, DecodeField(f, b).v), DecodeField(f, b).rest, b)
<1> DEFINE n == Len(f.kinds)
           t == IF n > 1 THEN ReadTag(n, b) ELSE Read(0, b)
           kind == f.kinds[t.v + 1]
           d == CASE kind = "none" -> Read(0, t.rest)
                  [] kind = "frame" -> ReadByte(t.rest)
                  [] OTHER -> ReadNumber(kind, t.rest)
           value == [tag |-> t.v, v |-> d.v]
           r == DecodeField(f, b)
           w == IF n > 1 THEN <<t.v>> ELSE << >>
           w2 == CASE kind = "none" -> << >>
                   [] kind = "frame" -> <<d.v>>
                   [] OTHER -> Write(kind, d.v)
<1>1. r = IF t.err # "Ok" THEN t ELSE IF d.err = "Ok" THEN Read(value, d.rest) ELSE d
  BY DecodeFieldIs, Zenon
<1> HIDE DEF r
<1> SUFFICES ASSUME r.err = "Ok" PROVE Spells(PatchWord(f, r.v), r.rest, b)
  BY DEF r
<1>2. t.err = "Ok" /\ d.err = "Ok" /\ r = Read(value, d.rest)
  BY <1>1
<1>3. r.v = value /\ r.rest = d.rest
  <2> HIDE DEF value, d, t
  <2> QED
    BY <1>2, ReadFieldsOf
<1>5. n \in Nat \ {0} /\ f.kinds \in Seq(Kinds)
  BY LenProperties, EmptySeq DEF PatchFields, KindLists
<1>6. Spells(w, t.rest, b) /\ t.v \in 0 .. n - 1 /\ t.rest \in Seq(Byte)
  <2>1. CASE n > 1
    BY <1>2, <1>5, <2>1, ReadTagRegains
  <2>2. CASE ~ (n > 1)
    <3>1. t.v = 0 /\ t.rest = b /\ w = << >>
      BY <2>2, ReadFieldsOf
    <3> QED
      BY <1>5, <3>1, SpellsNothing
  <2> QED
    BY <2>1, <2>2
<1>7. kind \in Kinds
  <2>1. t.v + 1 \in 1 .. n
    BY <1>5, <1>6
  <2> QED
    BY <1>5, <2>1, ElementOfSeq
<1>4. PatchWord(f, value) = w \o w2
  BY <1>6, PatchWordIs, Zenon
<1> HIDE DEF t, w, kind
<1>8. Spells(w2, d.rest, t.rest)
  <2>1. CASE kind = "none"
    <3>1. w2 = << >> /\ d.rest = t.rest
      BY <2>1, ReadFieldsOf
    <3> QED
      BY <1>6, <3>1, SpellsNothing
  <2>2. CASE kind = "frame"
    <3>1. d = ReadByte(t.rest) /\ w2 = <<d.v>>
      BY <2>2
    <3> QED
      BY <1>2, <1>6, <3>1, ReadByteRegains
  <2>3. CASE kind \notin {"none", "frame"}
    <3>1. kind \in Type /\ d = ReadNumber(kind, t.rest) /\ w2 = Write(kind, d.v)
      BY <1>7, <2>3 DEF Kinds
    <3> QED
      BY <1>2, <1>6, <3>1, ReadNumberRegains
  <2> QED
    BY <2>1, <2>2, <2>3
<1> HIDE DEF w2, d, value
<1> QED
  BY <1>3, <1>4, <1>6, <1>8, SpellsMore

LEMMA DecodePatchIs ==
  ASSUME NEW b
  PROVE  LET t == ReadTag(Len(PatchVariants), b)
             alts == Payload[PatchVariants[t.v + 1]]
             a == IF Len(alts) > 1 THEN ReadTag(Len(alts), t.rest) ELSE Read(0, t.rest)
             fs == alts[a.v + 1]
             d == ReadEach([k \in DOMAIN fs |-> [r \in Seq(Byte) |-> DecodeField(fs[k], r)]], a.rest)
         IN DecodePatch(b) =
              IF t.err # "Ok" THEN t ELSE IF a.err # "Ok" THEN a
              ELSE IF d.err = "Ok" THEN Read([variant |-> t.v, alt |-> a.v, vals |-> d.v], d.rest) ELSE d
<1> DEFINE t == ReadTag(Len(PatchVariants), b)
           A(variant, rest) ==
             LET xs == Payload[PatchVariants[variant + 1]] IN
             IF Len(xs) > 1 THEN ReadTag(Len(xs), rest) ELSE Read(0, rest)
           D(variant, alt, r) ==
             LET xs == Payload[PatchVariants[variant + 1]] IN
             ReadEach([k \in DOMAIN xs[alt + 1] |-> [q \in Seq(Byte) |-> DecodeField(xs[alt + 1][k], q)]], r)
           a == A(t.v, t.rest)
           d == D(t.v, a.v, a.rest)
<1>1. DecodePatch(b) =
        Then(t, LAMBDA variant, rest : Then(A(variant, rest), LAMBDA alt, r : Then(D(variant, alt, r),
          LAMBDA vals, r2 : Read([variant |-> variant, alt |-> alt, vals |-> vals], r2))))
  BY DEF DecodePatch
<1>2. DecodePatch(b) =
        IF t.err # "Ok" THEN t ELSE IF a.err # "Ok" THEN a
        ELSE IF d.err = "Ok" THEN Read([variant |-> t.v, alt |-> a.v, vals |-> d.v], d.rest) ELSE d
  <2> HIDE DEF t, A, D
  <2> QED
    BY <1>1 DEF Then
<1> QED
  BY <1>2, Zenon

LEMMA DecodePatchRegains ==
  ASSUME NEW b \in Seq(Byte)
  PROVE  DecodePatch(b).err = "Ok" => Spells(EncodePatch(DecodePatch(b).v), DecodePatch(b).rest, b)
<1> DEFINE t == ReadTag(Len(PatchVariants), b)
           alts == Payload[PatchVariants[t.v + 1]]
           a == IF Len(alts) > 1 THEN ReadTag(Len(alts), t.rest) ELSE Read(0, t.rest)
           fs == alts[a.v + 1]
           rs == [k \in DOMAIN fs |-> [r \in Seq(Byte) |-> DecodeField(fs[k], r)]]
           d == ReadEach(rs, a.rest)
           patch == [variant |-> t.v, alt |-> a.v, vals |-> d.v]
           p == DecodePatch(b)
           w == IF Len(alts) > 1 THEN <<a.v>> ELSE << >>
           w2 == [k \in DOMAIN fs |-> PatchWord(fs[k], d.v[k])]
<1>1. p = IF t.err # "Ok" THEN t ELSE IF a.err # "Ok" THEN a
          ELSE IF d.err = "Ok" THEN Read(patch, d.rest) ELSE d
  BY DecodePatchIs, Zenon
<1> HIDE DEF p
<1> SUFFICES ASSUME p.err = "Ok" PROVE Spells(EncodePatch(p.v), p.rest, b)
  BY DEF p
<1>2. t.err = "Ok" /\ a.err = "Ok" /\ d.err = "Ok" /\ p = Read(patch, d.rest)
  <2> HIDE DEF t, a, d, patch
  <2> QED
    BY <1>1
<1>3. p.v = patch /\ p.rest = d.rest
  <2> HIDE DEF patch, d
  <2> QED
    BY <1>2, ReadFieldsOf
<1>5. /\ Len(PatchVariants) \in Nat /\ Spells(<<t.v>>, t.rest, b)
      /\ t.v \in 0 .. Len(PatchVariants) - 1 /\ t.rest \in Seq(Byte)
  BY <1>2, PatchVariantsTyped, LenProperties, ReadTagRegains
<1> HIDE DEF t
<1>6. alts \in Seq(Seq(PatchFields)) /\ Len(alts) \in Nat \ {0}
  <2>1. t.v + 1 \in 1 .. Len(PatchVariants)
    BY <1>5
  <2>2. alts \in Alternatives
    BY <2>1, PatchVariantsTyped, ElementOfSeq, PayloadTyped
  <2> HIDE DEF alts
  <2> QED
    BY <2>2, LenProperties, EmptySeq DEF Alternatives
<1> HIDE DEF alts
<1>7. Spells(w, a.rest, t.rest) /\ a.v \in 0 .. Len(alts) - 1 /\ a.rest \in Seq(Byte)
  <2>1. CASE Len(alts) > 1
    BY <1>2, <1>5, <1>6, <2>1, ReadTagRegains
  <2>2. CASE ~ (Len(alts) > 1)
    <3>1. a.v = 0 /\ a.rest = t.rest /\ w = << >>
      BY <2>2, ReadFieldsOf
    <3> QED
      BY <1>5, <1>6, <3>1, SpellsNothing
  <2> QED
    BY <2>1, <2>2
<1> HIDE DEF a, w
<1>8. fs \in Seq(PatchFields)
  <2>1. a.v + 1 \in 1 .. Len(alts)
    BY <1>6, <1>7
  <2> QED
    BY <1>6, <2>1, ElementOfSeq
<1>4. EncodePatch(patch) = <<t.v>> \o w \o FlattenSeq(w2)
  <2>1. DOMAIN fs = 1 .. Len(fs) /\ t.v \in 0 .. 33
    BY <1>5, <1>8, LenProperties, PatchVariantsTyped
  <2> QED
    BY <1>7, <2>1, EncodePatchIs, Zenon DEF alts, w
<1> HIDE DEF fs, patch
<1> DEFINE n == Len(fs)
<1>9. n \in Nat /\ DOMAIN fs = 1 .. n /\ \A k \in 1 .. n : fs[k] \in PatchFields
  BY <1>8, LenProperties, ElementOfSeq
<1>10. Len(rs) = n /\ \A k \in 1 .. n : \A r \in Seq(Byte) : rs[k][r] = DecodeField(fs[k], r)
  BY <1>9, LenProperties
<1> HIDE DEF n
<1>11. Spells(FlattenSeq(w2), d.rest, a.rest)
  <2> DEFINE W == [k \in 1 .. n |-> [v \in FieldValues |-> PatchWord(fs[k], v)]]
  <2> HIDE DEF rs
  <2>1. ASSUME NEW k \in 1 .. n, NEW r \in Seq(Byte) PROVE Regains(rs[k][r], FieldValues, W[k], r)
    <3>1. rs[k][r] = DecodeField(fs[k], r) /\ fs[k] \in PatchFields
      BY <1>9, <1>10
    <3> DEFINE x == DecodeField(fs[k], r)
    <3>2. x \in Reading(FieldValues) /\ (x.err = "Ok" => Spells(PatchWord(fs[k], x.v), x.rest, r))
      BY <3>1, DecodeFieldTyped, DecodeFieldRegains
    <3>3. \A v \in FieldValues : W[k][v] = PatchWord(fs[k], v)
      OBVIOUS
    <3> HIDE DEF W, x
    <3>4. x.err = "Ok" => x.v \in FieldValues
      BY <3>2, ReadingCases
    <3> QED
      BY <3>1, <3>2, <3>3, <3>4 DEF Regains, x
  <2>2. Len(rs) \in Nat /\ \A k \in 1 .. Len(rs) : \A r \in Seq(Byte) : Regains(rs[k][r], FieldValues, W[k], r)
    BY <1>9, <1>10, <2>1
  <2>3. d \in Reading({vs \in Seq(FieldValues) : Len(vs) = Len(rs)})
    <3> HIDE DEF W
    <3>1. \A k \in 1 .. Len(rs) : \A r \in Seq(Byte) : rs[k][r] \in Reading(FieldValues)
      BY <2>2 DEF Regains
    <3> QED
      BY <1>7, <2>2, <3>1, ReadEachTyped
  <2>4. Spells(FlattenSeq([k \in 1 .. Len(rs) |-> W[k][d.v[k]]]), d.rest, a.rest)
    <3> HIDE DEF W
    <3> QED
      BY <1>2, <1>7, <2>2, ReadEachRegains
  <2> HIDE DEF d
  <2>5. \A k \in 1 .. n : W[k][d.v[k]] = PatchWord(fs[k], d.v[k])
    <3>1. d.v \in Seq(FieldValues) /\ Len(d.v) = n
      BY <1>2, <1>10, <2>3, ReadingCases
    <3>2. \A k \in 1 .. n : d.v[k] \in FieldValues
      BY <3>1, ElementOfSeq
    <3> QED
      BY <3>2
  <2>6. [k \in 1 .. Len(rs) |-> W[k][d.v[k]]] = w2
    <3> HIDE DEF W
    <3> QED
      BY <1>9, <1>10, <2>5
  <2> QED
    BY <2>4, <2>6
<1> HIDE DEF w2, d, rs
<1>12. Spells(<<t.v>> \o w, a.rest, b)
  BY <1>5, <1>7, SpellsMore
<1>13. Spells(<<t.v>> \o w \o FlattenSeq(w2), d.rest, b)
  BY <1>11, <1>12, SpellsMore
<1> QED
  BY <1>3, <1>4, <1>13

LEMMA SpellsThree ==
  ASSUME NEW x, NEW y, NEW z, NEW r, NEW q, NEW p, NEW b,
         Spells(<<x>>, r, b), Spells(<<y>>, q, r), Spells(<<z>>, p, q)
  PROVE  Spells(<<x, y, z>>, p, b)
<1>1. Spells(<<x>> \o <<y>> \o <<z>>, p, b)
  <2>1. Spells(<<x>> \o <<y>>, q, b)
    BY SpellsMore
  <2> QED
    BY <2>1, SpellsMore
<1>2. x \in Byte /\ y \in Byte /\ z \in Byte
  <2>1. ASSUME NEW v, <<v>> \in Seq(Byte) PROVE v \in Byte
    <3>1. Len(<<v>>) = 1 /\ 1 \in 1 .. 1 /\ <<v>>[1] = v
      OBVIOUS
    <3>2. <<v>>[1] \in Byte
      BY <2>1, <3>1, ElementOfSeq
    <3> QED
      BY <3>1, <3>2
  <2> QED
    BY <2>1 DEF Spells
<1>3. <<x>> \o <<y>> \o <<z>> = <<x, y, z>>
  <2>1. 1 \in 1 .. 2 /\ 2 \in 1 .. 2 /\ 2 = 1 + 1 /\ 3 = 1 + 2
    OBVIOUS
  <2>2. /\ <<x>> \in Seq(Byte) /\ <<y>> \in Seq(Byte) /\ <<z>> \in Seq(Byte)
        /\ <<x, y>> \in Seq(Byte) /\ <<x, y, z>> \in Seq(Byte)
    BY <1>2
  <2>3. <<x>> \o <<y>> = <<x, y>>
    <3> DEFINE u == <<x, y>>
    <3>1. Len(u) = 1 + 1 /\ u[1] = x /\ u[1 + 1] = y /\ Len(<<x>>) = 1 /\ Len(<<y>>) = 1 /\ <<x>>[1] = x /\ <<y>>[1] = y
      OBVIOUS
    <3>2. \A k \in 1 .. Len(<<x>>) : u[k] = <<x>>[k]
      BY <3>1
    <3>3. \A k \in 1 .. Len(<<y>>) : u[k + Len(<<x>>)] = <<y>>[k]
      BY <3>1
    <3>4. Len(u) = Len(<<x>>) + Len(<<y>>)
      BY <3>1
    <3> HIDE DEF u
    <3>5. u \in Seq(Byte)
      BY <2>2 DEF u
    <3>6. <<x>> \o <<y>> = u
      BY <2>2, <3>2, <3>3, <3>4, <3>5, JoinIs
    <3> QED
      BY <3>6 DEF u
  <2>4. <<x, y>> \o <<z>> = <<x, y, z>>
    <3> DEFINE u == <<x, y, z>>
               v == <<x, y>>
    <3>1. Len(u) = 2 + 1 /\ u[1] = x /\ u[2] = y /\ u[1 + 2] = z /\ Len(v) = 2 /\ Len(<<z>>) = 1
          /\ v[1] = x /\ v[2] = y /\ <<z>>[1] = z
      OBVIOUS
    <3> HIDE DEF u, v
    <3>2. \A k \in 1 .. Len(v) : u[k] = v[k]
      BY <3>1
    <3>3. \A k \in 1 .. Len(<<z>>) : u[k + Len(v)] = <<z>>[k]
      BY <3>1
    <3>4. Len(u) = Len(v) + Len(<<z>>)
      BY <3>1
    <3>5. u \in Seq(Byte) /\ v \in Seq(Byte)
      BY <2>2 DEF u, v
    <3>6. v \o <<z>> = u
      BY <2>2, <3>2, <3>3, <3>4, <3>5, JoinIs
    <3> QED
      BY <3>6 DEF u, v
  <2> QED
    BY <2>3, <2>4
<1> QED
  BY <1>1, <1>3

LEMMA ReadDataRegains ==
  ASSUME NEW n \in Nat, NEW b \in Seq(Byte)
  PROVE  LET d == ReadData(n, b) IN d.err = "Ok" => Spells(d.v, d.rest, b) /\ Len(d.v) = n /\ d.rest \in Seq(Byte)
<1> DEFINE d == ReadData(n, b)
<1>1. d = IF Len(b) < n THEN Stop("UnexpectedEof") ELSE Read(Leading(b, n), Behind(b, n))
  BY DEF ReadData
<1> HIDE DEF d
<1> SUFFICES ASSUME d.err = "Ok" PROVE Spells(d.v, d.rest, b) /\ Len(d.v) = n /\ d.rest \in Seq(Byte)
  BY DEF d
<1>2. ~ (Len(b) < n) /\ d = Read(Leading(b, n), Behind(b, n))
  BY <1>1 DEF Stop
<1>3. n \in 0 .. Len(b)
  BY <1>2, LenProperties
<1>4. d.v = Leading(b, n) /\ d.rest = Behind(b, n)
  BY <1>2, ReadFieldsOf
<1> QED
  BY <1>3, <1>4, SpellsLeading, LeadingProperties DEF Spells

\* The step with these parts.
StepOf(kind, start, len, data, patches, patch) ==
  [kind |-> kind, start |-> start, len |-> len, data |-> data, patches |-> patches, patch |-> patch]

LEMMA DecodeStepIs ==
  ASSUME NEW b
  PROVE  LET t == ReadTag(3, b)
             s == ReadByte(t.rest)
             l == ReadByte(s.rest)
             p == DecodePatch(l.rest)
             c == ReadU16(l.rest)
             d == IF c.err = "Ok" THEN ReadData(c.v, c.rest) ELSE c
             n == ReadU16(d.rest)
             o == IF n.err = "Ok" THEN ReadMany(DecodeOverlay, n.v, n.rest) ELSE n
             structured == IF p.err = "Ok" THEN Read(StepOf(t.v, s.v, l.v, << >>, << >>, p.v), p.rest) ELSE p
             patched == IF o.err = "Ok" THEN Read(StepOf(t.v, s.v, l.v, d.v, o.v, NoPatch), o.rest) ELSE o
             static == Read(StepOf(t.v, s.v, l.v, d.v, << >>, NoPatch), d.rest)
         IN DecodeStep(b) =
              IF t.err # "Ok" THEN t ELSE IF s.err # "Ok" THEN s ELSE IF l.err # "Ok" THEN l
              ELSE IF t.v = 2 THEN structured
              ELSE IF d.err # "Ok" THEN d ELSE IF t.v = 0 THEN static ELSE patched
<1> DEFINE t == ReadTag(3, b)
           s == ReadByte(t.rest)
           l == ReadByte(s.rest)
           D(r) == Then(ReadU16(r), ReadData)
           O(r) == ReadList(ReadU16, DecodeOverlay, r)
           p == DecodePatch(l.rest)
           d == D(l.rest)
           o == O(d.rest)
           structured == IF p.err = "Ok" THEN Read(StepOf(t.v, s.v, l.v, << >>, << >>, p.v), p.rest) ELSE p
           patched == IF o.err = "Ok" THEN Read(StepOf(t.v, s.v, l.v, d.v, o.v, NoPatch), o.rest) ELSE o
           static == Read(StepOf(t.v, s.v, l.v, d.v, << >>, NoPatch), d.rest)
           third == IF t.v = 2 THEN structured
                    ELSE IF d.err # "Ok" THEN d ELSE IF t.v = 0 THEN static ELSE patched
<1>1. DecodeStep(b) =
        Then(t, LAMBDA kind, b1 : Then(ReadByte(b1), LAMBDA start, b2 : Then(ReadByte(b2), LAMBDA len, b3 :
          IF kind = 2 THEN Then(DecodePatch(b3), LAMBDA q, r : Read(StepOf(kind, start, len, << >>, << >>, q), r))
          ELSE Then(D(b3), LAMBDA data, r :
                 IF kind = 0 THEN Read(StepOf(kind, start, len, data, << >>, NoPatch), r)
                 ELSE Then(O(r), LAMBDA ps, r2 : Read(StepOf(kind, start, len, data, ps, NoPatch), r2))))))
  BY DEF DecodeStep, StepOf
<1> DEFINE R(kind, start, len, r) ==
             IF kind = 2 THEN Then(DecodePatch(r), LAMBDA q, r2 : Read(StepOf(kind, start, len, << >>, << >>, q), r2))
             ELSE Then(D(r), LAMBDA data, r2 :
                    IF kind = 0 THEN Read(StepOf(kind, start, len, data, << >>, NoPatch), r2)
                    ELSE Then(O(r2), LAMBDA ps, r3 : Read(StepOf(kind, start, len, data, ps, NoPatch), r3)))
<1>2. DecodeStep(b) =
        Then(t, LAMBDA kind, b1 : Then(ReadByte(b1), LAMBDA start, b2 : Then(ReadByte(b2), LAMBDA len, b3 :
          R(kind, start, len, b3))))
  BY <1>1
<1>3. R(t.v, s.v, l.v, l.rest) = third
  <2> HIDE DEF t, s, l, D, O
  <2>1. CASE t.v = 2
    BY <2>1 DEF Then
  <2>2. CASE t.v # 2
    BY <2>2 DEF Then
  <2> QED
    BY <2>1, <2>2
<1>4. DecodeStep(b) = IF t.err # "Ok" THEN t ELSE IF s.err # "Ok" THEN s ELSE IF l.err # "Ok" THEN l ELSE third
  <2>1. s = ReadByte(t.rest) /\ l = ReadByte(s.rest)
    OBVIOUS
  <2> HIDE DEF t, s, l, R, third
  <2> QED
    BY <1>2, <1>3, <2>1 DEF Then
<1> DEFINE c == ReadU16(l.rest)
           n == ReadU16(d.rest)
           d2 == IF c.err = "Ok" THEN ReadData(c.v, c.rest) ELSE c
           M(k, r) == ReadMany(DecodeOverlay, k, r)
           o2 == IF n.err = "Ok" THEN M(n.v, n.rest) ELSE n
<1>5. d = d2
  <2> HIDE DEF l
  <2> QED
    BY DEF Then
<1>6. o = o2
  <2>1. \A r : O(r) = Then(ReadU16(r), LAMBDA k, q : M(k, q))
    BY DEF ReadList
  <2> HIDE DEF d, M, O
  <2> QED
    BY <2>1 DEF Then
<1>7. LET e == d2
          m == ReadU16(e.rest)
          x == IF m.err = "Ok" THEN ReadMany(DecodeOverlay, m.v, m.rest) ELSE m
      IN DecodeStep(b) =
           IF t.err # "Ok" THEN t ELSE IF s.err # "Ok" THEN s ELSE IF l.err # "Ok" THEN l
           ELSE IF t.v = 2 THEN structured
           ELSE IF e.err # "Ok" THEN e
           ELSE IF t.v = 0 THEN Read(StepOf(t.v, s.v, l.v, e.v, << >>, NoPatch), e.rest)
           ELSE IF x.err = "Ok" THEN Read(StepOf(t.v, s.v, l.v, e.v, x.v, NoPatch), x.rest) ELSE x
  <2> HIDE DEF t, s, l, d, o, d2, p
  <2> QED
    BY <1>4, <1>5, <1>6
<1> QED
  BY <1>7, Zenon

\* What each overlay of a raw patched step is written as.
OverlayWords(ps) == [k \in DOMAIN ps |-> Write("U16", ps[k].offset) \o <<ps[k].index>>]

LEMMA ReadOverlaysRegains ==
  ASSUME NEW n \in Nat, NEW b \in Seq(Byte)
  PROVE  LET d == ReadMany(DecodeOverlay, n, b) IN
         d.err = "Ok" => Len(d.v) = n /\ Spells(FlattenSeq(OverlayWords(d.v)), d.rest, b)
<1> DEFINE reader == [r \in Seq(Byte) |-> DecodeOverlay(r)]
           W == [p \in Overlays |-> Write("U16", p.offset) \o <<p.index>>]
           d == ReadMany(DecodeOverlay, n, b)
<1>1. d = ReadEach([k \in 1 .. n |-> reader], b)
  BY DEF ReadMany, Reader
<1>2. ASSUME NEW r \in Seq(Byte) PROVE Regains(reader[r], Overlays, W, r)
  <2> DEFINE x == DecodeOverlay(r)
  <2>1. reader[r] = x
    OBVIOUS
  <2>2. x \in Reading(Overlays)
    BY DecodeOverlayTyped
  <2>3. x.err = "Ok" => Spells(Write("U16", x.v.offset) \o <<x.v.index>>, x.rest, r)
    BY DecodeOverlayRegains
  <2> HIDE DEF x
  <2>4. x.err = "Ok" => W[x.v] = Write("U16", x.v.offset) \o <<x.v.index>>
    BY <2>2, ReadingCases
  <2> HIDE DEF W, reader
  <2> QED
    BY <2>1, <2>2, <2>3, <2>4 DEF Regains
<1>3. \A p \in Overlays : W[p] = Write("U16", p.offset) \o <<p.index>>
  OBVIOUS
<1> HIDE DEF reader, d, W
<1>4. d.err = "Ok" => /\ d.v \in Seq(Overlays) /\ Len(d.v) = n
                      /\ Spells(FlattenSeq([k \in DOMAIN d.v |-> W[d.v[k]]]), d.rest, b)
  <2> DEFINE e == ReadEach([k \in 1 .. n |-> reader], b)
  <2>1. ListRegained(e, Overlays, W, n, b)
    <3>1. Regainer(reader, Overlays, W)
      BY <1>2 DEF Regainer
    <3> QED
      BY <3>1, ReadManyRegains
  <2> HIDE DEF e
  <2>2. e = d
    BY <1>1 DEF e
  <2> QED
    BY <2>1, <2>2 DEF ListRegained
<1>5. d.v \in Seq(Overlays) => [k \in DOMAIN d.v |-> W[d.v[k]]] = OverlayWords(d.v)
  <2> SUFFICES ASSUME d.v \in Seq(Overlays) PROVE [k \in DOMAIN d.v |-> W[d.v[k]]] = OverlayWords(d.v)
    OBVIOUS
  <2>1. \A k \in DOMAIN d.v : d.v[k] \in Overlays
    BY LenProperties, ElementOfSeq
  <2> QED
    BY <1>3, <2>1 DEF OverlayWords
<1> QED
  BY <1>4, <1>5 DEF d

\* What a step is written as, behind its kind and accounts.
StepTail(kind, data, patches, patch) ==
  IF kind = 2 THEN EncodePatch(patch)
  ELSE Write("U16", Len(data)) \o data
         \o IF kind = 0 THEN << >> ELSE Write("U16", Len(patches)) \o FlattenSeq(OverlayWords(patches))

LEMMA EncodeStepIs ==
  ASSUME NEW kind \in 0 .. 2, NEW start, NEW len, NEW data, NEW patches, NEW patch
  PROVE  EncodeStep(StepOf(kind, start, len, data, patches, patch))
           = <<kind, start, len>> \o StepTail(kind, data, patches, patch)
<1> DEFINE key == CpiKinds[kind + 1]
<1>1. SdkCpiWire[key] = kind /\ (key = "structured") = (kind = 2) /\ (key = "static") = (kind = 0)
  <2>1. kind = 0 \/ kind = 1 \/ kind = 2
    OBVIOUS
  <2> QED
    BY <2>1 DEF SdkCpiWire, CpiKinds
<1>2. EncodeStep(StepOf(kind, start, len, data, patches, patch))
        = <<SdkCpiWire[key], start, len>>
            \o IF key = "structured" THEN EncodePatch(patch)
               ELSE Write("U16", Len(data)) \o data
                      \o IF key = "static" THEN << >> ELSE Write("U16", Len(patches)) \o FlattenSeq(OverlayWords(patches))
  BY DEF EncodeStep, StepOf, WriteEach, OverlayWords
<1> HIDE DEF key
<1> QED
  BY <1>1, <1>2 DEF StepTail

LEMMA DecodeStepRegains ==
  ASSUME NEW b \in Seq(Byte)
  PROVE  DecodeStep(b).err = "Ok" => Spells(EncodeStep(DecodeStep(b).v), DecodeStep(b).rest, b)
<1> DEFINE t == ReadTag(3, b)
           s == ReadByte(t.rest)
           l == ReadByte(s.rest)
           p == DecodePatch(l.rest)
           c == ReadU16(l.rest)
           d == IF c.err = "Ok" THEN ReadData(c.v, c.rest) ELSE c
           n == ReadU16(d.rest)
           o == IF n.err = "Ok" THEN ReadMany(DecodeOverlay, n.v, n.rest) ELSE n
           structured == IF p.err = "Ok" THEN Read(StepOf(t.v, s.v, l.v, << >>, << >>, p.v), p.rest) ELSE p
           patched == IF o.err = "Ok" THEN Read(StepOf(t.v, s.v, l.v, d.v, o.v, NoPatch), o.rest) ELSE o
           static == Read(StepOf(t.v, s.v, l.v, d.v, << >>, NoPatch), d.rest)
           r == DecodeStep(b)
<1>1. r = IF t.err # "Ok" THEN t ELSE IF s.err # "Ok" THEN s ELSE IF l.err # "Ok" THEN l
          ELSE IF t.v = 2 THEN structured
          ELSE IF d.err # "Ok" THEN d ELSE IF t.v = 0 THEN static ELSE patched
  BY DecodeStepIs, Zenon
<1> HIDE DEF r
<1> SUFFICES ASSUME r.err = "Ok" PROVE Spells(EncodeStep(r.v), r.rest, b)
  BY DEF r
<1>2. /\ t.err = "Ok" /\ s.err = "Ok" /\ l.err = "Ok"
      /\ r = IF t.v = 2 THEN structured ELSE IF d.err # "Ok" THEN d ELSE IF t.v = 0 THEN static ELSE patched
  <2> HIDE DEF t, s, l, structured, patched, static, d
  <2> QED
    BY <1>1
<1> DEFINE head == <<t.v, s.v, l.v>>
<1>3. Spells(head, l.rest, b) /\ l.rest \in Seq(Byte) /\ t.v \in 0 .. 2
  <2>1. 3 \in Nat
    OBVIOUS
  <2>2. Spells(<<t.v>>, t.rest, b) /\ t.rest \in Seq(Byte) /\ t.v \in 0 .. 3 - 1
    BY <1>2, <2>1, ReadTagRegains
  <2> HIDE DEF t
  <2>3. Spells(<<s.v>>, s.rest, t.rest) /\ s.rest \in Seq(Byte)
    BY <1>2, <2>2, ReadByteRegains DEF Spells
  <2> HIDE DEF s
  <2>4. Spells(<<l.v>>, l.rest, s.rest) /\ l.rest \in Seq(Byte)
    BY <1>2, <2>3, ReadByteRegains DEF Spells
  <2> HIDE DEF l
  <2> QED
    BY <2>2, <2>3, <2>4, SpellsThree
<1> HIDE DEF t, s, l
<1>4. CASE t.v = 2
  <2>1. p.err = "Ok" /\ r = Read(StepOf(t.v, s.v, l.v, << >>, << >>, p.v), p.rest)
    BY <1>2, <1>4
  <2>2. r.v = StepOf(t.v, s.v, l.v, << >>, << >>, p.v) /\ r.rest = p.rest
    BY <2>1, ReadFieldsOf
  <2>3. EncodeStep(r.v) = head \o EncodePatch(p.v)
    <3>1. EncodeStep(StepOf(2, s.v, l.v, << >>, << >>, p.v)) = <<2, s.v, l.v>> \o EncodePatch(p.v)
      <4>1. EncodeStep(StepOf(2, s.v, l.v, << >>, << >>, p.v)) = <<2, s.v, l.v>> \o StepTail(2, << >>, << >>, p.v)
        BY EncodeStepIs
      <4> HIDE DEF p
      <4> QED
        BY <4>1 DEF StepTail
    <3> HIDE DEF p
    <3> QED
      BY <1>4, <2>2, <3>1
  <2>4. Spells(EncodePatch(p.v), p.rest, l.rest)
    BY <1>3, <2>1, DecodePatchRegains
  <2> HIDE DEF p, head
  <2>5. Spells(head \o EncodePatch(p.v), p.rest, b)
    BY <1>3, <2>4, SpellsMore
  <2> QED
    BY <2>2, <2>3, <2>5
<1>5. CASE t.v # 2
  <2>1. d.err = "Ok" /\ r = IF t.v = 0 THEN static ELSE patched
    <3> HIDE DEF d, static, patched
    <3> QED
      BY <1>2, <1>5
  <2> DEFINE front == Write("U16", Len(d.v)) \o d.v
  <2>2. Spells(front, d.rest, l.rest) /\ d.rest \in Seq(Byte)
    <3>1. c.err = "Ok" /\ d = ReadData(c.v, c.rest)
      BY <2>1
    <3>2. Spells(Write("U16", c.v), c.rest, l.rest) /\ c.rest \in Seq(Byte) /\ c.v \in Nat
      BY <1>3, <3>1, ReadU16Regains, ReadU16Typed, ReadingCases
    <3> HIDE DEF c, d
    <3>3. Spells(d.v, d.rest, c.rest) /\ Len(d.v) = c.v /\ d.rest \in Seq(Byte)
      BY <2>1, <3>1, <3>2, ReadDataRegains
    <3> QED
      BY <3>2, <3>3, SpellsMore
  <2> HIDE DEF d
  <2>3. CASE t.v = 0
    <3>1. r.v = StepOf(t.v, s.v, l.v, d.v, << >>, NoPatch) /\ r.rest = d.rest
      BY <2>1, <2>3, ReadFieldsOf
    <3>2. EncodeStep(r.v) = head \o (front \o << >>)
      <4>1. EncodeStep(StepOf(0, s.v, l.v, d.v, << >>, NoPatch)) = <<0, s.v, l.v>> \o (front \o << >>)
        <5>1. EncodeStep(StepOf(0, s.v, l.v, d.v, << >>, NoPatch)) = <<0, s.v, l.v>> \o StepTail(0, d.v, << >>, NoPatch)
          BY EncodeStepIs
        <5>2. \A v : StepTail(0, v, << >>, NoPatch) = Write("U16", Len(v)) \o v \o << >>
          BY DEF StepTail
        <5>3. StepTail(0, d.v, << >>, NoPatch) = front \o << >>
          BY <5>2
        <5> HIDE DEF front
        <5> QED
          BY <5>1, <5>3
      <4> HIDE DEF front
      <4> QED
        BY <2>3, <3>1, <4>1
    <3> HIDE DEF front, head
    <3>3. Spells(<< >>, d.rest, d.rest)
      BY <2>2, SpellsNothing
    <3>4. Spells(front \o << >>, d.rest, l.rest)
      BY <2>2, <3>3, SpellsMore
    <3>5. Spells(head \o (front \o << >>), d.rest, b)
      BY <1>3, <3>4, SpellsMore
    <3> QED
      BY <3>1, <3>2, <3>5
  <2>4. CASE t.v # 0
    <3>1. o.err = "Ok" /\ r = Read(StepOf(t.v, s.v, l.v, d.v, o.v, NoPatch), o.rest)
      <4>1. r = patched /\ r.err = "Ok"
        BY <2>1, <2>4
      <4> HIDE DEF o
      <4> QED
        BY <4>1
    <3>2. n.err = "Ok" /\ o = ReadMany(DecodeOverlay, n.v, n.rest)
      BY <3>1
    <3> DEFINE back == Write("U16", Len(o.v)) \o FlattenSeq(OverlayWords(o.v))
    <3>3. Spells(Write("U16", n.v), n.rest, d.rest) /\ n.rest \in Seq(Byte) /\ n.v \in Nat
      BY <2>2, <3>2, ReadU16Regains, ReadU16Typed, ReadingCases
    <3> HIDE DEF n, o
    <3>4. Len(o.v) = n.v /\ Spells(FlattenSeq(OverlayWords(o.v)), o.rest, n.rest)
      BY <3>1, <3>2, <3>3, ReadOverlaysRegains
    <3>5. Spells(back, o.rest, d.rest)
      BY <3>3, <3>4, SpellsMore
    <3>6. r.v = StepOf(t.v, s.v, l.v, d.v, o.v, NoPatch) /\ r.rest = o.rest
      BY <3>1, ReadFieldsOf
    <3>7. EncodeStep(r.v) = head \o (front \o back)
      <4>1. EncodeStep(StepOf(t.v, s.v, l.v, d.v, o.v, NoPatch)) =
              head \o StepTail(t.v, d.v, o.v, NoPatch)
        <5> DEFINE k == t.v
        <5>1. k \in 0 .. 2
          BY <1>3
        <5> HIDE DEF d, o, k
        <5>2. EncodeStep(StepOf(k, s.v, l.v, d.v, o.v, NoPatch)) = <<k, s.v, l.v>> \o StepTail(k, d.v, o.v, NoPatch)
          <6>1. ASSUME NEW x, NEW y, NEW u, NEW v
                PROVE  EncodeStep(StepOf(k, x, y, u, v, NoPatch)) = <<k, x, y>> \o StepTail(k, u, v, NoPatch)
            BY <5>1, EncodeStepIs
          <6> QED
            BY <6>1
        <5> QED
          BY <5>2, Zenon DEF k
      <4> HIDE DEF head
      <4>2. EncodeStep(StepOf(t.v, s.v, l.v, d.v, o.v, NoPatch)) = head \o (front \o back)
        BY <1>5, <2>4, <4>1 DEF StepTail
      <4> QED
        BY <3>6, <4>2
    <3> HIDE DEF front, back, head
    <3>8. Spells(front \o back, o.rest, l.rest)
      BY <2>2, <3>5, SpellsMore
    <3>9. Spells(head \o (front \o back), o.rest, b)
      BY <1>3, <3>8, SpellsMore
    <3> QED
      BY <3>6, <3>7, <3>9
  <2> QED
    BY <2>3, <2>4
<1> QED
  BY <1>4, <1>5

-----------------------------------------------------------------------------
(* Arms and instructions.                                                  *)

\* What the elements of a list are written as.
StepWords(steps) == [k \in DOMAIN steps |-> EncodeStep(steps[k])]
ArmWords(arms) == [k \in DOMAIN arms |-> EncodeArm(arms[k])]
BindingWords(bs) == [k \in DOMAIN bs |-> EncodeBinding(bs[k])]
ExprWords(es) == [k \in DOMAIN es |-> EncodeExpr(es[k])]

LEMMA ReadStepsRegains ==
  ASSUME NEW n \in Nat, NEW b \in Seq(Byte)
  PROVE  LET d == ReadMany(DecodeStep, n, b) IN
         d.err = "Ok" => Len(d.v) = n /\ Spells(FlattenSeq(StepWords(d.v)), d.rest, b)
<1> DEFINE reader == [r \in Seq(Byte) |-> DecodeStep(r)]
           W == [s \in Steps |-> EncodeStep(s)]
           d == ReadMany(DecodeStep, n, b)
<1>1. d = ReadEach([k \in 1 .. n |-> reader], b)
  BY DEF ReadMany, Reader
<1>2. \A s \in Steps : W[s] = EncodeStep(s)
  OBVIOUS
<1>3. Regainer(reader, Steps, W)
  <2> SUFFICES ASSUME NEW r \in Seq(Byte) PROVE Regains(reader[r], Steps, W, r)
    BY DEF Regainer
  <2> DEFINE x == DecodeStep(r)
  <2>1. reader[r] = x
    OBVIOUS
  <2>2. x \in Reading(Steps) /\ (x.err = "Ok" => Spells(EncodeStep(x.v), x.rest, r))
    BY DecodeStepTyped, DecodeStepRegains
  <2> HIDE DEF x, W, reader
  <2>3. x.err = "Ok" => W[x.v] = EncodeStep(x.v)
    BY <1>2, <2>2, ReadingCases
  <2> QED
    BY <2>1, <2>2, <2>3 DEF Regains
<1> HIDE DEF reader, d, W
<1>4. ListRegained(d, Steps, W, n, b)
  BY <1>1, <1>3, ReadManyRegains
<1>5. ASSUME d.v \in Seq(Steps) PROVE [k \in DOMAIN d.v |-> W[d.v[k]]] = StepWords(d.v)
  <2>1. \A k \in DOMAIN d.v : d.v[k] \in Steps
    BY <1>5, LenProperties, ElementOfSeq
  <2> QED
    BY <1>2, <2>1 DEF StepWords
<1> QED
  BY <1>4, <1>5 DEF d, ListRegained

LEMMA DecodeArmIs ==
  ASSUME NEW b
  PROVE  LET t == ReadByte(b)
             d == ReadMany(DecodeStep, t.v, t.rest)
         IN DecodeArm(b) =
              IF t.err # "Ok" THEN t
              ELSE IF ArmKind(t.v) # "cpi" THEN Read([kind |-> ArmKind(t.v), steps |-> << >>], t.rest)
              ELSE IF d.err = "Ok" THEN Read([kind |-> "cpi", steps |-> d.v], d.rest) ELSE d
<1> DEFINE t == ReadByte(b)
           M(k, r) == ReadMany(DecodeStep, k, r)
           d == M(t.v, t.rest)
<1>1. DecodeArm(b) =
        Then(t, LAMBDA tag, rest :
          IF ArmKind(tag) # "cpi" THEN Read([kind |-> ArmKind(tag), steps |-> << >>], rest)
          ELSE Then(M(tag, rest), LAMBDA steps, r : Read([kind |-> "cpi", steps |-> steps], r)))
  BY DEF DecodeArm
<1>2. DecodeArm(b) =
        IF t.err # "Ok" THEN t
        ELSE IF ArmKind(t.v) # "cpi" THEN Read([kind |-> ArmKind(t.v), steps |-> << >>], t.rest)
        ELSE IF d.err = "Ok" THEN Read([kind |-> "cpi", steps |-> d.v], d.rest) ELSE d
  <2> HIDE DEF t, M
  <2> QED
    BY <1>1 DEF Then
<1> QED
  BY <1>2, Zenon

LEMMA DecodeArmRegains ==
  ASSUME NEW b \in Seq(Byte)
  PROVE  DecodeArm(b).err = "Ok" => Spells(EncodeArm(DecodeArm(b).v), DecodeArm(b).rest, b)
<1> DEFINE t == ReadByte(b)
           d == ReadMany(DecodeStep, t.v, t.rest)
           r == DecodeArm(b)
           empty == [kind |-> ArmKind(t.v), steps |-> << >>]
           full == [kind |-> "cpi", steps |-> d.v]
<1>1. r = IF t.err # "Ok" THEN t
          ELSE IF ArmKind(t.v) # "cpi" THEN Read(empty, t.rest)
          ELSE IF d.err = "Ok" THEN Read(full, d.rest) ELSE d
  BY DecodeArmIs, Zenon
<1> HIDE DEF r
<1> SUFFICES ASSUME r.err = "Ok" PROVE Spells(EncodeArm(r.v), r.rest, b)
  BY DEF r
<1>2. t.err = "Ok"
  BY <1>1
<1>3. Spells(<<t.v>>, t.rest, b) /\ t.rest \in Seq(Byte) /\ t.v \in Nat
  BY <1>2, ReadByteRegains, ReadByteTyped, ReadingCases, ByteIsNat
<1> HIDE DEF t
<1>4. CASE ArmKind(t.v) # "cpi"
  <2>1. r = Read(empty, t.rest)
    BY <1>1, <1>2, <1>4
  <2>2. EncodeArm(empty) = <<t.v>>
    BY <1>4 DEF EncodeArm, ArmKind, SdkArm, RevertTag
  <2> HIDE DEF empty
  <2>3. r.v = empty /\ r.rest = t.rest
    BY <2>1, ReadFieldsOf
  <2> QED
    BY <1>3, <2>2, <2>3
<1>5. CASE ArmKind(t.v) = "cpi"
  <2> DEFINE w == FlattenSeq(StepWords(d.v))
  <2>1. d.err = "Ok" /\ r = Read(full, d.rest)
    BY <1>1, <1>2, <1>5
  <2>2. Len(d.v) = t.v /\ Spells(w, d.rest, t.rest)
    BY <1>3, <2>1, ReadStepsRegains
  <2> HIDE DEF d
  <2>3. EncodeArm(full) = <<Len(d.v)>> \o w
    BY DEF EncodeArm, WriteEach, StepWords
  <2> HIDE DEF full, w
  <2>4. r.v = full /\ r.rest = d.rest
    BY <2>1, ReadFieldsOf
  <2>5. Spells(<<t.v>> \o w, d.rest, b)
    BY <1>3, <2>2, SpellsMore
  <2> QED
    BY <2>2, <2>3, <2>4, <2>5
<1> QED
  BY <1>4, <1>5

LEMMA ReadArmsRegains ==
  ASSUME NEW n \in Nat, NEW b \in Seq(Byte)
  PROVE  LET d == ReadMany(DecodeArm, n, b) IN
         d.err = "Ok" => Spells(FlattenSeq(ArmWords(d.v)), d.rest, b)
<1> DEFINE reader == [r \in Seq(Byte) |-> DecodeArm(r)]
           W == [a \in Arms |-> EncodeArm(a)]
           d == ReadMany(DecodeArm, n, b)
<1>1. d = ReadEach([k \in 1 .. n |-> reader], b)
  BY DEF ReadMany, Reader
<1>2. \A a \in Arms : W[a] = EncodeArm(a)
  OBVIOUS
<1>3. Regainer(reader, Arms, W)
  <2> SUFFICES ASSUME NEW r \in Seq(Byte) PROVE Regains(reader[r], Arms, W, r)
    BY DEF Regainer
  <2> DEFINE x == DecodeArm(r)
  <2>1. reader[r] = x
    OBVIOUS
  <2>2. x \in Reading(Arms) /\ (x.err = "Ok" => Spells(EncodeArm(x.v), x.rest, r))
    BY DecodeArmTyped, DecodeArmRegains
  <2> HIDE DEF x, W, reader
  <2>3. x.err = "Ok" => W[x.v] = EncodeArm(x.v)
    BY <1>2, <2>2, ReadingCases
  <2> QED
    BY <2>1, <2>2, <2>3 DEF Regains
<1> HIDE DEF reader, d, W
<1>4. ListRegained(d, Arms, W, n, b)
  BY <1>1, <1>3, ReadManyRegains
<1>5. ASSUME d.v \in Seq(Arms) PROVE [k \in DOMAIN d.v |-> W[d.v[k]]] = ArmWords(d.v)
  <2>1. \A k \in DOMAIN d.v : d.v[k] \in Arms
    BY <1>5, LenProperties, ElementOfSeq
  <2> QED
    BY <1>2, <2>1 DEF ArmWords
<1> QED
  BY <1>4, <1>5 DEF d, ListRegained

\* A list behind its count.
LEMMA CountedRegains ==
  ASSUME NEW S, NEW reader, NEW W, NEW b \in Seq(Byte), NEW d, Regainer(reader, S, W),
         d = IF ReadByte(b).err = "Ok"
             THEN ReadEach([k \in 1 .. ReadByte(b).v |-> reader], ReadByte(b).rest) ELSE ReadByte(b)
  PROVE  d.err = "Ok" => /\ d.v \in Seq(S)
                         /\ Spells(<<Len(d.v)>> \o FlattenSeq([k \in DOMAIN d.v |-> W[d.v[k]]]), d.rest, b)
<1> DEFINE c == ReadByte(b)
           many == ReadEach([k \in 1 .. c.v |-> reader], c.rest)
<1>1. d = IF c.err = "Ok" THEN many ELSE c
  OBVIOUS
<1> SUFFICES ASSUME d.err = "Ok"
             PROVE  /\ d.v \in Seq(S)
                    /\ Spells(<<Len(d.v)>> \o FlattenSeq([k \in DOMAIN d.v |-> W[d.v[k]]]), d.rest, b)
  OBVIOUS
<1>2. c.err = "Ok" /\ d = many
  <2> HIDE DEF c, many
  <2> QED
    BY <1>1
<1>3. Spells(<<c.v>>, c.rest, b) /\ c.rest \in Seq(Byte) /\ c.v \in Nat
  BY <1>2, ReadByteRegains, ReadByteTyped, ReadingCases, ByteIsNat
<1> HIDE DEF c
<1>4. ListRegained(many, S, W, c.v, c.rest)
  BY <1>3, ReadManyRegains
<1> HIDE DEF many
<1> DEFINE w == FlattenSeq([k \in DOMAIN d.v |-> W[d.v[k]]])
<1>5. d.v \in Seq(S) /\ Len(d.v) = c.v /\ Spells(w, d.rest, c.rest)
  BY <1>2, <1>4 DEF ListRegained
<1> HIDE DEF w
<1>6. Spells(<<c.v>> \o w, d.rest, b)
  BY <1>3, <1>5, SpellsMore
<1> QED
  BY <1>5, <1>6 DEF w

LEMMA InstructionTags ==
  ASSUME NEW t \in 0 .. 7
  PROVE  SdkDiscriminators[Instructions[t + 1]] = t
<1>1. t = 0 \/ t = 1 \/ t = 2 \/ t = 3 \/ t = 4 \/ t = 5 \/ t = 6 \/ t = 7
  OBVIOUS
<1> QED
  BY <1>1 DEF Instructions, SdkDiscriminators

\* What the reader does behind the tag of an instruction, and the writer.
DecodeBody(ix, rest) ==
  CASE ix = "create_frame" -> Then(ReadFields(CreateArgs, rest),
                                   LAMBDA args, r : Read([Statement(ix, << >>, << >>, << >>) EXCEPT !.args = args], r))
    [] ix = "let" -> Then(ReadList(ReadByte, DecodeBinding, rest),
                          LAMBDA bs, r : Read(Statement(ix, << >>, bs, << >>), r))
    [] ix = "assert" -> Then(DecodeExpr(rest), LAMBDA e, r : Read(Statement(ix, <<e>>, << >>, << >>), r))
    [] ix = "assert_multi" -> Then(ReadList(ReadByte, DecodeExpr, rest),
                                   LAMBDA es, r : Read(Statement(ix, es, << >>, << >>), r))
    [] ix = "patched_cpi" -> Then(DecodeStep(rest),
                                  LAMBDA s, r : Read(Statement(ix, << >>, << >>, OneStep(s)), r))
    [] ix = "if_else" -> Then(DecodeExpr(rest), LAMBDA e, r :
                           Then(ReadMany(DecodeArm, 2, r),
                                LAMBDA arms, r2 : Read(Statement(ix, <<e>>, << >>, arms), r2)))
    [] OTHER -> Read(Statement(ix, << >>, << >>, << >>), rest)

EncodeBody(s) ==
  CASE s.ix = "create_frame" -> FlattenSeq(FieldWords(CreateArgs, s.args))
    [] s.ix = "let" -> <<Len(s.bindings)>> \o FlattenSeq(BindingWords(s.bindings))
    [] s.ix = "assert" -> EncodeExpr(s.conds[1])
    [] s.ix = "assert_multi" -> <<Len(s.conds)>> \o FlattenSeq(ExprWords(s.conds))
    [] s.ix = "patched_cpi" -> EncodeStep(s.arms[1].steps[1])
    [] s.ix = "if_else" -> EncodeExpr(s.conds[1]) \o FlattenSeq(ArmWords(s.arms))
    [] OTHER -> << >>

LEMMA DecodeIs ==
  ASSUME NEW b
  PROVE  LET t == ReadTag(Len(Instructions), b) IN
         Decode(b) = IF t.err = "Ok" THEN DecodeBody(Instructions[t.v + 1], t.rest) ELSE t
<1> DEFINE t == ReadTag(Len(Instructions), b)
<1>1. Decode(b) = Then(t, LAMBDA disc, rest : DecodeBody(Instructions[disc + 1], rest))
  BY DEF Decode, DecodeBody
<1> HIDE DEF t
<1>2. Decode(b) = IF t.err = "Ok" THEN DecodeBody(Instructions[t.v + 1], t.rest) ELSE t
  BY <1>1 DEF Then
<1> QED
  BY <1>2 DEF t

LEMMA CreateArgsWords ==
  \A args : FieldWords(CreateArgs, args) = [k \in DOMAIN SdkCreateArgs |-> Write(SdkCreateArgs[k], args[k])]
<1>1. \A k \in DOMAIN CreateArgs : CreateArgs[k] # "ValueType"
  <2>1. DOMAIN CreateArgs = 1 .. 3 /\ \A k \in 1 .. 3 : k = 1 \/ k = 2 \/ k = 3
    BY DEF CreateArgs
  <2> QED
    BY <2>1 DEF CreateArgs
<1> QED
  <2>1. SdkCreateArgs = CreateArgs
    BY DEF SdkCreateArgs, CreateArgs
  <2> QED
    BY <1>1, <2>1 DEF FieldWords, EncodeArg

LEMMA EncodeIs ==
  ASSUME NEW s
  PROVE  Encode(s) = <<SdkDiscriminators[s.ix]>> \o EncodeBody(s)
BY CreateArgsWords DEF Encode, EncodeBody, WriteEach, BindingWords, ExprWords, ArmWords

\* An answer r for b behind the tag of ix, and the statement it has.
Restored(r, ix, b) == r.err = "Ok" => r.v.ix = ix /\ Spells(EncodeBody(r.v), r.rest, b)

LEMMA RestoredBy ==
  ASSUME NEW r, NEW ix, NEW b, NEW s, NEW rest, NEW w, r = Read(s, rest), s.ix = ix, EncodeBody(s) = w, Spells(w, rest, b)
  PROVE  Restored(r, ix, b)
BY ReadFieldsOf DEF Restored

LEMMA CreateRegains ==
  ASSUME NEW b \in Seq(Byte)
  PROVE  Restored(DecodeBody("create_frame", b), "create_frame", b)
<1> DEFINE d == ReadFields(CreateArgs, b)
           s(args) == [Statement("create_frame", << >>, << >>, << >>) EXCEPT !.args = args]
           r == DecodeBody("create_frame", b)
           w == FlattenSeq(FieldWords(CreateArgs, d.v))
<1>1. r = IF d.err = "Ok" THEN Read(s(d.v), d.rest) ELSE d
  BY DEF DecodeBody, Then
<1>2. d.err = "Ok" => Spells(w, d.rest, b)
  BY CreateArgsTyped, ReadFieldsRegains
<1> HIDE DEF d
<1>3. s(d.v).ix = "create_frame" /\ s(d.v).args = d.v
  BY DEF Statement
<1> HIDE DEF s
<1>4. EncodeBody(s(d.v)) = w
  BY <1>3 DEF EncodeBody
<1> HIDE DEF r, w
<1>5. CASE d.err = "Ok"
  BY <1>1, <1>2, <1>3, <1>4, <1>5, RestoredBy DEF r
<1>6. CASE d.err # "Ok"
  BY <1>1, <1>6 DEF Restored, r
<1> QED
  BY <1>5, <1>6

LEMMA LetRegains ==
  ASSUME NEW b \in Seq(Byte)
  PROVE  Restored(DecodeBody("let", b), "let", b)
<1> DEFINE d == ReadList(ReadByte, DecodeBinding, b)
           s(bs) == Statement("let", << >>, bs, << >>)
           r == DecodeBody("let", b)
           reader == [q \in Seq(Byte) |-> DecodeBinding(q)]
           W == [x \in WireBindings |-> EncodeBinding(x)]
           w == <<Len(d.v)>> \o FlattenSeq(BindingWords(d.v))
<1>1. r = IF d.err = "Ok" THEN Read(s(d.v), d.rest) ELSE d
  <2> HIDE DEF d
  <2>1. r = Then(d, LAMBDA bs, q : Read(s(bs), q))
    BY DEF d, DecodeBody
  <2> QED
    BY <2>1 DEF Then
<1>2. d = IF ReadByte(b).err = "Ok"
          THEN ReadEach([k \in 1 .. ReadByte(b).v |-> reader], ReadByte(b).rest) ELSE ReadByte(b)
  BY DEF ReadList, ReadMany, Reader, Then
<1>3. \A x \in WireBindings : W[x] = EncodeBinding(x)
  OBVIOUS
<1>4. Regainer(reader, WireBindings, W)
  <2> SUFFICES ASSUME NEW q \in Seq(Byte) PROVE Regains(reader[q], WireBindings, W, q)
    BY DEF Regainer
  <2> DEFINE x == DecodeBinding(q)
  <2>1. reader[q] = x
    OBVIOUS
  <2>2. x \in Reading(WireBindings) /\ (x.err = "Ok" => Spells(EncodeBinding(x.v), x.rest, q))
    BY DecodeBindingTyped, DecodeBindingRegains
  <2> HIDE DEF x, W, reader
  <2>3. x.err = "Ok" => W[x.v] = EncodeBinding(x.v)
    BY <1>3, <2>2, ReadingCases
  <2> QED
    BY <2>1, <2>2, <2>3 DEF Regains
<1> HIDE DEF d, reader, W
<1>5. d.err = "Ok" => /\ d.v \in Seq(WireBindings)
                      /\ Spells(<<Len(d.v)>> \o FlattenSeq([k \in DOMAIN d.v |-> W[d.v[k]]]), d.rest, b)
  BY <1>2, <1>4, CountedRegains
<1>6. d.err = "Ok" => Spells(w, d.rest, b)
  <2>1. ASSUME d.v \in Seq(WireBindings) PROVE [k \in DOMAIN d.v |-> W[d.v[k]]] = BindingWords(d.v)
    <3>1. \A k \in DOMAIN d.v : d.v[k] \in WireBindings
      BY <2>1, LenProperties, ElementOfSeq
    <3> QED
      BY <1>3, <3>1 DEF BindingWords
  <2> QED
    BY <1>5, <2>1
<1>7. s(d.v).ix = "let" /\ s(d.v).bindings = d.v
  BY DEF Statement
<1> HIDE DEF s
<1>8. EncodeBody(s(d.v)) = w
  BY <1>7 DEF EncodeBody
<1> HIDE DEF r, w
<1>9. CASE d.err = "Ok"
  BY <1>1, <1>6, <1>7, <1>8, <1>9, RestoredBy DEF r
<1>10. CASE d.err # "Ok"
  BY <1>1, <1>10 DEF Restored, r
<1> QED
  BY <1>9, <1>10

LEMMA MultiRegains ==
  ASSUME NEW b \in Seq(Byte)
  PROVE  Restored(DecodeBody("assert_multi", b), "assert_multi", b)
<1> DEFINE d == ReadList(ReadByte, DecodeExpr, b)
           s(es) == Statement("assert_multi", es, << >>, << >>)
           r == DecodeBody("assert_multi", b)
           reader == [q \in Seq(Byte) |-> DecodeExpr(q)]
           W == [x \in Terms_(1) |-> EncodeExpr(x)]
           w == <<Len(d.v)>> \o FlattenSeq(ExprWords(d.v))
<1>1. r = IF d.err = "Ok" THEN Read(s(d.v), d.rest) ELSE d
  <2> HIDE DEF d
  <2>1. r = Then(d, LAMBDA es, q : Read(s(es), q))
    BY DEF d, DecodeBody
  <2> QED
    BY <2>1 DEF Then
<1>2. d = IF ReadByte(b).err = "Ok"
          THEN ReadEach([k \in 1 .. ReadByte(b).v |-> reader], ReadByte(b).rest) ELSE ReadByte(b)
  BY DEF ReadList, ReadMany, Reader, Then
<1>3. \A x \in Terms_(1) : W[x] = EncodeExpr(x)
  OBVIOUS
<1>4. Regainer(reader, Terms_(1), W)
  <2> SUFFICES ASSUME NEW q \in Seq(Byte) PROVE Regains(reader[q], Terms_(1), W, q)
    BY DEF Regainer
  <2> DEFINE x == DecodeExpr(q)
  <2>1. reader[q] = x
    OBVIOUS
  <2>2. x \in Reading(Terms_(1)) /\ (x.err = "Ok" => Spells(EncodeExpr(x.v), x.rest, q))
    BY DecodeExprTyped, DecodeExprRegains
  <2> HIDE DEF x, W, reader
  <2>3. x.err = "Ok" => W[x.v] = EncodeExpr(x.v)
    BY <1>3, <2>2, ReadingCases
  <2> QED
    BY <2>1, <2>2, <2>3 DEF Regains
<1> HIDE DEF d, reader, W
<1>5. d.err = "Ok" => /\ d.v \in Seq(Terms_(1))
                      /\ Spells(<<Len(d.v)>> \o FlattenSeq([k \in DOMAIN d.v |-> W[d.v[k]]]), d.rest, b)
  BY <1>2, <1>4, CountedRegains
<1>6. d.err = "Ok" => Spells(w, d.rest, b)
  <2>1. ASSUME d.v \in Seq(Terms_(1)) PROVE [k \in DOMAIN d.v |-> W[d.v[k]]] = ExprWords(d.v)
    <3>1. \A k \in DOMAIN d.v : d.v[k] \in Terms_(1)
      BY <2>1, LenProperties, ElementOfSeq
    <3> QED
      BY <1>3, <3>1 DEF ExprWords
  <2> QED
    BY <1>5, <2>1
<1>7. s(d.v).ix = "assert_multi" /\ s(d.v).conds = d.v
  BY DEF Statement
<1> HIDE DEF s
<1>8. EncodeBody(s(d.v)) = w
  BY <1>7 DEF EncodeBody
<1> HIDE DEF r, w
<1>9. CASE d.err = "Ok"
  BY <1>1, <1>6, <1>7, <1>8, <1>9, RestoredBy DEF r
<1>10. CASE d.err # "Ok"
  BY <1>1, <1>10 DEF Restored, r
<1> QED
  BY <1>9, <1>10

LEMMA AssertRegains ==
  ASSUME NEW b \in Seq(Byte)
  PROVE  Restored(DecodeBody("assert", b), "assert", b)
<1> DEFINE d == DecodeExpr(b)
           s(e) == Statement("assert", <<e>>, << >>, << >>)
           r == DecodeBody("assert", b)
           w == EncodeExpr(d.v)
<1>1. r = IF d.err = "Ok" THEN Read(s(d.v), d.rest) ELSE d
  BY DEF DecodeBody, Then
<1>2. d.err = "Ok" => Spells(w, d.rest, b)
  BY DecodeExprRegains
<1> HIDE DEF d
<1>3. s(d.v).ix = "assert" /\ s(d.v).conds[1] = d.v
  BY DEF Statement
<1> HIDE DEF s
<1>4. EncodeBody(s(d.v)) = w
  BY <1>3 DEF EncodeBody
<1> HIDE DEF r, w
<1>5. CASE d.err = "Ok"
  BY <1>1, <1>2, <1>3, <1>4, <1>5, RestoredBy DEF r
<1>6. CASE d.err # "Ok"
  BY <1>1, <1>6 DEF Restored, r
<1> QED
  BY <1>5, <1>6

LEMMA CpiRegains ==
  ASSUME NEW b \in Seq(Byte)
  PROVE  Restored(DecodeBody("patched_cpi", b), "patched_cpi", b)
<1> DEFINE d == DecodeStep(b)
           s(step) == Statement("patched_cpi", << >>, << >>, OneStep(step))
           r == DecodeBody("patched_cpi", b)
           w == EncodeStep(d.v)
<1>1. r = IF d.err = "Ok" THEN Read(s(d.v), d.rest) ELSE d
  BY DEF DecodeBody, Then
<1>2. d.err = "Ok" => Spells(w, d.rest, b)
  BY DecodeStepRegains
<1> HIDE DEF d
<1>3. s(d.v).ix = "patched_cpi" /\ s(d.v).arms[1].steps[1] = d.v
  BY DEF Statement, OneStep
<1> HIDE DEF s
<1>4. EncodeBody(s(d.v)) = w
  BY <1>3 DEF EncodeBody
<1> HIDE DEF r, w
<1>5. CASE d.err = "Ok"
  BY <1>1, <1>2, <1>3, <1>4, <1>5, RestoredBy DEF r
<1>6. CASE d.err # "Ok"
  BY <1>1, <1>6 DEF Restored, r
<1> QED
  BY <1>5, <1>6

LEMMA IfRegains ==
  ASSUME NEW b \in Seq(Byte)
  PROVE  Restored(DecodeBody("if_else", b), "if_else", b)
<1> DEFINE e == DecodeExpr(b)
           Two(q) == ReadMany(DecodeArm, 2, q)
           d == Two(e.rest)
           s(c, arms) == Statement("if_else", <<c>>, << >>, arms)
           last == IF d.err = "Ok" THEN Read(s(e.v, d.v), d.rest) ELSE d
           r == DecodeBody("if_else", b)
           w == EncodeExpr(e.v)
           w2 == FlattenSeq(ArmWords(d.v))
<1>1. r = IF e.err = "Ok" THEN last ELSE e
  <2>1. r = Then(DecodeExpr(b), LAMBDA c, q : Then(Two(q), LAMBDA arms, q2 : Read(s(c, arms), q2)))
    BY DEF DecodeBody
  <2> HIDE DEF Two, s, r
  <2> QED
    BY <2>1 DEF Then
<1> HIDE DEF r
<1> SUFFICES ASSUME r.err = "Ok" PROVE Restored(r, "if_else", b)
  BY DEF Restored, r
<1>2. e.err = "Ok" /\ r = last
  <2> HIDE DEF e, last
  <2> QED
    BY <1>1
<1>3. d.err = "Ok" /\ r = Read(s(e.v, d.v), d.rest)
  <2> HIDE DEF e, d, s
  <2> QED
    BY <1>2
<1>4. Spells(w, e.rest, b) /\ e.rest \in Seq(Byte)
  BY <1>2, DecodeExprRegains DEF Spells
<1> HIDE DEF e, last
<1>5. Spells(w2, d.rest, e.rest)
  <2>1. 2 \in Nat
    OBVIOUS
  <2> QED
    BY <1>3, <1>4, <2>1, ReadArmsRegains
<1> HIDE DEF d
<1> DEFINE x == s(e.v, d.v)
<1>6. x.ix = "if_else" /\ x.conds[1] = e.v /\ x.arms = d.v
  BY DEF Statement
<1> HIDE DEF s, x
<1>7. EncodeBody(x) = w \o w2
  BY <1>6 DEF EncodeBody
<1> HIDE DEF w, w2
<1>8. Spells(w \o w2, d.rest, b)
  BY <1>4, <1>5, SpellsMore
<1>9. r = Read(x, d.rest)
  BY <1>3 DEF x
<1> QED
  BY <1>6, <1>7, <1>8, <1>9, RestoredBy

LEMMA BareRegains ==
  ASSUME NEW ix \in {"close_frame", "reset_frame"}, NEW b \in Seq(Byte)
  PROVE  Restored(DecodeBody(ix, b), ix, b)
<1> DEFINE s == Statement(ix, << >>, << >>, << >>)
           r == DecodeBody(ix, b)
<1>1. r = Read(s, b) /\ s.ix = ix
  BY DEF DecodeBody, Statement
<1> HIDE DEF s, r
<1>2. EncodeBody(s) = << >>
  BY <1>1 DEF EncodeBody
<1> QED
  BY <1>1, <1>2, SpellsNothing, RestoredBy DEF r

LEMMA DecodeRegains ==
  ASSUME NEW b \in Seq(Byte)
  PROVE  LET d == Decode(b) IN d.err = "Ok" => Encode(d.v) \o d.rest = b
<1> DEFINE t == ReadTag(8, b)
           ix == Instructions[t.v + 1]
           d == Decode(b)
           x == DecodeBody(ix, t.rest)
<1>1. d = IF t.err = "Ok" THEN x ELSE t
  <2>1. Len(Instructions) = 8
    BY InstructionsAre
  <2>2. LET u == ReadTag(Len(Instructions), b) IN
        d = IF u.err = "Ok" THEN DecodeBody(Instructions[u.v + 1], u.rest) ELSE u
    BY DecodeIs
  <2> HIDE DEF d
  <2> QED
    BY <2>1, <2>2
<1> HIDE DEF d
<1> SUFFICES ASSUME d.err = "Ok" PROVE Encode(d.v) \o d.rest = b
  BY DEF d
<1>2. t.err = "Ok" /\ d = x
  <2> HIDE DEF t, x
  <2> QED
    BY <1>1
<1>3. Spells(<<t.v>>, t.rest, b) /\ t.v \in 0 .. 8 - 1 /\ t.rest \in Seq(Byte)
  <2>1. 8 \in Nat
    OBVIOUS
  <2> QED
    BY <1>2, <2>1, ReadTagRegains
<1>4. t.v \in 0 .. 7 /\ t.v + 1 \in 1 .. 8
  BY <1>3
<1>5. SdkDiscriminators[ix] = t.v /\ ix \in Names
  BY <1>4, InstructionTags, InstructionsAre, ElementOfSeq
<1> HIDE DEF t, ix
<1>6. Restored(x, ix, t.rest)
  BY <1>3, <1>5, CreateRegains, LetRegains, AssertRegains, MultiRegains, CpiRegains, IfRegains, BareRegains DEF Names
<1> HIDE DEF x
<1>7. d.v.ix = ix /\ Spells(EncodeBody(d.v), d.rest, t.rest)
  BY <1>2, <1>6 DEF Restored
<1>8. Encode(d.v) = <<t.v>> \o EncodeBody(d.v)
  BY <1>5, <1>7, EncodeIs
<1>9. Spells(<<t.v>> \o EncodeBody(d.v), d.rest, b)
  BY <1>3, <1>7, SpellsMore
<1> QED
  BY <1>8, <1>9 DEF Spells

=============================================================================
