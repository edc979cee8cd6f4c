---------------------------- MODULE CpiSteps_proofs ----------------------------
(***************************************************************************)
(* Proofs about CpiSteps: where the steps of an arm lie in the account     *)
(* list they share, what the program has checked of those it invoked, and  *)
(* what their data holds.                                                  *)
(***************************************************************************)
EXTENDS CpiSteps, DataLemmas

Key == Account \cup Program

\* The first error of a sequence is one of it, and there is none if all is well.
LEMMA FirstErrorIsOne ==
  ASSUME NEW S, NEW results \in Seq(S)
  PROVE  /\ FirstError(results) = "Ok" => \A p \in 1 .. Len(results) : results[p] = "Ok"
         /\ FirstError(results) # "Ok" =>
              \E p \in 1 .. Len(results) : FirstError(results) = results[p] /\ results[p] # "Ok"
<1> DEFINE I == {p \in 1 .. Len(results) : results[p] # "Ok"}
           p == IF I # {} THEN Min(I) ELSE 0
<1>1. FirstError(results) = IF p = 0 THEN "Ok" ELSE results[p]
  BY DEF FirstError, SelectInSeq
<1>2. I # {} => Min(I) \in I
  <2>1. I \subseteq Nat
    OBVIOUS
  <2>2. I # {} => \E x \in I : \A y \in I : x <= y
    BY <2>1, NatMin
  <2> HIDE DEF I
  <2> QED
    BY <2>2 DEF Min
<1>3. I # {} => p \in 1 .. Len(results) /\ results[p] # "Ok" /\ p # 0
  BY <1>2
<1>4. I = {} => p = 0
  OBVIOUS
<1>5. I = {} => \A q \in 1 .. Len(results) : results[q] = "Ok"
  OBVIOUS
<1> HIDE DEF I, p
<1> QED
  BY <1>1, <1>3, <1>4, <1>5

-----------------------------------------------------------------------------
(* The layout of instruction data: a shape has up to three fields, and the *)
(* data is their cells one after the other behind a cell of the code.      *)

FieldType == {"u8", "u16", "u64", "key"}

AnyField == {Field(t) : t \in FieldType} \cup {OptField(t) : t \in FieldType}

LEMMA AnyFieldShape ==
  \A f \in AnyField : /\ f.ty \in FieldType /\ (f.opt = TRUE \/ f.opt = FALSE)
                      /\ Width[f.ty] \in Nat \ {0}
<1>1. \A t \in FieldType :
        /\ Field(t).ty = t /\ Field(t).opt = FALSE /\ OptField(t).ty = t /\ OptField(t).opt = TRUE
  BY DEF Field, OptField
<1>2. \A t \in FieldType : Width[t] \in Nat \ {0}
  BY CpiStepsAssumption DEF FieldType
<1> QED
  BY <1>1, <1>2 DEF AnyField

LEMMA UpToThreeFields ==
  ASSUME NEW a \in AnyField, NEW b \in AnyField, NEW c \in AnyField,
         NEW q \in {<< >>, <<a>>, <<a, b>>, <<a, b, c>>}
  PROVE  /\ Len(q) \in 0 .. 3 /\ q = [j \in 1 .. Len(q) |-> q[j]]
         /\ \A j \in 1 .. Len(q) : q[j] \in AnyField
<1>1. CASE q = << >>
  BY <1>1
<1>2. CASE q = <<a>>
  BY <1>2
<1>3. CASE q = <<a, b>>
  BY <1>3
<1>4. CASE q = <<a, b, c>>
  BY <1>4
<1> QED
  BY <1>1, <1>2, <1>3, <1>4

\* A shape has up to three fields.
LEMMA FieldsShape ==
  ASSUME NEW shape \in DOMAIN Fields
  PROVE  /\ Len(Fields[shape]) \in 0 .. 3
         /\ \A j \in 1 .. Len(Fields[shape]) : Fields[shape][j] \in AnyField
<1>1. \A t \in FieldType : Field(t) \in AnyField /\ OptField(t) \in AnyField
  BY DEF AnyField
<1>2. {"u8", "u16", "u64", "key"} = FieldType
  BY DEF FieldType
<1>3. \E a, b, c \in AnyField : Fields[shape] \in {<< >>, <<a>>, <<a, b>>, <<a, b, c>>}
  <2>1. CASE shape = "amount"
    <3>1. Fields[shape] = <<Field("u64")>>
      BY <2>1 DEF Fields
    <3> QED
      BY <1>1, <1>2, <3>1
  <2>2. CASE shape = "multisig"
    <3>1. Fields[shape] = <<Field("u8")>>
      BY <2>2 DEF Fields
    <3> QED
      BY <1>1, <1>2, <3>1
  <2>3. CASE shape = "checked"
    <3>1. Fields[shape] = <<Field("u64"), Field("u8")>>
      BY <2>3 DEF Fields
    <3> QED
      BY <1>1, <1>2, <3>1
  <2>4. CASE shape = "create"
    <3>1. Fields[shape] = <<Field("u64"), Field("u64"), Field("key")>>
      BY <2>4 DEF Fields
    <3> QED
      BY <1>1, <1>2, <3>1
  <2>5. CASE shape = "fee"
    <3>1. Fields[shape] = <<Field("u64"), Field("u8"), Field("u64")>>
      BY <2>5 DEF Fields
    <3> QED
      BY <1>1, <1>2, <3>1
  <2>6. CASE shape = "set_fee"
    <3>1. Fields[shape] = <<Field("u16"), Field("u64")>>
      BY <2>6 DEF Fields
    <3> QED
      BY <1>1, <1>2, <3>1
  <2>7. CASE shape = "mint"
    <3>1. Fields[shape] = <<Field("u8"), Field("key"), OptField("key")>>
      BY <2>7 DEF Fields
    <3> QED
      BY <1>1, <1>2, <3>1
  <2>8. CASE shape = "unwrap"
    <3>1. Fields[shape] = <<OptField("u64")>>
      BY <2>8 DEF Fields
    <3> QED
      BY <1>1, <1>2, <3>1
  <2>9. CASE shape = "unit"
    <3>1. Fields[shape] = << >>
      BY <2>9 DEF Fields
    <3> QED
      BY <1>1, <1>2, <3>1
  <2>10. DOMAIN Fields = {"amount", "multisig", "checked", "create", "fee", "set_fee", "mint", "unwrap", "unit"}
    BY DEF Fields
  <2> QED
    BY <2>1, <2>2, <2>3, <2>4, <2>5, <2>6, <2>7, <2>8, <2>9, <2>10
<1> QED
  BY <1>3, UpToThreeFields

\* What flattening makes of up to three parts.
LEMMA FlattenUpToThree ==
  ASSUME NEW q, Len(q) \in 0 .. 3
  PROVE  /\ Len(q) = 0 => FlattenSeq(q) = q
         /\ Len(q) = 1 => FlattenSeq(q) = q[1]
         /\ Len(q) = 2 => FlattenSeq(q) = q[1] \o q[2]
         /\ Len(q) = 3 => FlattenSeq(q) = (q[1] \o q[2]) \o q[3]
<1> DEFINE n == Len(q)
           two == q[1] \o q[2]
           three == two \o q[3]
           Sums(f) == f = [i \in 1 .. n |-> IF i = 1 THEN q[i] ELSE f[i - 1] \o q[i]]
           flat == CHOOSE f : Sums(f)
           sums == [i \in 1 .. n |-> IF i = 1 THEN q[1] ELSE IF i = 2 THEN two ELSE three]
<1>1. FlattenSeq(q) = IF n = 0 THEN q ELSE flat[n]
  BY DEF FlattenSeq
<1>2. Sums(sums)
  <2>1. ASSUME NEW i \in 1 .. n
        PROVE  sums[i] = IF i = 1 THEN q[i] ELSE sums[i - 1] \o q[i]
    <3>0. sums = [k \in 1 .. n |-> IF k = 1 THEN q[1] ELSE IF k = 2 THEN two ELSE three]
      BY Zenon
    <3> HIDE DEF two, three, sums
    <3>1. i = 1 \/ i = 2 \/ i = 3
      <4>1. n \in 0 .. 3
        OBVIOUS
      <4> HIDE DEF n
      <4> QED
        BY <4>1
    <3>2. CASE i = 1
      BY <3>0, <3>2
    <3>3. CASE i = 2
      <4>1. 1 \in 1 .. n /\ 2 \in 1 .. n
        BY <3>3
      <4>2. sums[2] = two /\ sums[1] = q[1]
        BY <3>0, <4>1
      <4>3. i - 1 = 1
        BY <3>3
      <4> QED
        BY <3>3, <4>2, <4>3 DEF two
    <3>4. CASE i = 3
      <4>1. 2 \in 1 .. n /\ 3 \in 1 .. n
        BY <3>4
      <4>2. sums[3] = three /\ sums[2] = two
        BY <3>0, <4>1
      <4>3. i - 1 = 2 /\ i # 1
        BY <3>4
      <4> QED
        BY <3>4, <4>2, <4>3, Zenon DEF three
    <3> QED
      BY <3>1, <3>2, <3>3, <3>4
  <2> HIDE DEF two, three
  <2> QED
    BY <2>1
<1>3. Sums(flat)
  <2> HIDE DEF sums, Sums
  <2> QED
    BY <1>2
<1>4. \A i \in 1 .. n : flat[i] = IF i = 1 THEN q[i] ELSE flat[i - 1] \o q[i]
  <2> HIDE DEF flat
  <2> QED
    BY <1>3
<1> HIDE DEF flat, sums, Sums
<1>5. n >= 1 => flat[1] = q[1]
  BY <1>4
<1>6. n >= 2 => flat[2] = two
  <2> SUFFICES ASSUME n >= 2 PROVE flat[2] = two
    OBVIOUS
  <2>1. 2 \in 1 .. n /\ 2 # 1 /\ 2 - 1 = 1 /\ n >= 1
    OBVIOUS
  <2>2. flat[2] = flat[2 - 1] \o q[2]
    BY <1>4, <2>1, Zenon
  <2> QED
    BY <1>5, <2>1, <2>2, Zenon
<1>7. n = 3 => flat[3] = three
  <2> SUFFICES ASSUME n = 3 PROVE flat[3] = three
    OBVIOUS
  <2>1. 3 \in 1 .. n /\ 3 # 1 /\ 3 - 1 = 2 /\ n >= 2
    OBVIOUS
  <2> HIDE DEF two
  <2>2. flat[3] = flat[3 - 1] \o q[3]
    BY <1>4, <2>1, Zenon
  <2> QED
    BY <1>6, <2>1, <2>2, Zenon
<1>8. /\ n = 0 => FlattenSeq(q) = q
      /\ n > 0 => FlattenSeq(q) = flat[n]
  BY <1>1
<1> HIDE DEF two, three
<1>9. /\ n = 1 => n > 0 /\ n >= 1
      /\ n = 2 => n > 0 /\ n >= 2
      /\ n = 3 => n > 0
  OBVIOUS
<1> HIDE DEF n
<1> QED
  BY <1>5, <1>6, <1>7, <1>8, <1>9, Zenon DEF n, two, three

\* Cells before the j-th of up to three parts.
Start(q, j) ==
  CASE j = 1 -> 0
    [] j = 2 -> Len(q[1])
    [] j = 3 -> Len(q[1]) + Len(q[2])
    [] j = 4 -> Len(q[1]) + Len(q[2]) + Len(q[3])

\* Where cell k of part j lies in the data.
At(q, j, k) == 1 + Start(q, j) + k

\* Parts follow each other without gaps.
LEMMA StartOrder ==
  ASSUME NEW q, NEW n \in 0 .. 3, \A j \in 1 .. n : Len(q[j]) \in Nat
  PROVE  /\ \A j \in 1 .. n + 1 : Start(q, j) \in Nat
         /\ \A j \in 1 .. n : Start(q, j + 1) = Start(q, j) + Len(q[j])
         /\ \A i, j \in 1 .. n + 1 : i <= j => Start(q, i) <= Start(q, j)
         /\ \A m \in 1 .. Start(q, n + 1) :
              \E j \in 1 .. n : \E k \in 1 .. Len(q[j]) : m = Start(q, j) + k
<1> DEFINE a == Len(q[1])
           b == Len(q[2])
           c == Len(q[3])
<1>1. /\ Start(q, 1) = 0 /\ Start(q, 2) = a /\ Start(q, 3) = a + b
      /\ Start(q, 4) = a + b + c
  BY DEF Start
<1>2. /\ n >= 1 => a \in Nat
      /\ n >= 2 => b \in Nat
      /\ n >= 3 => c \in Nat
  OBVIOUS
<1> HIDE DEF a, b, c
<1>3. n = 0 \/ n = 1 \/ n = 2 \/ n = 3
  OBVIOUS
<1>4. \A j \in 1 .. n + 1 : j = 1 \/ (j = 2 /\ n >= 1) \/ (j = 3 /\ n >= 2) \/ (j = 4 /\ n >= 3)
  BY <1>3
<1>5. \A j \in 1 .. n + 1 : Start(q, j) \in Nat
  BY <1>1, <1>2, <1>4
<1>6. \A j \in 1 .. n : j = 1 \/ j = 2 \/ j = 3
  BY <1>3
<1>7. \A j \in 1 .. n : Start(q, j + 1) = Start(q, j) + Len(q[j])
  <2> SUFFICES ASSUME NEW j \in 1 .. n PROVE Start(q, j + 1) = Start(q, j) + Len(q[j])
    OBVIOUS
  <2>1. CASE j = 1
    <3>1. j + 1 = 2 /\ n >= 1
      BY <2>1
    <3> QED
      BY <1>1, <1>2, <2>1, <3>1 DEF a
  <2>2. CASE j = 2
    <3>1. j + 1 = 3
      BY <2>2
    <3> QED
      BY <1>1, <2>2, <3>1 DEF b
  <2>3. CASE j = 3
    <3>1. j + 1 = 4
      BY <2>3
    <3> QED
      BY <1>1, <2>3, <3>1 DEF c
  <2> QED
    BY <1>6, <2>1, <2>2, <2>3
<1>8. \A i, j \in 1 .. n + 1 : i <= j => Start(q, i) <= Start(q, j)
  BY <1>1, <1>2, <1>4
<1>9. ASSUME NEW m \in 1 .. Start(q, n + 1)
      PROVE  \E j \in 1 .. n : \E k \in 1 .. Len(q[j]) : m = Start(q, j) + k
  <2>1. Start(q, n + 1) \in Nat
    BY <1>5
  <2>2. n # 0
    BY <1>1, <2>1
  <2>3. CASE n >= 1 /\ m <= Start(q, 2)
    <3>1. 1 \in 1 .. n /\ m \in 1 .. Len(q[1]) /\ m = Start(q, 1) + m
      BY <1>1, <1>2, <2>1, <2>3 DEF a
    <3> QED
      BY <3>1
  <2>4. CASE n >= 2 /\ m > Start(q, 2) /\ m <= Start(q, 3)
    <3>1. 2 \in 1 .. n /\ m - a \in 1 .. Len(q[2]) /\ m = Start(q, 2) + (m - a)
      BY <1>1, <1>2, <2>1, <2>4 DEF b
    <3> QED
      BY <3>1
  <2>5. CASE n = 3 /\ m > Start(q, 3)
    <3>1. 3 \in 1 .. n /\ m - (a + b) \in 1 .. Len(q[3]) /\ m = Start(q, 3) + (m - (a + b))
      BY <1>1, <1>2, <2>1, <2>5, SMTT(30) DEF c
    <3> QED
      BY <3>1
  <2>6. \/ n = 1 /\ m <= Start(q, 2)
        \/ n = 2 /\ m <= Start(q, 3)
        \/ n = 3
    BY <1>3, <2>1, <2>2
  <2> QED
    BY <1>1, <1>2, <2>1, <2>3, <2>4, <2>5, <2>6
<1> QED
  BY <1>5, <1>7, <1>8, <1>9

\* Every part lies where the ones before it end.
LEMMA FlattenLayout ==
  ASSUME NEW S, NEW q \in Seq(Seq(S)), Len(q) \in 0 .. 3
  PROVE  /\ FlattenSeq(q) \in Seq(S) /\ Len(FlattenSeq(q)) = Start(q, Len(q) + 1)
         /\ \A j \in 1 .. Len(q) : \A k \in 1 .. Len(q[j]) :
              FlattenSeq(q)[Start(q, j) + k] = q[j][k]
<1> DEFINE n == Len(q)
           F == FlattenSeq(q)
<1>1. n \in {0, 1, 2, 3} /\ \A j \in 1 .. n : q[j] \in Seq(S)
  BY ElementOfSeq
<1>2. \A j \in 1 .. n : Len(q[j]) \in Nat
  BY <1>1, LenProperties
<1> HIDE DEF F
<1>0. /\ n = 0 => F = q
      /\ n = 1 => F = q[1]
      /\ n = 2 => F = q[1] \o q[2]
      /\ n = 3 => F = (q[1] \o q[2]) \o q[3]
  BY FlattenUpToThree, Zenon DEF F
<1>3. CASE n = 0
  <2>1. F = q /\ q = <<>>
    BY <1>0, <1>3, EmptySeq
  <2>2. F \in Seq(S) /\ Len(F) = 0
    BY <2>1
  <2> QED
    <3>1. Start(q, 1) = 0 /\ n + 1 = 1 /\ \A j \in 1 .. n : FALSE
      BY <1>3 DEF Start
    <3> HIDE DEF n
    <3> QED
      BY <2>2, <3>1 DEF F, n
<1>4. CASE n = 1
  <2>1. F = q[1] /\ q[1] \in Seq(S) /\ Len(q[1]) \in Nat
    BY <1>0, <1>1, <1>2, <1>4
  <2>2. \A j \in 1 .. n : j = 1
    BY <1>4
  <2>3. \A k \in 1 .. Len(q[1]) : 0 + k = k
    BY <2>1
  <2> QED
    BY <1>4, <2>1, <2>2, <2>3 DEF Start, F
<1>5. CASE n = 2
  <2> DEFINE a == q[1]
             b == q[2]
  <2>1. F = a \o b /\ a \in Seq(S) /\ b \in Seq(S) /\ Len(a) \in Nat /\ Len(b) \in Nat
    <3>1. 1 \in 1 .. n /\ 2 \in 1 .. n
      BY <1>5
    <3> QED
      BY <1>0, <1>1, <1>2, <1>5, <3>1, Zenon
  <2>2. \A j \in 1 .. n : j = 1 \/ j = 2
    BY <1>5
  <2>3. Start(q, 1) = 0 /\ Start(q, 2) = Len(a) /\ Start(q, n + 1) = Len(a) + Len(b)
    BY <1>5 DEF Start
  <2> HIDE DEF a, b
  <2>4. /\ F \in Seq(S) /\ Len(F) = Len(a) + Len(b)
        /\ \A k \in 1 .. Len(a) : F[k] = a[k]
        /\ \A k \in 1 .. Len(b) : F[Len(a) + k] = b[k]
    BY <2>1, ConcatLayout
  <2>5. \A k \in 1 .. Len(a) : F[0 + k] = a[k]
    BY <2>1, <2>4
  <2> QED
    BY <2>2, <2>3, <2>4, <2>5, ZenonT(40) DEF F, a, b
<1>6. CASE n = 3
  <2> DEFINE a == q[1]
             b == q[2]
             c == q[3]
             ab == a \o b
  <2>1. /\ F = ab \o c /\ a \in Seq(S) /\ b \in Seq(S) /\ c \in Seq(S)
        /\ Len(a) \in Nat /\ Len(b) \in Nat /\ Len(c) \in Nat
    <3>1. 1 \in 1 .. n /\ 2 \in 1 .. n /\ 3 \in 1 .. n
      BY <1>6
    <3> QED
      BY <1>0, <1>1, <1>2, <1>6, <3>1, Zenon
  <2>2. \A j \in 1 .. n : j = 1 \/ j = 2 \/ j = 3
    BY <1>6
  <2>3. /\ Start(q, 1) = 0 /\ Start(q, 2) = Len(a) /\ Start(q, 3) = Len(a) + Len(b)
        /\ Start(q, n + 1) = Len(a) + Len(b) + Len(c)
    BY <1>6 DEF Start
  <2>4. /\ ab \in Seq(S) /\ Len(ab) = Len(a) + Len(b)
        /\ \A k \in 1 .. Len(a) : ab[k] = a[k]
        /\ \A k \in 1 .. Len(b) : ab[Len(a) + k] = b[k]
    <3> HIDE DEF a, b
    <3> QED
      BY <2>1, ConcatLayout
  <2> HIDE DEF a, b, c, ab
  <2>5. /\ F \in Seq(S) /\ Len(F) = Len(ab) + Len(c)
        /\ \A k \in 1 .. Len(ab) : F[k] = ab[k]
        /\ \A k \in 1 .. Len(c) : F[Len(ab) + k] = c[k]
    <3>1. c \in Seq(S) /\ ab \in Seq(S)
      BY <2>1, <2>4
    <3>2. /\ ab \o c \in Seq(S) /\ Len(ab \o c) = Len(ab) + Len(c)
          /\ \A k \in 1 .. Len(ab) : (ab \o c)[k] = ab[k]
          /\ \A k \in 1 .. Len(c) : (ab \o c)[Len(ab) + k] = c[k]
      BY <3>1, ConcatLayout
    <3> QED
      BY <2>1, <3>2, Zenon
  <2>6. \A k \in 1 .. Len(a) : k \in 1 .. Len(ab) /\ 0 + k = k
    BY <2>1, <2>4
  <2>7. \A k \in 1 .. Len(b) : Len(a) + k \in 1 .. Len(ab)
    BY <2>1, <2>4
  <2>8. \A k \in 1 .. Len(a) : F[0 + k] = a[k]
    BY <2>4, <2>5, <2>6
  <2>9. \A k \in 1 .. Len(b) : F[Len(a) + k] = b[k]
    BY <2>4, <2>5, <2>7
  <2>10. \A k \in 1 .. Len(c) : F[Len(a) + Len(b) + k] = c[k]
    BY <2>4, <2>5
  <2>11. Len(F) = Len(a) + Len(b) + Len(c)
    BY <2>4, <2>5
  <2> QED
    <3> HIDE DEF n
    <3>1. ASSUME NEW j \in 1 .. n, NEW k \in 1 .. Len(q[j]) PROVE F[Start(q, j) + k] = q[j][k]
      <4>1. CASE j = 1
        BY <2>3, <2>8, <4>1 DEF a
      <4>2. CASE j = 2
        BY <2>3, <2>9, <4>2 DEF b
      <4>3. CASE j = 3
        BY <2>3, <2>10, <4>3 DEF c
      <4> QED
        BY <2>2, <4>1, <4>2, <4>3
    <3>2. F \in Seq(S) /\ Len(F) = Start(q, n + 1)
      BY <2>3, <2>5, <2>11
    <3> QED
      BY <3>1, <3>2 DEF F, n
<1> QED
  BY <1>1, <1>3, <1>4, <1>5, <1>6

\* Cells: bytes of given values, tags and the code.
CellOf(V, code) == (V \cup {<<"flag", 0>>, <<"flag", 1>>, <<"code", code>>}) \X Nat

Past(f) == IF f.opt THEN 1 ELSE 0   \* the tag before a value

LEMMA CellsShape ==
  ASSUME NEW v, NEW ty \in FieldType, NEW V, v \in V, NEW code
  PROVE  /\ Cells(v, ty) \in Seq(CellOf(V, code)) /\ Len(Cells(v, ty)) = Width[ty]
         /\ \A k \in 1 .. Width[ty] : Cells(v, ty)[k] = <<v, k>>
<1> DEFINE w == Width[ty]
           C == CellOf(V, code)
<1>1. w \in Nat
  BY CpiStepsAssumption DEF FieldType
<1> HIDE DEF w
<1>2. \A k \in 1 .. w : <<v, k>> \in C
  <2>1. \A k \in 1 .. w : k \in Nat
    BY <1>1
  <2> QED
    BY <2>1 DEF CellOf
<1> HIDE DEF C
<1>3. Cells(v, ty) = [k \in 1 .. w |-> <<v, k>>]
  BY DEF Cells, w
<1>4. Cells(v, ty) \in [1 .. w -> C]
  BY <1>2, <1>3
<1>5. Cells(v, ty) \in Seq(C) /\ Len(Cells(v, ty)) = w
  BY <1>1, <1>4, SeqDef, LenProperties
<1> QED
  BY <1>3, <1>5 DEF w, C

LEMMA TagShape ==
  ASSUME NEW n \in {0, 1}, NEW V, NEW code
  PROVE  /\ Tag(n) \in Seq(CellOf(V, code)) /\ Len(Tag(n)) = 1
         /\ Tag(n)[1] = <<<<"flag", n>>, 1>>
<1> DEFINE C == CellOf(V, code)
           e == <<<<"flag", n>>, 1>>
<1>1. e \in C
  <2>1. <<"flag", n>> \in V \cup {<<"flag", 0>>, <<"flag", 1>>, <<"code", code>>}
    OBVIOUS
  <2> QED
    BY <2>1 DEF CellOf
<1>2. Tag(n) = <<e>>
  BY DEF Tag
<1> HIDE DEF C, e
<1> QED
  BY <1>1, <1>2 DEF C, e

\* The cells of a field: its tag, if it has one, and its value.
LEMMA FieldCellsShape ==
  ASSUME NEW v, NEW f \in AnyField, NEW V, v \in V, NEW code
  PROVE  LET cells == FieldCells(v, f)
         IN /\ cells \in Seq(CellOf(V, code))
            /\ v[1] # "none" =>
                 /\ Len(cells) = Past(f) + Width[f.ty]
                 /\ f.opt => cells[1] = <<<<"flag", 1>>, 1>>
                 /\ \A k \in 1 .. Width[f.ty] : cells[Past(f) + k] = <<v, k>>
<1> DEFINE cells == FieldCells(v, f)
           C == CellOf(V, code)
           w == Width[f.ty]
           own == Cells(v, f.ty)
<1>1. f.ty \in FieldType /\ w \in Nat
  BY AnyFieldShape
<1>2. own \in Seq(C) /\ Len(own) = w /\ \A k \in 1 .. w : own[k] = <<v, k>>
  BY <1>1, CellsShape
<1>3. /\ Tag(0) \in Seq(C) /\ Tag(1) \in Seq(C) /\ Len(Tag(1)) = 1
      /\ Tag(1)[1] = <<<<"flag", 1>>, 1>>
  BY TagShape
<1> HIDE DEF C, w, own
<1>4. CASE v[1] = "none"
  <2>1. cells = Tag(0)
    BY <1>4 DEF FieldCells
  <2> QED
    BY <1>3, <1>4, <2>1 DEF C
<1>5. CASE v[1] # "none" /\ f.opt
  <2>1. cells = Tag(1) \o own /\ Past(f) = 1
    BY <1>5 DEF FieldCells, Past, own
  <2>2. /\ Tag(1) \o own \in Seq(C) /\ Len(Tag(1) \o own) = 1 + w
        /\ \A k \in 1 .. 1 : (Tag(1) \o own)[k] = Tag(1)[k]
        /\ \A k \in 1 .. w : (Tag(1) \o own)[1 + k] = own[k]
    BY <1>2, <1>3, ConcatLayout, SMTT(30)
  <2>3. 1 \in 1 .. 1
    OBVIOUS
  <2> HIDE DEF cells
  <2>4. cells \in Seq(C) /\ Len(cells) = 1 + w /\ cells[1] = Tag(1)[1]
        /\ \A k \in 1 .. w : cells[1 + k] = own[k]
    BY <2>1, <2>2, <2>3, Zenon
  <2> QED
    BY <1>2, <1>3, <2>1, <2>4 DEF C, w, cells
<1>6. CASE v[1] # "none" /\ ~ f.opt
  <2>1. cells = own /\ Past(f) = 0
    BY <1>6 DEF FieldCells, Past, own
  <2>2. \A k \in 1 .. w : 0 + k = k /\ 0 + w = w
    BY <1>1
  <2>3. 0 + w = w
    BY <1>1
  <2> HIDE DEF cells
  <2> QED
    BY <1>2, <1>6, <2>1, <2>2, <2>3 DEF C, w, cells
<1> QED
  BY <1>4, <1>5, <1>6

\* The cells of the fields of a patch.
Parts(shape, vals) == [j \in 1 .. Len(vals) |-> FieldCells(vals[j], Fields[shape][j])]

LEMMA PartsLayout ==
  ASSUME NEW shape \in DOMAIN Fields, NEW U, NEW vals \in Seq(U),
         Len(vals) \in 0 .. Len(Fields[shape]), NEW code
  PROVE  /\ Len(vals) \in 0 .. 3
         /\ Parts(shape, vals) \in Seq(Seq(CellOf(U, code))) /\ Len(Parts(shape, vals)) = Len(vals)
         /\ \A j \in 1 .. Len(vals) :
              /\ vals[j] \in U /\ Fields[shape][j] \in AnyField
              /\ Parts(shape, vals)[j] = FieldCells(vals[j], Fields[shape][j])
              /\ Parts(shape, vals)[j] \in Seq(CellOf(U, code))
              /\ Len(Parts(shape, vals)[j]) \in Nat
<1> DEFINE q == Parts(shape, vals)
           n == Len(vals)
           m == Len(Fields[shape])
           C == CellOf(U, code)
           cells(j) == FieldCells(vals[j], Fields[shape][j])
<1>1. n \in 0 .. 3 /\ \A j \in 1 .. n : Fields[shape][j] \in AnyField
  <2>1. m \in 0 .. 3 /\ \A j \in 1 .. m : Fields[shape][j] \in AnyField
    BY FieldsShape
  <2>2. n \in 0 .. m
    OBVIOUS
  <2> HIDE DEF m, n
  <2> QED
    BY <2>1, <2>2
<1>2. \A j \in 1 .. n : vals[j] \in U
  BY ElementOfSeq
<1>3. \A j \in 1 .. n : cells(j) \in Seq(C)
  BY <1>1, <1>2, FieldCellsShape
<1>4. q = [j \in 1 .. n |-> cells(j)]
  BY DEF Parts
<1> HIDE DEF n, q, C, cells
<1>5. /\ q \in [1 .. n -> Seq(C)]
      /\ \A j \in 1 .. n : q[j] = cells(j) /\ q[j] \in Seq(C)
  BY <1>3, <1>4
<1>6. q \in Seq(Seq(C)) /\ Len(q) = n
  BY <1>1, <1>5, SeqDef, LenProperties
<1>7. \A j \in 1 .. n : Len(q[j]) \in Nat
  BY <1>5, LenProperties
<1> QED
  BY <1>1, <1>2, <1>5, <1>6, <1>7, Zenon DEF n, q, C, cells

\* The cells of all fields lie one after the other behind that of the code.
HasParts(data, q, n) ==
  \A j \in 1 .. n : \A k \in 1 .. Len(q[j]) : data[At(q, j, k)] = q[j][k]

LEMMA EncodeLayout ==
  ASSUME NEW shape \in DOMAIN Fields, NEW U, NEW vals \in Seq(U),
         Len(vals) \in 0 .. Len(Fields[shape]), NEW code
  PROVE  LET q == Parts(shape, vals)
             n == Len(vals)
             data == Encode(code, shape, vals)
             c == <<<<"code", code>>, 1>>
         IN /\ data \in Seq(CellOf(U, code)) /\ Len(data) = 1 + Start(q, n + 1) /\ data[1] = c
            /\ HasParts(data, q, n)
<1> DEFINE q == Parts(shape, vals)
           n == Len(vals)
           data == Encode(code, shape, vals)
           C == CellOf(U, code)
           F == FlattenSeq(q)
           c == <<<<"code", code>>, 1>>
<1>1. n \in 0 .. 3 /\ q \in Seq(Seq(C)) /\ Len(q) = n /\ \A j \in 1 .. n : Len(q[j]) \in Nat
  BY PartsLayout
<1>8. data = <<c>> \o F
  BY DEF Encode, Parts
<1>9. c \in C
  BY DEF CellOf
<1> HIDE DEF q, C, n
<1>7. /\ F \in Seq(C) /\ Len(F) = Start(q, n + 1)
      /\ \A j \in 1 .. n : \A k \in 1 .. Len(q[j]) : F[Start(q, j) + k] = q[j][k]
  BY <1>1, FlattenLayout DEF F
<1> HIDE DEF data, F, c
<1>10. /\ data \in Seq(C) /\ Len(data) = Len(F) + 1 /\ data[1] = c
       /\ \A i \in 1 .. Len(F) : data[i + 1] = F[i]
  BY <1>7, <1>8, <1>9, PrependProperties
<1>11. Len(F) \in Nat
  BY <1>7, LenProperties
<1>12. ASSUME NEW j \in 1 .. n, NEW k \in 1 .. Len(q[j])
       PROVE  data[At(q, j, k)] = q[j][k]
  <2>1. Start(q, j) \in Nat /\ Start(q, j) + k \in 1 .. Start(q, n + 1)
    <3>1. j \in 1 .. n + 1 /\ j + 1 \in 1 .. n + 1 /\ n + 1 \in 1 .. n + 1 /\ j + 1 <= n + 1
      BY <1>1
    <3>2. /\ Start(q, j) \in Nat /\ Start(q, j + 1) = Start(q, j) + Len(q[j])
          /\ Start(q, n + 1) \in Nat /\ Start(q, j + 1) <= Start(q, n + 1)
      BY <1>1, <3>1, StartOrder
    <3> QED
      BY <1>1, <3>2
  <2>2. data[(Start(q, j) + k) + 1] = F[Start(q, j) + k]
    BY <1>7, <1>10, <2>1
  <2>3. (Start(q, j) + k) + 1 = At(q, j, k)
    BY <2>1, <1>1 DEF At
  <2> QED
    BY <1>7, <2>2, <2>3
<1>13. Len(data) = 1 + Start(q, n + 1)
  BY <1>7, <1>10, <1>11
<1> QED
  BY <1>10, <1>12, <1>13 DEF HasParts, C, q, n, data, c

LEMMA StartOfEqual ==
  ASSUME NEW q, NEW r, NEW j \in 1 .. 4, \A i \in 1 .. j - 1 : Len(q[i]) = Len(r[i])
  PROVE  Start(q, j) = Start(r, j)
<1>1. j = 1 \/ j = 2 \/ j = 3 \/ j = 4
  OBVIOUS
<1>2. CASE j = 1
  BY <1>2 DEF Start
<1>3. CASE j = 2
  <2>1. 1 \in 1 .. j - 1
    BY <1>3
  <2> QED
    BY <1>3, <2>1 DEF Start
<1>4. CASE j = 3
  <2>1. 1 \in 1 .. j - 1 /\ 2 \in 1 .. j - 1
    BY <1>4
  <2> QED
    BY <1>4, <2>1 DEF Start
<1>5. CASE j = 4
  <2>1. 1 \in 1 .. j - 1 /\ 2 \in 1 .. j - 1 /\ 3 \in 1 .. j - 1
    BY <1>5
  <2> QED
    BY <1>5, <2>1 DEF Start
<1> QED
  BY <1>1, <1>2, <1>3, <1>4, <1>5

\* The cells before a field, counted as the models of the builders and of the
\* program do.
LEMMA BeforeField ==
  ASSUME NEW shape \in DOMAIN Fields, NEW U, NEW vals \in Seq(U),
         Len(vals) \in 0 .. Len(Fields[shape]), NEW j \in 1 .. Len(vals)
  PROVE  Len(Encode(0, shape, SubSeq(vals, 1, j - 1))) = 1 + Start(Parts(shape, vals), j)
<1> DEFINE n == Len(vals)
           m == Len(Fields[shape])
           i == j - 1
           sub == SubSeq(vals, 1, i)
           q == Parts(shape, vals)
           r == Parts(shape, sub)
<1>1. m \in 0 .. 3
  BY FieldsShape
<1>2. n \in 0 .. m /\ j \in 1 .. n
  OBVIOUS
<1>4. \A k \in 1 .. n : q[k] = FieldCells(vals[k], Fields[shape][k])
  BY PartsLayout
<1> HIDE DEF n, m
<1>5. i \in Nat /\ 0 + i <= n /\ i \in 0 .. m /\ i + 1 = j /\ 0 + i = i /\ 0 + 1 = 1
      /\ j \in 1 .. 4
  BY <1>1, <1>2
<1> HIDE DEF i
<1>6. sub \in Seq(U) /\ Len(sub) = i /\ \A k \in 1 .. i : sub[k] = vals[0 + k]
  BY <1>5, SubSeqAt DEF n
<1>7. \A k \in 1 .. i : k \in 1 .. n /\ 0 + k = k
  BY <1>2, <1>5
<1> HIDE DEF q, sub
<1>8. \A k \in 1 .. i : sub[k] \in U /\ sub[k] = vals[k]
  BY <1>6, <1>7, ElementOfSeq
<1>9. /\ Len(Encode(0, shape, sub)) = 1 + Start(r, i + 1)
      /\ \A k \in 1 .. i : r[k] = FieldCells(sub[k], Fields[shape][k])
  <2>1. Len(sub) \in 0 .. Len(Fields[shape])
    BY <1>5, <1>6 DEF m
  <2>2. \A k \in 1 .. Len(sub) : Parts(shape, sub)[k] = FieldCells(sub[k], Fields[shape][k])
    BY <1>6, <2>1, PartsLayout, SMTT(30)
  <2>3. Len(Encode(0, shape, sub)) = 1 + Start(Parts(shape, sub), Len(sub) + 1)
    BY <1>6, <2>1, EncodeLayout
  <2> QED
    BY <1>6, <2>2, <2>3
<1> HIDE DEF r
<1>10. \A k \in 1 .. i : q[k] = r[k]
  BY <1>4, <1>7, <1>8, <1>9
<1>11. Start(q, j) = Start(r, j)
  BY <1>5, <1>10, StartOfEqual DEF i
<1> QED
  BY <1>5, <1>9, <1>11 DEF q, sub, i

\* Assembled data carries every field whole (structured_cpi/assemble.rs).
LEMMA AssembledCarries ==
  ASSUME NEW shape \in DOMAIN Fields, NEW U, NEW vals \in Seq(U),
         Len(vals) \in 0 .. Len(Fields[shape]), NEW j \in 1 .. Len(vals), NEW code
  PROVE  Carries(Encode(code, shape, vals), shape, vals, j)
<1> DEFINE n == Len(vals)
           data == Encode(code, shape, vals)
           C == CellOf(U, code)
           q == Parts(shape, vals)
           cells == FieldCells(vals[j], Fields[shape][j])
           before == 1 + Start(q, j)
           k == Len(cells)
<1>1. /\ n \in 0 .. 3
      /\ \A i \in 1 .. n : /\ q[i] = FieldCells(vals[i], Fields[shape][i])
                           /\ Len(q[i]) \in Nat /\ q[i] \in Seq(C)
  BY PartsLayout
<1>2. data \in Seq(C) /\ Len(data) = 1 + Start(q, n + 1) /\ HasParts(data, q, n)
  BY EncodeLayout
<1>3. Len(Encode(0, shape, SubSeq(vals, 1, j - 1))) = before
  BY BeforeField
<1>4. cells \in Seq(C) /\ cells = q[j]
  BY <1>1
<1>5. j \in 1 .. n
  OBVIOUS
<1> HIDE DEF n, data, C, q, cells
<1>6. before \in Nat /\ k \in Nat /\ before + k <= Len(data)
  <2>1. j \in 1 .. n + 1 /\ j + 1 \in 1 .. n + 1 /\ n + 1 \in 1 .. n + 1 /\ j + 1 <= n + 1
    BY <1>1, <1>5
  <2>2. /\ Start(q, j) \in Nat /\ Start(q, j + 1) = Start(q, j) + Len(q[j])
        /\ Start(q, n + 1) \in Nat /\ Start(q, j + 1) <= Start(q, n + 1)
    BY <1>1, <1>5, <2>1, StartOrder
  <2> QED
    BY <1>1, <1>2, <1>4, <1>5, <2>2, SMTT(30)
<1>7. \A p \in 1 .. k : data[before + p] = cells[p]
  <2>1. \A p \in 1 .. k : before + p = At(q, j, p)
    BY DEF At
  <2> QED
    BY <1>2, <1>4, <1>5, <2>1 DEF HasParts
<1> HIDE DEF before, k
<1> DEFINE part == SubSeq(data, before + 1, before + k)
<1>8. part \in Seq(C) /\ Len(part) = k /\ \A p \in 1 .. k : part[p] = data[before + p]
  BY <1>2, <1>6, SubSeqAt
<1> HIDE DEF part
<1>9. part = cells
  BY <1>4, <1>7, <1>8, SeqEqual, ZenonT(40) DEF k
<1> QED
  BY <1>3, <1>9 DEF Carries, part, k, cells, data

\* Values of a template or of the Frame: no COption lacks its value.
Present == {"template", "frame"} \X Nat

Holds(part, from, v, w) == \A k \in 1 .. w : part[from + k] = <<v, k>>

\* The parts of data that holds such values have the sizes of its fields.
LEMMA PresentParts ==
  ASSUME NEW shape \in DOMAIN Fields, NEW vals \in Seq(Present), Len(vals) = Len(Fields[shape]),
         NEW j \in 1 .. Len(vals)
  PROVE  LET f == Fields[shape][j]
             part == Parts(shape, vals)[j]
         IN /\ f \in AnyField /\ Past(f) \in {0, 1} /\ Width[f.ty] \in Nat \ {0}
            /\ part = FieldCells(vals[j], f) /\ Len(part) = Past(f) + Width[f.ty]
            /\ Past(f) = 1 => part[1] = <<<<"flag", 1>>, 1>>
            /\ Holds(part, Past(f), vals[j], Width[f.ty])
<1> DEFINE f == Fields[shape][j]
           v == vals[j]
           part == Parts(shape, vals)[j]
<1>1. Len(vals) \in 0 .. Len(Fields[shape])
  <2>1. Len(vals) \in Nat
    BY LenProperties
  <2> QED
    BY <2>1
<1>2. f \in AnyField /\ part = FieldCells(v, f) /\ v \in Present
  BY <1>1, PartsLayout
<1> HIDE DEF f, v, part
<1>3. v[1] # "none"
  BY <1>2 DEF Present
<1>4. Past(f) \in {0, 1} /\ Width[f.ty] \in Nat \ {0} /\ (Past(f) = 1 => f.opt)
  BY <1>2, AnyFieldShape DEF Past
<1>5. /\ Len(part) = Past(f) + Width[f.ty]
      /\ f.opt => part[1] = <<<<"flag", 1>>, 1>>
      /\ \A k \in 1 .. Width[f.ty] : part[Past(f) + k] = <<v, k>>
  BY <1>2, <1>3, FieldCellsShape
<1> QED
  BY <1>2, <1>4, <1>5 DEF Holds, f, v, part

\* Overlays give each field of a template its own value or one of the Frame.
LEMMA OverlayValues ==
  ASSUME NEW shape \in DOMAIN Fields, NEW vals \in Overlays[shape]
  PROVE  /\ Len(vals) = Len(Fields[shape]) /\ Len(vals) \in 0 .. 3
         /\ \A j \in 1 .. Len(vals) :
              vals[j] = <<"template", 0>> \/ \E i \in Nat : vals[j] = <<"frame", i>>
<1> DEFINE n == Len(Fields[shape])
           V == {<<"template", 0>>} \cup Values("frame", 0)
<1>1. n \in 0 .. 3
  BY FieldsShape
<1>2. vals \in [1 .. n -> V]
  BY DEF Overlays
<1>3. \A v \in V : v = <<"template", 0>> \/ \E i \in Nat : v = <<"frame", i>>
  BY DEF Values, Index
<1> HIDE DEF n, V
<1>4. Len(vals) = n
  BY <1>1, <1>2, SeqDef, LenProperties
<1> QED
  BY <1>1, <1>2, <1>3, <1>4 DEF n

\* The values of a template.
TemplateValues(n) == [j \in 1 .. n |-> <<"template", j>>]

LEMMA TemplateValuesShape ==
  ASSUME NEW n \in Nat
  PROVE  /\ TemplateValues(n) \in Seq(Present) /\ Len(TemplateValues(n)) = n
         /\ \A j \in 1 .. n : TemplateValues(n)[j] = <<"template", j>>
<1>1. \A j \in 1 .. n : <<"template", j>> \in Present
  BY DEF Present
<1>2. TemplateValues(n) \in [1 .. n -> Present]
  BY <1>1 DEF TemplateValues
<1>3. \A j \in 1 .. n : TemplateValues(n)[j] = <<"template", j>>
  BY DEF TemplateValues
<1> HIDE DEF TemplateValues
<1> QED
  BY <1>2, <1>3, SeqDef, LenProperties

\* What overlays are meant to make of a template.
LEMMA MeantShape ==
  ASSUME NEW s, NEW shape \in DOMAIN Fields, s.vals \in Overlays[shape]
  PROVE  LET n == Len(s.vals)
         IN /\ Meant(s) \in Seq(Present) /\ Len(Meant(s)) = n
            /\ \A j \in 1 .. n :
                 Meant(s)[j] = IF s.vals[j][1] = "frame" THEN s.vals[j] ELSE <<"template", j>>
<1> DEFINE vals == s.vals
           n == Len(vals)
           m(j) == IF vals[j][1] = "frame" THEN vals[j] ELSE <<"template", j>>
<1>1. n \in Nat /\ \A j \in 1 .. n :
         vals[j] = <<"template", 0>> \/ \E i \in Nat : vals[j] = <<"frame", i>>
  BY OverlayValues
<1> HIDE DEF vals
<1>2. ASSUME NEW j \in 1 .. n
      PROVE  /\ m(j) \in Present
             /\ m(j) = IF vals[j][1] \in {"template", "default"} THEN <<"template", j>> ELSE vals[j]
  <2>1. CASE vals[j] = <<"template", 0>>
    <3>1. vals[j][1] = "template"
      BY <2>1
    <3> QED
      BY <1>1, <3>1 DEF Present
  <2>2. CASE \E i \in Nat : vals[j] = <<"frame", i>>
    <3>1. vals[j][1] = "frame" /\ vals[j] \in Present
      BY <2>2 DEF Present
    <3> QED
      BY <3>1
  <2> QED
    BY <1>1, <2>1, <2>2
<1>3. Meant(s) = [j \in 1 .. n |-> m(j)]
  BY <1>2 DEF Meant, vals
<1> HIDE DEF n, m
<1>4. Meant(s) \in [1 .. n -> Present] /\ \A j \in 1 .. n : Meant(s)[j] = m(j)
  BY <1>2, <1>3
<1>5. Meant(s) \in Seq(Present) /\ Len(Meant(s)) = n
  BY <1>1, <1>4, SeqDef, LenProperties
<1> QED
  BY <1>4, <1>5 DEF m, n, vals

\* A raw step of right types: what its data and its overlays look like.
LEMMA OverlayLayout ==
  ASSUME NEW s, s.template.shape \in DOMAIN Fields, s.vals \in Overlays[s.template.shape]
  PROVE  LET shape == s.template.shape
             n == Len(s.vals)
             T == TemplateValues(n)
             q == Parts(shape, T)
         IN /\ n \in 0 .. 3 /\ n = Len(Fields[shape])
            /\ T \in Seq(Present) /\ Len(T) = n
            /\ TemplateData(s) = Encode(s.template.code, shape, T)
            /\ Len(TemplateData(s)) = 1 + Start(q, n + 1)
            /\ \A j \in 1 .. n :
                 /\ OverlayAt(s, j) = 1 + Start(q, j) + Past(Fields[shape][j])
                 /\ Len(q[j]) = Past(Fields[shape][j]) + Width[Fields[shape][j].ty]
<1> DEFINE shape == s.template.shape
           n == Len(s.vals)
           T == TemplateValues(n)
           q == Parts(shape, T)
<1>1. n \in 0 .. 3 /\ n \in Nat /\ n = Len(Fields[shape]) /\ shape \in DOMAIN Fields
  BY OverlayValues
<1>2. /\ TemplateData(s) = Encode(s.template.code, shape, T)
      /\ \A j : OverlayAt(s, j) = OffsetOf(shape, T, j)
  BY DEF TemplateData, OverlayAt, TemplateValues
<1> HIDE DEF shape, n
<1>3. T \in Seq(Present) /\ Len(T) = n
  BY <1>1, TemplateValuesShape
<1>4. Len(T) \in 0 .. Len(Fields[shape])
  BY <1>1, <1>3
<1> HIDE DEF T
<1>5. Len(Encode(s.template.code, shape, T)) = 1 + Start(q, n + 1)
  BY <1>1, <1>3, <1>4, EncodeLayout
<1>6. ASSUME NEW j \in 1 .. n
      PROVE  /\ OffsetOf(shape, T, j) = 1 + Start(q, j) + Past(Fields[shape][j])
             /\ Len(q[j]) = Past(Fields[shape][j]) + Width[Fields[shape][j].ty]
  <2>1. Len(Encode(0, shape, SubSeq(T, 1, j - 1))) = 1 + Start(q, j)
    BY <1>1, <1>3, <1>4, BeforeField
  <2>2. OffsetOf(shape, T, j) = 1 + Start(q, j) + Past(Fields[shape][j])
    BY <2>1 DEF OffsetOf, Past
  <2>3. Len(q[j]) = Past(Fields[shape][j]) + Width[Fields[shape][j].ty]
    BY <1>1, <1>3, PresentParts
  <2> QED
    BY <2>2, <2>3
<1> QED
  BY <1>1, <1>2, <1>3, <1>5, <1>6 DEF shape, n, T, q

\* An overlay of its field's type lies in the data.
LEMMA OverlayFits ==
  ASSUME NEW s, s.template.shape \in DOMAIN Fields, s.vals \in Overlays[s.template.shape],
         NEW j \in 1 .. Len(s.vals)
  PROVE  /\ OverlayAt(s, j) + Width[Fields[s.template.shape][j].ty] <= Len(TemplateData(s))
         /\ OverlayAt(s, j) \in Nat /\ Len(TemplateData(s)) \in Nat
<1> DEFINE shape == s.template.shape
           n == Len(s.vals)
           q == Parts(shape, TemplateValues(n))
           p == Past(Fields[shape][j])
           w == Width[Fields[shape][j].ty]
<1>1. /\ n \in 0 .. 3 /\ j \in 1 .. n /\ n = Len(Fields[shape])
      /\ Len(TemplateData(s)) = 1 + Start(q, n + 1)
      /\ OverlayAt(s, j) = 1 + Start(q, j) + p
      /\ \A i \in 1 .. n : Len(q[i]) = Past(Fields[shape][i]) + Width[Fields[shape][i].ty]
  BY OverlayLayout
<1>2. \A i \in 1 .. n : Past(Fields[shape][i]) \in {0, 1} /\ Width[Fields[shape][i].ty] \in Nat
  <2>1. \A i \in 1 .. n : Fields[shape][i] \in AnyField
    BY <1>1, FieldsShape
  <2> QED
    BY <2>1, AnyFieldShape DEF Past
<1>3. p \in {0, 1} /\ w \in Nat /\ Len(q[j]) = p + w /\ \A i \in 1 .. n : Len(q[i]) \in Nat
  BY <1>1, <1>2
<1> HIDE DEF q, n, p, w
<1>4. j \in 1 .. n + 1 /\ j + 1 \in 1 .. n + 1 /\ n + 1 \in 1 .. n + 1 /\ j + 1 <= n + 1
  BY <1>1
<1>5. /\ Start(q, j) \in Nat /\ Start(q, j + 1) = Start(q, j) + Len(q[j])
      /\ Start(q, n + 1) \in Nat /\ Start(q, j + 1) <= Start(q, n + 1)
  BY <1>1, <1>3, <1>4, StartOrder
<1>6. OverlayAt(s, j) + w <= Len(TemplateData(s))
  BY <1>1, <1>3, <1>5
<1>7. OverlayAt(s, j) \in Nat /\ Len(TemplateData(s)) \in Nat
  BY <1>1, <1>3, <1>5
<1> QED
  BY <1>6, <1>7 DEF w

\* The program refuses no overlay of its field's type for its place.
LEMMA FittingOverlays ==
  ASSUME NEW s, s.kind = "raw", s.template.shape \in DOMAIN Fields,
         s.vals \in Overlays[s.template.shape],
         OverlayError(s) = "PatchDataOutOfRange"
  PROVE  WrongOverlay(s)
<1> DEFINE n == Len(s.vals)
           Errors == {"Ok", "InvalidValueIndex", "PatchDataOutOfRange"}
           error(j) ==
             IF s.vals[j][1] # "frame" THEN "Ok"
             ELSE IF ~ Bound(s.vals[j]) THEN "InvalidValueIndex"
             ELSE IF OverlayAt(s, j) + Width[TypeAt(s.vals[j])] > Len(TemplateData(s))
                  THEN "PatchDataOutOfRange" ELSE "Ok"
           results == [j \in 1 .. n |-> error(j)]
<1>1. n \in Nat
  BY OverlayValues
<1>2. FirstError(results) = "PatchDataOutOfRange"
  BY DEF OverlayError
<1>3. \A j : error(j) \in Errors
  OBVIOUS
<1>4. \A j : error(j) = "PatchDataOutOfRange" =>
             /\ s.vals[j][1] = "frame"
             /\ OverlayAt(s, j) + Width[TypeAt(s.vals[j])] > Len(TemplateData(s))
  OBVIOUS
<1> HIDE DEF n, error, Errors
<1>5. results \in Seq(Errors) /\ Len(results) = n
  <2>1. results \in [1 .. n -> Errors]
    BY <1>3
  <2> HIDE DEF results
  <2> QED
    BY <1>1, <2>1, SeqDef, LenProperties
<1>6. \E j \in 1 .. n : error(j) = "PatchDataOutOfRange"
  <2> HIDE DEF results
  <2>1. \E j \in 1 .. n : results[j] = "PatchDataOutOfRange"
    BY <1>2, <1>5, FirstErrorIsOne
  <2> QED
    BY <2>1 DEF results
<1>7. PICK j \in 1 .. n : error(j) = "PatchDataOutOfRange"
  BY <1>6
<1>8. /\ s.vals[j][1] = "frame"
      /\ OverlayAt(s, j) + Width[TypeAt(s.vals[j])] > Len(TemplateData(s))
  BY <1>4, <1>7
<1>9. /\ OverlayAt(s, j) + Width[Fields[s.template.shape][j].ty] <= Len(TemplateData(s))
      /\ OverlayAt(s, j) \in Nat /\ Len(TemplateData(s)) \in Nat
      /\ Width[Fields[s.template.shape][j].ty] \in Nat
  <2>1. j \in 1 .. Len(s.vals) /\ Fields[s.template.shape][j] \in AnyField
    BY OverlayValues, FieldsShape DEF n
  <2> QED
    BY <2>1, OverlayFits, AnyFieldShape
<1>10. TypeAt(s.vals[j]) # Fields[s.template.shape][j].ty
  BY <1>8, <1>9
<1>11. ~ RightType(s.template.shape, s.vals, j)
  BY <1>8, <1>10 DEF RightType
<1> QED
  BY <1>11 DEF WrongOverlay, n

\* Whether overlay j of a step covers a byte.
Overlies(s, j, m) ==
  s.vals[j][1] = "frame" /\ m - OverlayAt(s, j) \in 1 .. Width[TypeAt(s.vals[j])]

\* A byte is the template's, or that of the one overlay that covers it.
LEMMA OverlaidByte ==
  ASSUME NEW s, NEW m \in 1 .. Len(TemplateData(s))
  PROVE  /\ (\A j \in 1 .. Len(s.vals) : ~ Overlies(s, j, m)) => Overlaid(s)[m] = TemplateData(s)[m]
         /\ \A j \in 1 .. Len(s.vals) :
              Overlies(s, j, m) /\ (\A i \in 1 .. Len(s.vals) : Overlies(s, i, m) => i = j) =>
                Overlaid(s)[m] = <<s.vals[j], m - OverlayAt(s, j)>>
<1> DEFINE over == {j \in 1 .. Len(s.vals) : Overlies(s, j, m)}
           top == CHOOSE j \in over : \A i \in over : i <= j
<1>1. Overlaid(s)[m] = IF over = {} THEN TemplateData(s)[m]
                       ELSE <<s.vals[top], m - OverlayAt(s, top)>>
  BY Zenon DEF Overlaid, Overlies
<1>2. ASSUME \A j \in 1 .. Len(s.vals) : ~ Overlies(s, j, m)
      PROVE  Overlaid(s)[m] = TemplateData(s)[m]
  <2>1. over = {}
    BY <1>2
  <2> HIDE DEF over, top
  <2> QED
    BY <1>1, <2>1
<1>3. ASSUME NEW j \in 1 .. Len(s.vals), Overlies(s, j, m),
             \A i \in 1 .. Len(s.vals) : Overlies(s, i, m) => i = j
      PROVE  Overlaid(s)[m] = <<s.vals[j], m - OverlayAt(s, j)>>
  <2>1. over = {j}
    BY <1>3
  <2>2. j <= j
    OBVIOUS
  <2> HIDE DEF over
  <2>3. top = j
    BY <2>1, <2>2
  <2>4. over # {}
    BY <2>1
  <2> HIDE DEF top
  <2> QED
    BY <1>1, <2>3, <2>4
<1> QED
  BY <1>2, <1>3

\* Overlays of the right types change their fields and nothing else
\* (apply_generic_patches).
LEMMA OverlaidAsMeant ==
  ASSUME NEW s, s.template.shape \in DOMAIN Fields, s.vals \in Overlays[s.template.shape],
         \A j \in 1 .. Len(s.vals) : RightType(s.template.shape, s.vals, j)
  PROVE  Overlaid(s) = Encode(s.template.code, s.template.shape, Meant(s))
<1> DEFINE shape == s.template.shape
           code == s.template.code
           n == Len(s.vals)
           T == TemplateValues(n)
           M == Meant(s)
           q == Parts(shape, T)
           r == Parts(shape, M)
           old == TemplateData(s)
           new == Encode(code, shape, M)
           p(j) == Past(Fields[shape][j])
           w(j) == Width[Fields[shape][j].ty]
           size == Start(q, n + 1)
<1>1. /\ n \in 0 .. 3 /\ n = Len(Fields[shape]) /\ shape \in DOMAIN Fields
      /\ T \in Seq(Present) /\ Len(T) = n
      /\ old = Encode(code, shape, T) /\ Len(old) = 1 + size
      /\ \A j \in 1 .. n : OverlayAt(s, j) = 1 + Start(q, j) + p(j)
  BY OverlayLayout
<1>2. /\ M \in Seq(Present) /\ Len(M) = n
      /\ \A j \in 1 .. n : M[j] = IF s.vals[j][1] = "frame" THEN s.vals[j] ELSE <<"template", j>>
  BY MeantShape
<1>3. \A j \in 1 .. n : T[j] = <<"template", j>>
  <2>1. n \in Nat
    BY <1>1
  <2> HIDE DEF n
  <2> QED
    BY <2>1, TemplateValuesShape
<1>4. \A j \in 1 .. n : s.vals[j][1] = "frame" => TypeAt(s.vals[j]) = Fields[shape][j].ty
  BY DEF RightType
<1> HIDE DEF n, T, M, shape, code
<1>5. \A j \in 1 .. n :
        /\ p(j) \in {0, 1} /\ w(j) \in Nat \ {0}
        /\ q[j] = FieldCells(T[j], Fields[shape][j]) /\ r[j] = FieldCells(M[j], Fields[shape][j])
        /\ Len(q[j]) = p(j) + w(j) /\ Len(r[j]) = p(j) + w(j)
        /\ p(j) = 1 => q[j][1] = <<<<"flag", 1>>, 1>> /\ r[j][1] = <<<<"flag", 1>>, 1>>
        /\ Holds(r[j], p(j), M[j], w(j))
  <2> SUFFICES ASSUME NEW j \in 1 .. n
               PROVE  /\ p(j) \in {0, 1} /\ w(j) \in Nat \ {0}
                      /\ q[j] = FieldCells(T[j], Fields[shape][j])
                      /\ r[j] = FieldCells(M[j], Fields[shape][j])
                      /\ Len(q[j]) = p(j) + w(j) /\ Len(r[j]) = p(j) + w(j)
                      /\ p(j) = 1 => q[j][1] = <<<<"flag", 1>>, 1>> /\ r[j][1] = <<<<"flag", 1>>, 1>>
                      /\ Holds(r[j], p(j), M[j], w(j))
    BY Zenon
  <2>1. /\ q[j] = FieldCells(T[j], Fields[shape][j]) /\ Len(q[j]) = p(j) + w(j)
        /\ p(j) = 1 => q[j][1] = <<<<"flag", 1>>, 1>>
    BY <1>1, PresentParts
  <2>2. /\ p(j) \in {0, 1} /\ w(j) \in Nat \ {0}
        /\ r[j] = FieldCells(M[j], Fields[shape][j]) /\ Len(r[j]) = p(j) + w(j)
        /\ p(j) = 1 => r[j][1] = <<<<"flag", 1>>, 1>>
        /\ Holds(r[j], p(j), M[j], w(j))
    BY <1>1, <1>2, PresentParts
  <2> QED
    BY <2>1, <2>2
<1>6. Len(T) \in 0 .. Len(Fields[shape]) /\ Len(M) \in 0 .. Len(Fields[shape])
  BY <1>1, <1>2
<1>7. /\ old \in Seq(CellOf(Present, code)) /\ old[1] = <<<<"code", code>>, 1>>
      /\ HasParts(old, q, n)
  <2> HIDE DEF old, q
  <2> QED
    BY <1>1, <1>6, EncodeLayout DEF q
<1>8. /\ new \in Seq(CellOf(Present, code)) /\ Len(new) = 1 + Start(r, n + 1)
      /\ new[1] = <<<<"code", code>>, 1>> /\ HasParts(new, r, n)
  BY <1>1, <1>2, <1>6, EncodeLayout
<1> HIDE DEF q, r, old, new, p, w
<1>9. \A j \in 1 .. n + 1 : Start(r, j) = Start(q, j)
  <2> SUFFICES ASSUME NEW j \in 1 .. n + 1 PROVE Start(r, j) = Start(q, j)
    OBVIOUS
  <2>1. j \in 1 .. 4 /\ \A i \in 1 .. j - 1 : i \in 1 .. n
    BY <1>1
  <2>2. \A i \in 1 .. j - 1 : Len(r[i]) = Len(q[i])
    BY <1>5, <2>1
  <2> QED
    BY <2>1, <2>2, StartOfEqual
<1>10. \A j \in 1 .. n : Len(q[j]) \in Nat
  BY <1>5
<1>11. /\ \A j \in 1 .. n + 1 : Start(q, j) \in Nat
       /\ \A j \in 1 .. n : Start(q, j + 1) = Start(q, j) + p(j) + w(j)
       /\ \A i, j \in 1 .. n + 1 : i <= j => Start(q, i) <= Start(q, j)
       /\ \A m \in 1 .. size : \E j \in 1 .. n : \E k \in 1 .. Len(q[j]) : m = Start(q, j) + k
  <2>1. /\ \A j \in 1 .. n + 1 : Start(q, j) \in Nat
        /\ \A j \in 1 .. n : Start(q, j + 1) = Start(q, j) + Len(q[j])
        /\ \A i, j \in 1 .. n + 1 : i <= j => Start(q, i) <= Start(q, j)
        /\ \A m \in 1 .. size : \E j \in 1 .. n : \E k \in 1 .. Len(q[j]) : m = Start(q, j) + k
    <3>1. n \in 0 .. 3
      BY <1>1
    <3> QED
      BY <1>10, <3>1, StartOrder, Zenon
  <2>2. ASSUME NEW j \in 1 .. n PROVE Start(q, j + 1) = Start(q, j) + p(j) + w(j)
    <3>1. Start(q, j + 1) = Start(q, j) + Len(q[j])
      BY <2>1
    <3>2. j \in 1 .. n + 1
      BY <1>1
    <3> QED
      BY <1>5, <2>1, <3>1, <3>2
  <2> QED
    BY <2>1, <2>2
<1>12. size \in Nat
  <2>1. n + 1 \in 1 .. n + 1
    BY <1>1
  <2> QED
    BY <1>11, <2>1
<1> HIDE DEF size
<1>13. Len(old) = 1 + size /\ Len(new) = 1 + size
  <2>1. n + 1 \in 1 .. n + 1
    BY <1>1
  <2> QED
    BY <1>1, <1>8, <1>9, <2>1 DEF size
<1>14. \A j \in 1 .. n : \A m \in Nat :
         Overlies(s, j, m) <=>
           s.vals[j][1] = "frame" /\ m - (1 + Start(q, j) + p(j)) \in 1 .. w(j)
  BY <1>1, <1>4 DEF Overlies, n, w
<1>15. ASSUME NEW j \in 1 .. n, NEW k \in 1 .. p(j) + w(j), NEW i \in 1 .. n,
              Overlies(s, i, At(q, j, k))
       PROVE  i = j
  <2> DEFINE m == At(q, j, k)
  <2>1. /\ p(j) \in {0, 1} /\ w(j) \in Nat /\ p(i) \in {0, 1} /\ w(i) \in Nat
        /\ Start(q, i) \in Nat /\ Start(q, j) \in Nat
        /\ i \in 1 .. n + 1 /\ j \in 1 .. n + 1 /\ i + 1 \in 1 .. n + 1 /\ j + 1 \in 1 .. n + 1
    BY <1>1, <1>5, <1>11
  <2>2. m \in Nat /\ m = 1 + Start(q, j) + k
    BY <2>1 DEF At
  <2>3. m - (1 + Start(q, i) + p(i)) \in 1 .. w(i)
    BY <1>14, <1>15, <2>2
  <2>4. Start(q, i + 1) = Start(q, i) + p(i) + w(i) /\ Start(q, j + 1) = Start(q, j) + p(j) + w(j)
    BY <1>11
  <2> HIDE DEF m
  <2>5. m > 1 + Start(q, i) /\ m <= 1 + Start(q, i + 1) /\ m > 1 + Start(q, j) /\ m <= 1 + Start(q, j + 1)
    <3>1. m > 1 + Start(q, i) /\ m <= 1 + Start(q, i + 1)
      <4> DEFINE a == Start(q, i)
                 b == p(i)
                 c == w(i)
                 e == Start(q, i + 1)
      <4>3. a \in Nat /\ b \in Nat /\ c \in Nat /\ m \in Nat
        BY <2>1, <2>2
      <4>4. e = a + b + c
        BY <2>4
      <4>5. m - (1 + a + b) \in 1 .. c
        BY <2>3
      <4>1. a \in Nat /\ b \in Nat /\ c \in Nat /\ e = a + b + c /\ m \in Nat
            /\ m - (1 + a + b) \in 1 .. c
        BY <4>3, <4>4, <4>5
      <4> HIDE DEF a, b, c, e
      <4>2. m > 1 + a /\ m <= 1 + e
        BY <4>1
      <4> QED
        BY <4>2 DEF a, e
    <3>2. m > 1 + Start(q, j) /\ m <= 1 + Start(q, j + 1)
      <4>1. k \in Nat /\ k >= 1 /\ k <= p(j) + w(j)
        BY <2>1
      <4> QED
        BY <2>1, <2>2, <2>4, <4>1, SMTT(30)
    <3> QED
      BY <3>1, <3>2
  <2>6. CASE i < j
    <3>1. Start(q, i + 1) <= Start(q, j) /\ Start(q, i + 1) \in Nat
      BY <1>11, <2>1, <2>6
    <3> QED
      BY <2>1, <2>2, <2>5, <3>1
  <2>7. CASE j < i
    <3>1. Start(q, j + 1) <= Start(q, i) /\ Start(q, j + 1) \in Nat
      BY <1>11, <2>1, <2>7
    <3> QED
      BY <2>1, <2>2, <2>5, <3>1
  <2> QED
    BY <2>1, <2>6, <2>7
<1>16. ASSUME NEW j \in 1 .. n, NEW k \in 1 .. p(j) + w(j)
       PROVE  Overlaid(s)[At(q, j, k)] = new[At(q, j, k)]
  <2> DEFINE m == At(q, j, k)
  <2>1. /\ p(j) \in {0, 1} /\ w(j) \in Nat /\ Start(q, j) \in Nat
        /\ j \in 1 .. n + 1 /\ j + 1 \in 1 .. n + 1 /\ n + 1 \in 1 .. n + 1 /\ j + 1 <= n + 1
    BY <1>1, <1>5, <1>11
  <2>2. m \in Nat /\ m = 1 + Start(q, j) + k /\ m \in 1 .. 1 + size
    <3>1. Start(q, j + 1) = Start(q, j) + p(j) + w(j) /\ Start(q, j + 1) <= size
      BY <1>11, <2>1 DEF size
    <3> QED
      BY <1>12, <2>1, <3>1 DEF At
  <2>3. old[m] = q[j][k] /\ new[m] = r[j][k]
    <3>1. k \in 1 .. Len(q[j]) /\ k \in 1 .. Len(r[j])
      BY <1>5
    <3>2. m = At(r, j, k)
      BY <1>9, <2>1 DEF At
    <3> HIDE DEF m
    <3>3. m = At(q, j, k)
      BY DEF m
    <3> QED
      BY <1>7, <1>8, <3>1, <3>2, <3>3, ZenonT(40) DEF HasParts
  <2>4. m \in 1 .. Len(TemplateData(s)) /\ \A i \in 1 .. n : Overlies(s, i, m) => i = j
    BY <1>13, <1>15, <2>2 DEF old
  <2>5. Overlies(s, j, m) <=> s.vals[j][1] = "frame" /\ k > p(j)
    <3>1. m - (1 + Start(q, j) + p(j)) \in 1 .. w(j) <=> k > p(j)
      <4> HIDE DEF m
      <4> QED
        BY <2>1, <2>2
    <3> QED
      BY <1>14, <2>2, <3>1
  <2>6. CASE s.vals[j][1] = "frame" /\ k > p(j)
    <3>1. Overlaid(s)[m] = <<s.vals[j], m - OverlayAt(s, j)>>
      BY <2>4, <2>5, <2>6, OverlaidByte DEF n
    <3>2. m - OverlayAt(s, j) = k - p(j)
      <4>1. OverlayAt(s, j) = 1 + Start(q, j) + p(j)
        BY <1>1
      <4>2. k \in Nat
        BY <2>1
      <4> HIDE DEF m
      <4> QED
        BY <2>1, <2>2, <4>1, <4>2
    <3>3. k - p(j) \in 1 .. w(j) /\ p(j) + (k - p(j)) = k
      BY <2>1, <2>6
    <3>4. r[j][k] = <<M[j], k - p(j)>>
      BY <1>5, <3>3 DEF Holds
    <3> QED
      BY <1>2, <2>3, <2>6, <3>1, <3>2, <3>4
  <2>7. ASSUME ~ (s.vals[j][1] = "frame" /\ k > p(j)) PROVE Overlaid(s)[m] = q[j][k]
    <3>1. \A i \in 1 .. n : ~ Overlies(s, i, m)
      BY <2>4, <2>5, <2>7
    <3> QED
      BY <2>3, <2>4, <3>1, OverlaidByte DEF n, old
  <2>8. CASE s.vals[j][1] = "frame" /\ ~ (k > p(j))
    <3>1. k = 1 /\ p(j) = 1
      BY <2>1, <2>8
    <3>2. q[j][k] = r[j][k]
      BY <1>5, <3>1
    <3> QED
      BY <2>3, <2>7, <2>8, <3>2
  <2>9. CASE s.vals[j][1] # "frame"
    <3>1. M[j] = T[j]
      BY <1>2, <1>3, <2>9
    <3>2. q[j] = r[j]
      BY <1>5, <3>1
    <3> QED
      BY <2>3, <2>7, <2>9, <3>2
  <2> QED
    BY <2>6, <2>8, <2>9
<1>17. Overlaid(s)[1] = new[1]
  <2>1. \A j \in 1 .. n : ~ Overlies(s, j, 1)
    <3> SUFFICES ASSUME NEW j \in 1 .. n, 1 - (1 + Start(q, j) + p(j)) \in 1 .. w(j) PROVE FALSE
      BY <1>14
    <3>1. p(j) \in {0, 1} /\ w(j) \in Nat /\ Start(q, j) \in Nat
      BY <1>1, <1>5, <1>11
    <3> QED
      BY <3>1
  <2>2. 1 \in 1 .. Len(TemplateData(s))
    BY <1>12, <1>13 DEF old
  <2>3. Overlaid(s)[1] = old[1]
    BY <2>1, <2>2, OverlaidByte DEF n, old
  <2> QED
    BY <1>7, <1>8, <2>3
<1>18. ASSUME NEW m \in 1 .. 1 + size PROVE Overlaid(s)[m] = new[m]
  <2>1. CASE m = 1
    BY <1>17, <2>1
  <2>2. CASE m # 1
    <3>1. m - 1 \in 1 .. size
      BY <1>12, <2>2
    <3>2. PICK j \in 1 .. n : \E k \in 1 .. Len(q[j]) : m - 1 = Start(q, j) + k
      BY <1>11, <3>1
    <3>3. PICK k \in 1 .. Len(q[j]) : m - 1 = Start(q, j) + k
      BY <3>2
    <3>4. k \in 1 .. p(j) + w(j) /\ Start(q, j) \in Nat /\ k \in Nat
      <4>1. p(j) \in Nat /\ w(j) \in Nat /\ Len(q[j]) = p(j) + w(j)
        BY <1>5
      <4>2. j \in 1 .. n + 1
        BY <1>1
      <4> QED
        BY <1>11, <4>1, <4>2
    <3>5. m = At(q, j, k)
      BY <1>12, <3>3, <3>4 DEF At
    <3> QED
      BY <1>16, <3>4, <3>5
  <2> QED
    BY <2>1, <2>2
<1>19. Overlaid(s) = [m \in 1 .. 1 + size |-> Overlaid(s)[m]]
  <2>1. Len(TemplateData(s)) = 1 + size
    BY <1>13 DEF old
  <2> QED
    BY <2>1 DEF Overlaid
<1>20. new = [m \in 1 .. 1 + size |-> new[m]]
  BY <1>8, <1>13, LenProperties
<1> QED
  BY <1>18, <1>19, <1>20 DEF new, code, shape, M

-----------------------------------------------------------------------------
(* Building.                                                               *)

\* The first occurrence of a program id in a list, if there is one, is one.
LEMMA StartIsProgram ==
  ASSUME NEW t, NEW S, NEW list \in Seq(S), StartOf(t, list) >= 0
  PROVE  /\ StartOf(t, list) \in Nat /\ StartOf(t, list) + 1 \in 1 .. Len(list)
         /\ list[StartOf(t, list) + 1] = t.program
<1> DEFINE I == {i \in 1 .. Len(list) : list[i] = t.program}
<1>1. StartOf(t, list) = (IF I # {} THEN Min(I) ELSE 0) - 1
  BY DEF StartOf, SelectInSeq
<1>2. I # {}
  BY <1>1
<1>3. Min(I) \in I
  <2>1. I \subseteq Nat
    OBVIOUS
  <2>2. \E x \in I : \A y \in I : x <= y
    BY <1>2, <2>1, NatMin
  <2> HIDE DEF I
  <2> QED
    BY <2>2 DEF Min
<1>4. Min(I) \in 1 .. Len(list) /\ list[Min(I)] = t.program
  BY <1>3
<1> HIDE DEF I
<1> QED
  BY <1>1, <1>2, <1>4

\* What a builder resolves lies in the list, over the template's accounts.
LEMMA ResolvedLies ==
  ASSUME NEW t, t.keys \in Seq(Account), NEW list \in Seq(Key), NEW kind,
         Resolves(kind, t, list)
  PROVE  LET start == StartOf(t, list)
             len == LengthOf(t, start, list)
         IN /\ start \in Nat /\ len \in Nat /\ 1 + Len(t.keys) <= len
            /\ start + len <= Len(list) /\ start < start + len
            /\ list[start + 1] = t.program
            /\ \/ sdk = "go" /\ kind = "structured"
               \/ \A j \in 1 .. Len(t.keys) : list[start + 1 + j] = t.keys[j]
<1> DEFINE start == StartOf(t, list)
           n == Len(t.keys)
           size == Len(list)
<1>1. start >= 0 /\ size - start >= 1 + n /\ KeysMatch(kind, t, start, list)
  BY DEF Resolves
<1>2. start \in Nat /\ list[start + 1] = t.program
  BY <1>1, StartIsProgram
<1>3. n \in Nat /\ size \in Nat
  BY LenProperties
<1>4. LengthOf(t, start, list) = 1 + n \/ LengthOf(t, start, list) = size - start
  BY DEF LengthOf
<1>5. \/ sdk = "go" /\ kind = "structured"
      \/ \A j \in 1 .. n : list[start + 1 + j] = t.keys[j]
  <2>1. CASE sdk = "go" /\ kind = "structured"
    BY <2>1
  <2>2. CASE ~ (sdk = "go" /\ kind = "structured")
    <3>1. SubSeq(list, start + 2, start + 1 + n) = t.keys
      BY <1>1, <2>2 DEF KeysMatch
    <3> DEFINE m == start + 1
    <3>2. start + 2 = m + 1 /\ m \in Nat /\ start + 1 + n = m + n
      BY <1>2, <1>3
    <3> HIDE DEF start, n, size
    <3>3. m + n <= Len(list)
      BY <1>1, <1>2, <1>3 DEF size
    <3> HIDE DEF m
    <3>4. \A j \in 1 .. n : SubSeq(list, m + 1, m + n)[j] = list[m + j]
      BY <1>3, <3>2, <3>3, SubSeqAt
    <3> QED
      BY <3>1, <3>2, <3>4 DEF m
  <2> QED
    BY <2>1, <2>2
<1> DEFINE len == LengthOf(t, start, list)
<1> HIDE DEF start, n, size, len
<1>6. len = 1 + n \/ len = size - start
  BY <1>4 DEF len
<1>7. len \in Nat /\ 1 + n <= len /\ start + len <= size /\ start < start + len
  BY <1>1, <1>2, <1>3, <1>6
<1> QED
  BY <1>2, <1>5, <1>7 DEF start, n, size, len

\* The list of a first step is made for it, the next ones share it.
LEMMA ListForType ==
  ASSUME NEW t, t.keys \in Seq(Account), t.program \in Program, remaining \in Seq(Key)
  PROVE  ListFor(t) \in Seq(Key)
<1>1. t.keys \in Seq(Key) /\ <<t.program>> \in Seq(Key)
  BY SeqMonotonic DEF Key
<1>2. <<t.program>> \o t.keys \in Seq(Key)
  BY <1>1, ConcatProperties
<1> QED
  BY <1>2 DEF ListFor

\* Values of a patch, one for each field.
LEMMA PatchLengths ==
  ASSUME NEW shape \in DOMAIN Fields, NEW vals, vals \in Patches[shape] \cup Overlays[shape]
  PROVE  /\ Len(vals) \in Nat /\ Len(vals) = Len(Fields[shape])
         /\ \E S : vals \in Seq(S)
<1> DEFINE n == Len(Fields[shape])
<1>1. n \in Nat
  BY FieldsShape
<1>2. \E S : vals \in [1 .. n -> S]
  <2>1. CASE vals \in Patches[shape]
    <3> DEFINE any == UNION {Values(s, j) : s \in {"frame", "literal", "none", "default"}, j \in 1 .. n}
    <3>1. vals \in PatchesOf(shape)
      BY <2>1 DEF Patches
    <3>2. vals \in [1 .. n -> any]
      BY <3>1 DEF PatchesOf
    <3> HIDE DEF any
    <3> QED
      BY <3>2
  <2>2. CASE vals \in Overlays[shape]
    BY <2>2 DEF Overlays
  <2> QED
    BY <2>1, <2>2
<1>3. PICK S : vals \in [1 .. n -> S]
  BY <1>2
<1> HIDE DEF n
<1>4. vals \in Seq(S)
  BY <1>1, <1>3, SeqDef
<1>5. Len(vals) = n
  BY <1>1, <1>3, <1>4, LenProperties
<1> QED
  BY <1>1, <1>4, <1>5 DEF n

-----------------------------------------------------------------------------
(* The invariant while an arm is built.                                    *)

\* A list that grows leaves the steps over it where they are.
LEMMA StillLies ==
  ASSUME NEW c, NEW old, NEW list, NEW s, LiesIn(c, old, s), s.template.keys \in Seq(Account),
         Len(old) \in Nat, Len(list) \in Nat,
         \/ Len(old) = 0
         \/ /\ Len(old) <= Len(list)
            /\ \A p \in 1 .. Len(old) : list[p] = old[p]
  PROVE  LiesIn(c, list, s)
<1>1. CASE s.placed
  BY <1>1 DEF LiesIn
<1>2. CASE ~ s.placed
  <2> DEFINE n == Len(s.template.keys)
             from == s.start
             m == Len(old)
  <2>1. /\ from \in Nat /\ s.len \in Nat /\ 1 + n <= s.len /\ from + s.len <= m
        /\ old[from + 1] = s.template.program
        /\ \/ c.sdk = "go" /\ s.kind = "structured"
           \/ \A j \in 1 .. n : old[from + 1 + j] = s.template.keys[j]
    BY <1>2 DEF LiesIn
  <2>2. n \in Nat /\ m \in Nat
    BY LenProperties
  <2> HIDE DEF n, from, m
  <2>3. m # 0 /\ from + 1 \in 1 .. m /\ \A j \in 1 .. n : from + 1 + j \in 1 .. m
    BY <2>1, <2>2
  <2>4. /\ m <= Len(list)
        /\ \A p \in 1 .. m : list[p] = old[p]
    BY <2>3 DEF m
  <2>5. list[from + 1] = s.template.program
    BY <2>1, <2>3, <2>4
  <2>6. \/ c.sdk = "go" /\ s.kind = "structured"
        \/ \A j \in 1 .. n : list[from + 1 + j] = s.template.keys[j]
    BY <2>1, <2>3, <2>4
  <2>7. from + s.len <= Len(list)
    BY <2>1, <2>2, <2>4
  <2> QED
    BY <1>2, <2>1, <2>5, <2>6, <2>7 DEF LiesIn, n, from
<1> QED
  BY <1>1, <1>2

\* What the invariant says of the parts that a step of building leaves alone.
LEMMA BuildingInv ==
  ASSUME CpiInv, phase = "building", phase' \in {"building", "running"},
         client' = client, invoked' = invoked,
         remaining' \in Seq(Key),
         Len(steps') \in Nat, steps' = [n \in 1 .. Len(steps') |-> steps'[n]],
         Len(steps') <= client.maxSteps,
         \A n \in 1 .. Len(steps') :
           /\ steps'[n].kind \in {"static", "raw", "structured"}
           /\ steps'[n].template \in client.templates
           /\ LiesIn(client, remaining', steps'[n]) /\ Filled(steps'[n])
  PROVE  CpiInv'
<1>1. invoked' = <<>> /\ Len(invoked') = 0 /\ invoked' = [n \in 1 .. Len(invoked') |-> invoked'[n]]
  <2>1. invoked' = <<>>
    BY DEF CpiInv
  <2> QED
    BY <2>1
<1>2. ASSUME NEW n \in 1 .. Len(steps'), ~ steps'[n].placed
      PROVE  /\ steps'[n].start + steps'[n].len <= Len(remaining')
             /\ steps'[n].start < steps'[n].start + steps'[n].len
  <2> DEFINE s == steps'[n]
  <2>1. /\ s.start \in Nat /\ s.len \in Nat /\ s.start + s.len <= Len(remaining')
        /\ 1 + Len(s.template.keys) <= s.len
    BY <1>2 DEF LiesIn
  <2>2. Len(s.template.keys) \in Nat
    BY CpiStepsAssumption, LenProperties DEF CpiInv, CpiTypeOK
  <2> HIDE DEF s
  <2>3. s.start < s.start + s.len
    BY <2>1, <2>2
  <2> QED
    BY <2>1, <2>3 DEF s
<1>3. CpiTypeOK'
  <2>1. client' \in Client /\ remaining' \in Seq(Account \cup Program)
    BY DEF CpiInv, CpiTypeOK, Key
  <2>2. Len(steps') <= client'.maxSteps /\ Len(invoked') <= Len(steps')
    BY <1>1
  <2> QED
    BY <1>2, <2>1, <2>2 DEF CpiTypeOK, InRange
<1>4. BuiltIsAccepted'
  BY DEF BuiltIsAccepted, PlacesAreAccepted
<1>5. StructuredIsForProgram' /\ PatchedAsMeant'
  BY <1>1 DEF StructuredIsForProgram, PatchedAsMeant, FieldsAreTyped
<1>6. \A n \in 1 .. Len(steps') : LiesIn(client', remaining', steps'[n]) /\ Filled(steps'[n])
  OBVIOUS
<1> QED
  BY <1>1, <1>3, <1>4, <1>5, <1>6 DEF CpiInv

\* A step of any builder.
LEMMA BuildInv ==
  ASSUME CpiInv, NEW t \in client.templates,
         NEW kind \in {"static", "raw", "structured"}, NEW v, v.shape \in DOMAIN Fields,
         NEW inferred, inferred => v.program = t.program,
         NEW patches,
         \A vals \in patches :
           /\ kind = "structured" => vals \in Patches[v.shape]
           /\ kind # "structured" => v.shape = t.shape /\ vals \in Overlays[v.shape]
           /\ kind = "static" => vals = Unpatched(v.shape),
         Build(kind, t, v, patches, inferred)
  PROVE  CpiInv'
<1> DEFINE list == ListFor(t)
           start == StartOf(t, list)
           len == LengthOf(t, start, list)
<1>1. /\ phase = "building" /\ Len(steps) < client.maxSteps
      /\ Resolves(kind, t, list) /\ remaining' = list
      /\ client' = client /\ phase' = phase /\ invoked' = invoked
  BY DEF Build
<1>2. PICK vals \in patches :
        steps' = Append(steps,
          [ kind |-> kind, template |-> t, variant |-> v, vals |-> vals,
            inferred |-> inferred, placed |-> FALSE, start |-> start, len |-> len ])
  BY DEF Build
<1> DEFINE s == [ kind |-> kind, template |-> t, variant |-> v, vals |-> vals,
                  inferred |-> inferred, placed |-> FALSE, start |-> start, len |-> len ]
<1>3. /\ s.kind = kind /\ s.template = t /\ s.variant = v /\ s.vals = vals
      /\ s.inferred = inferred /\ s.placed = FALSE /\ s.start = start /\ s.len = len
      /\ DOMAIN s = StepField
  BY DEF StepField
<1>4. /\ client \in Client /\ remaining \in Seq(Key)
      /\ Len(steps) \in Nat /\ steps = [n \in 1 .. Len(steps) |-> steps[n]]
  BY DEF CpiInv, CpiTypeOK, Key
<1>5. /\ t.keys \in Seq(Account) /\ t.program \in Program /\ client.maxSteps \in Nat
  BY <1>4, CpiStepsAssumption DEF ClientType
<1> HIDE DEF list, start, len, s
<1>6. list \in Seq(Key)
  BY <1>4, <1>5, ListForType DEF list
<1>7. /\ start \in Nat /\ len \in Nat /\ 1 + Len(t.keys) <= len
      /\ start + len <= Len(list) /\ start < start + len
      /\ list[start + 1] = t.program
      /\ \/ sdk = "go" /\ kind = "structured"
         \/ \A j \in 1 .. Len(t.keys) : list[start + 1 + j] = t.keys[j]
  BY <1>1, <1>5, <1>6, ResolvedLies DEF start, len
<1>8. Filled(s)
  BY <1>3 DEF Filled
<1>9. LiesIn(client, remaining', s)
  BY <1>1, <1>3, <1>7 DEF LiesIn, sdk
<1>10. /\ Len(steps') = Len(steps) + 1 /\ steps' = [n \in 1 .. Len(steps') |-> steps'[n]]
       /\ steps'[Len(steps) + 1] = s
       /\ \A n \in 1 .. Len(steps) : steps'[n] = steps[n]
  BY <1>2, <1>4, AppendShape DEF s
<1>11. remaining = <<>> \/ remaining' = remaining
  BY <1>1 DEF ListFor, list
<1>12. Len(remaining) \in Nat /\ Len(remaining') \in Nat
  BY <1>1, <1>4, <1>6, LenProperties
<1>13. Len(remaining) = 0 \/ remaining' = remaining
  BY <1>11
<1>14. ASSUME NEW n \in 1 .. Len(steps')
       PROVE  /\ steps'[n].kind \in {"static", "raw", "structured"}
              /\ steps'[n].template \in client.templates
              /\ LiesIn(client, remaining', steps'[n]) /\ Filled(steps'[n])
  <2>1. CASE n \in 1 .. Len(steps)
    <3>1. /\ steps[n].kind \in {"static", "raw", "structured"} /\ Filled(steps[n])
          /\ steps[n].template \in client.templates /\ LiesIn(client, remaining, steps[n])
      BY <2>1 DEF CpiInv, CpiTypeOK
    <3>2. steps[n].template.keys \in Seq(Account)
      BY <1>4, <3>1, CpiStepsAssumption
    <3>3. LiesIn(client, remaining', steps[n])
      BY <1>12, <1>13, <3>1, <3>2, StillLies
    <3> QED
      BY <1>10, <2>1, <3>1, <3>3
  <2>2. CASE n = Len(steps) + 1
    BY <1>3, <1>8, <1>9, <1>10, <2>2
  <2> QED
    BY <1>4, <1>10, <2>1, <2>2
<1> QED
  BY <1>1, <1>4, <1>5, <1>6, <1>10, <1>14, BuildingInv


\* The four builders.
LEMMA BuildersInv ==
  ASSUME CpiInv, NEW t \in client.templates,
         \/ BuildStatic(t)
         \/ BuildRaw(t)
         \/ BuildInferred(t)
         \/ \E v \in client.variants : BuildNamed(t, v)
  PROVE  CpiInv'
<1>1. client.variants \subseteq Registry /\ t.shape \in DOMAIN Fields
  BY CpiStepsAssumption DEF CpiInv, CpiTypeOK
<1>2. \A v \in Registry : v.shape \in DOMAIN Fields
  BY DEF Registry, Fields
<1>3. AsVariant(t).shape = t.shape /\ AsVariant(t).program = t.program
  BY DEF AsVariant
<1>0. Unpatched(t.shape) \in Overlays[t.shape]
  BY <1>1 DEF Unpatched, Overlays
<1>4. ASSUME BuildStatic(t) PROVE CpiInv'
  <2> DEFINE patches == {Unpatched(t.shape)}
             v == AsVariant(t)
  <2>1. Build("static", t, v, patches, FALSE)
    BY <1>4 DEF BuildStatic
  <2>2. \A vals \in patches :
          v.shape = t.shape /\ vals \in Overlays[v.shape] /\ vals = Unpatched(v.shape)
    BY <1>0, <1>3
  <2>3. v.shape \in DOMAIN Fields
    BY <1>1, <1>3
  <2> HIDE DEF patches, v
  <2> QED
    BY <2>1, <2>2, <2>3, BuildInv
<1>5. ASSUME BuildRaw(t) PROVE CpiInv'
  <2> DEFINE patches == Overlays[t.shape] \ {Unpatched(t.shape)}
             v == AsVariant(t)
  <2>1. Build("raw", t, v, patches, FALSE)
    BY <1>5 DEF BuildRaw
  <2>2. \A vals \in patches : v.shape = t.shape /\ vals \in Overlays[v.shape]
    BY <1>3
  <2>3. v.shape \in DOMAIN Fields
    BY <1>1, <1>3
  <2> HIDE DEF patches, v
  <2> QED
    BY <2>1, <2>2, <2>3, BuildInv
<1>6. ASSUME NEW v \in Registry, NEW inferred, inferred => v.program = t.program,
             Build("structured", t, v, Patches[v.shape], inferred)
      PROVE  CpiInv'
  <2> DEFINE patches == Patches[v.shape]
  <2>1. \A vals \in patches : vals \in Patches[v.shape]
    OBVIOUS
  <2>2. Build("structured", t, v, patches, inferred)
    BY <1>6
  <2>3. v.shape \in DOMAIN Fields
    BY <1>2
  <2> HIDE DEF patches
  <2> QED
    BY <1>6, <2>1, <2>2, <2>3, BuildInv
<1>7. ASSUME BuildInferred(t) PROVE CpiInv'
  <2>1. \A v \in Infer(t) : v \in Registry /\ v.program = t.program
    BY DEF Infer
  <2> QED
    BY <1>6, <1>7, <2>1 DEF BuildInferred
<1>8. ASSUME NEW v \in client.variants, BuildNamed(t, v) PROVE CpiInv'
  BY <1>1, <1>6, <1>8 DEF BuildNamed
<1> QED
  BY <1>4, <1>5, <1>7, <1>8

\* A list that is extended.
LEMMA AddAccountInv ==
  ASSUME CpiInv, NEW k \in Key, AddAccount(k)
  PROVE  CpiInv'
<1>1. /\ phase = "building" /\ phase' = phase /\ client' = client /\ invoked' = invoked
      /\ steps' = steps /\ remaining' = Append(remaining, k)
  BY DEF AddAccount
<1>2. /\ client \in Client /\ remaining \in Seq(Key)
      /\ Len(steps) \in Nat /\ steps = [n \in 1 .. Len(steps) |-> steps[n]]
      /\ Len(steps) <= client.maxSteps
  BY DEF CpiInv, CpiTypeOK, Key
<1>3. /\ remaining' \in Seq(Key) /\ Len(remaining') = Len(remaining) + 1
      /\ \A p \in 1 .. Len(remaining) : remaining'[p] = remaining[p]
  BY <1>1, <1>2, AppendProperties
<1>4. Len(remaining) \in Nat /\ Len(remaining') \in Nat /\ Len(remaining) <= Len(remaining')
  BY <1>2, <1>3, LenProperties
<1>5. ASSUME NEW n \in 1 .. Len(steps)
      PROVE  /\ steps[n].kind \in {"static", "raw", "structured"}
             /\ steps[n].template \in client.templates
             /\ LiesIn(client, remaining', steps[n]) /\ Filled(steps[n])
  <2>1. /\ steps[n].kind \in {"static", "raw", "structured"} /\ Filled(steps[n])
        /\ steps[n].template \in client.templates /\ LiesIn(client, remaining, steps[n])
    BY DEF CpiInv, CpiTypeOK
  <2>2. steps[n].template.keys \in Seq(Account)
    BY <1>2, <2>1, CpiStepsAssumption
  <2> QED
    BY <1>3, <1>4, <2>1, <2>2, StillLies
<1> QED
  BY <1>1, <1>2, <1>3, <1>5, BuildingInv

\* A step that is placed.
LEMMA PlacedStep ==
  ASSUME NEW s, DOMAIN s = StepField, NEW start, NEW len
  PROVE  LET r == [s EXCEPT !.start = start, !.len = len, !.placed = TRUE]
         IN /\ DOMAIN r = StepField /\ r.start = start /\ r.len = len /\ r.placed = TRUE
            /\ r.kind = s.kind /\ r.template = s.template /\ r.variant = s.variant
            /\ r.vals = s.vals /\ r.inferred = s.inferred
BY DEF StepField

LEMMA PlaceByHandInv ==
  ASSUME CpiInv, NEW start \in Nat, NEW len \in Nat, PlaceByHand(start, len)
  PROVE  CpiInv'
<1> DEFINE last == Len(steps)
           s == steps[last]
           r == [s EXCEPT !.start = start, !.len = len, !.placed = TRUE]
<1>1. /\ phase = "building" /\ phase' = phase /\ client' = client /\ invoked' = invoked
      /\ steps # <<>> /\ remaining' = remaining
  BY DEF PlaceByHand
<1>2. steps' = [steps EXCEPT ![last] = r]
  BY DEF PlaceByHand
<1>3. /\ client \in Client /\ remaining \in Seq(Key)
      /\ last \in Nat /\ steps = [n \in 1 .. last |-> steps[n]] /\ last <= client.maxSteps
  BY DEF CpiInv, CpiTypeOK, Key
<1>4. last \in 1 .. last
  <2>1. last # 0
    <3> SUFFICES ASSUME Len(steps) = 0 PROVE FALSE
      OBVIOUS
    <3>1. steps = [n \in 1 .. 0 |-> steps[n]]
      BY <1>3
    <3>2. steps = <<>>
      BY <3>1
    <3> QED
      BY <1>1, <3>2
  <2> QED
    BY <1>3, <2>1
<1>5. \A n \in 1 .. last :
        /\ steps[n].kind \in {"static", "raw", "structured"}
        /\ steps[n].template \in client.templates /\ LiesIn(client, remaining, steps[n])
        /\ Filled(steps[n])
  BY DEF CpiInv, CpiTypeOK
<1>6. LiesIn(client, remaining, s) /\ Filled(s)
  BY <1>4, <1>5
<1>7. /\ DOMAIN r = StepField /\ r.start = start /\ r.len = len /\ r.placed = TRUE
      /\ r.kind = s.kind /\ r.template = s.template /\ r.variant = s.variant
      /\ r.vals = s.vals /\ r.inferred = s.inferred
  <2>1. DOMAIN s = StepField
    BY <1>6 DEF LiesIn
  <2> HIDE DEF s
  <2> QED
    BY <2>1, PlacedStep
<1> HIDE DEF s, r
<1>8. LiesIn(client, remaining, r) /\ Filled(r)
  BY <1>6, <1>7 DEF LiesIn, Filled
<1> HIDE DEF last
<1>9. /\ steps' = [n \in 1 .. last |-> steps'[n]] /\ steps'[last] = r
      /\ \A n \in 1 .. last : n # last => steps'[n] = steps[n]
  BY <1>2, <1>3, <1>4
<1>10. Len(steps') = last
  BY <1>3, <1>9
<1>11. \A n \in 1 .. last :
        /\ steps'[n].kind \in {"static", "raw", "structured"}
        /\ steps'[n].template \in client.templates /\ LiesIn(client, remaining', steps'[n])
        /\ Filled(steps'[n])
  BY <1>1, <1>4, <1>5, <1>7, <1>8, <1>9 DEF s
<1> QED
  BY <1>1, <1>3, <1>9, <1>10, <1>11, BuildingInv

LEMMA SendInv ==
  ASSUME CpiInv, Send
  PROVE  CpiInv'
BY BuildingInv DEF Send, CpiInv, CpiTypeOK, Key


-----------------------------------------------------------------------------
(* What stops a step.                                                      *)

\* What assembling a structured step says of its program and of its values.
LEMMA AssembleErrors ==
  ASSUME NEW s, Len(s.vals) \in Nat
  PROVE  /\ AssembleError(s) = "Ok" =>
              /\ Slice(s)[1] = s.variant.program
              /\ \A j \in 1 .. Len(s.vals) : RightType(s.variant.shape, s.vals, j)
         /\ AssembleError(s) \notin {"InvalidAccountRange", "PatchDataOutOfRange"}
         /\ AssembleError(s) = "InvalidStructuredCpiProgram" => Slice(s)[1] # s.variant.program
<1> DEFINE n == Len(s.vals)
           reads == [j \in 1 .. n |-> ReadTyped(s.vals[j], Fields[s.variant.shape][j])]
           own == ProgramError(s)
           Errors == {"Ok", "InvalidValueIndex", "LoadTypeMismatch", "InvalidStructuredCpiProgram"}
           results == IF s.variant.program \in {System, Stake} THEN <<own>> \o reads
                      ELSE Append(reads, own)
<1>1. AssembleError(s) = FirstError(results)
  BY DEF AssembleError
<1>2. own \in Errors
  BY DEF ProgramError
<1>3. \A v, f : ReadTyped(v, f) \in Errors \ {"InvalidStructuredCpiProgram"}
  BY DEF ReadTyped
<1>4. reads \in Seq(Errors) /\ Len(reads) = n
  <2>1. reads \in [1 .. n -> Errors]
    BY <1>3
  <2> HIDE DEF reads, Errors
  <2> QED
    BY <2>1, SeqDef, LenProperties
<1>5. /\ results \in Seq(Errors)
      /\ \E p \in 1 .. Len(results) : results[p] = own
      /\ \A j \in 1 .. n : \E p \in 1 .. Len(results) : results[p] = reads[j]
      /\ \A p \in 1 .. Len(results) : results[p] = own \/ \E j \in 1 .. n : results[p] = reads[j]
  <2> HIDE DEF reads, own, Errors
  <2>0. n \in Nat
    OBVIOUS
  <2>1. ASSUME results = <<own>> \o reads
        PROVE  /\ results \in Seq(Errors) /\ Len(results) = n + 1 /\ results[1] = own
               /\ \A j \in 1 .. n : results[j + 1] = reads[j]
    <3> HIDE DEF results
    <3> QED
      BY <1>2, <1>4, <2>1, PrependProperties
  <2>2. ASSUME results = Append(reads, own)
        PROVE  /\ results \in Seq(Errors) /\ Len(results) = n + 1 /\ results[n + 1] = own
               /\ \A j \in 1 .. n : results[j] = reads[j]
    <3> HIDE DEF results
    <3> QED
      BY <1>2, <1>4, <2>2, AppendProperties
  <2>3. results = <<own>> \o reads \/ results = Append(reads, own)
    OBVIOUS
  <2> HIDE DEF results
  <2>4. CASE results = <<own>> \o reads
    <3>1. \A p \in 1 .. n + 1 : p = 1 \/ (p - 1 \in 1 .. n /\ p = (p - 1) + 1)
      OBVIOUS
    <3>2. \A p \in 1 .. n + 1 : results[p] = own \/ \E j \in 1 .. n : results[p] = reads[j]
      BY <2>1, <2>4, <3>1
    <3>3. 1 \in 1 .. n + 1 /\ \A j \in 1 .. n : j + 1 \in 1 .. n + 1
      OBVIOUS
    <3> QED
      BY <2>1, <2>4, <3>2, <3>3
  <2>5. CASE results = Append(reads, own)
    <3>1. \A p \in 1 .. n + 1 : p = n + 1 \/ p \in 1 .. n
      OBVIOUS
    <3>2. \A p \in 1 .. n + 1 : results[p] = own \/ \E j \in 1 .. n : results[p] = reads[j]
      BY <2>2, <2>5, <3>1
    <3>3. n + 1 \in 1 .. n + 1 /\ \A j \in 1 .. n : j \in 1 .. n + 1
      OBVIOUS
    <3> QED
      BY <2>2, <2>5, <3>2, <3>3
  <2> QED
    BY <2>3, <2>4, <2>5
<1>6. \A j \in 1 .. n : reads[j] \in Errors \ {"InvalidStructuredCpiProgram"}
  BY <1>3
<1>7. ASSUME AssembleError(s) = "Ok"
      PROVE  /\ Slice(s)[1] = s.variant.program
             /\ \A j \in 1 .. n : RightType(s.variant.shape, s.vals, j)
  <2>1. own = "Ok" /\ \A j \in 1 .. n : reads[j] = "Ok"
    <3> HIDE DEF own, reads, results, n, Errors
    <3>1. \A p \in 1 .. Len(results) : results[p] = "Ok"
      BY <1>1, <1>5, <1>7, FirstErrorIsOne
    <3> QED
      BY <1>5, <3>1
  <2>2. Slice(s)[1] = s.variant.program
    BY <2>1 DEF ProgramError
  <2>3. ASSUME NEW j \in 1 .. n PROVE RightType(s.variant.shape, s.vals, j)
    <3>1. ReadTyped(s.vals[j], Fields[s.variant.shape][j]) = "Ok"
      BY <2>1
    <3> QED
      BY <3>1 DEF ReadTyped, RightType
  <2> QED
    BY <2>2, <2>3
<1>8. AssembleError(s) # "Ok" =>
        AssembleError(s) = own \/ \E j \in 1 .. n : AssembleError(s) = reads[j]
  <2> HIDE DEF own, reads, results, n, Errors
  <2> QED
    BY <1>1, <1>5, FirstErrorIsOne
<1>9. AssembleError(s) \in Errors
  <2> HIDE DEF own, reads, results, n
  <2> QED
    BY <1>2, <1>6, <1>8
<1>10. AssembleError(s) = "InvalidStructuredCpiProgram" => Slice(s)[1] # s.variant.program
  <2>1. AssembleError(s) = "InvalidStructuredCpiProgram" => own = "InvalidStructuredCpiProgram"
    <3> HIDE DEF own, reads, results, n
    <3> QED
      BY <1>6, <1>8
  <2> QED
    BY <2>1 DEF ProgramError
<1> QED
  BY <1>7, <1>9, <1>10


\* The overlays of a raw step fail for their values only.
LEMMA OverlayErrors ==
  ASSUME NEW s, Len(s.vals) \in Nat
  PROVE  OverlayError(s) \in {"Ok", "InvalidValueIndex", "PatchDataOutOfRange"}
<1> DEFINE n == Len(s.vals)
           Errors == {"Ok", "InvalidValueIndex", "PatchDataOutOfRange"}
           results == [j \in 1 .. n |->
             IF s.vals[j][1] # "frame" THEN "Ok"
             ELSE IF ~ Bound(s.vals[j]) THEN "InvalidValueIndex"
             ELSE IF OverlayAt(s, j) + Width[TypeAt(s.vals[j])] > Len(TemplateData(s))
                  THEN "PatchDataOutOfRange" ELSE "Ok"]
<1>1. results \in [1 .. n -> Errors]
  OBVIOUS
<1>2. OverlayError(s) = FirstError(results)
  BY DEF OverlayError
<1>3. n \in Nat
  OBVIOUS
<1> HIDE DEF results, n
<1>4. results \in Seq(Errors)
  <2> HIDE DEF Errors
  <2> QED
    BY <1>1, <1>3, SeqDef
<1>5. \A p \in 1 .. Len(results) : results[p] \in Errors
  BY <1>4, ElementOfSeq
<1>6. FirstError(results) \in Errors
  BY <1>4, <1>5, FirstErrorIsOne
<1> QED
  BY <1>2, <1>6

\* What each answer to a step says of it.
LEMMA StepErrors ==
  ASSUME NEW s, s.kind \in {"static", "raw", "structured"}, Len(s.vals) \in Nat
  PROVE  /\ StepError(s) = "Ok" =>
              /\ InRange(s)
              /\ s.kind = "structured" =>
                   /\ Slice(s)[1] = s.variant.program
                   /\ \A j \in 1 .. Len(s.vals) : RightType(s.variant.shape, s.vals, j)
         /\ StepError(s) = "InvalidAccountRange" => ~ InRange(s)
         /\ StepError(s) = "InvalidStructuredCpiProgram" =>
              s.kind = "structured" /\ InRange(s) /\ Slice(s)[1] # s.variant.program
         /\ StepError(s) = "PatchDataOutOfRange" =>
              s.kind = "raw" /\ OverlayError(s) = "PatchDataOutOfRange"
<1>1. CASE s.kind = "static"
  BY <1>1 DEF StepError
<1>2. CASE s.kind = "raw"
  <2> DEFINE place == IF InRange(s) THEN "Ok" ELSE "InvalidAccountRange"
             own == OverlayError(s)
             results == <<own, place>>
  <2>1. StepError(s) = FirstError(results)
    BY <1>2 DEF StepError
  <2>2. own \in {"Ok", "InvalidValueIndex", "PatchDataOutOfRange"}
    BY OverlayErrors
  <2>3. place = "Ok" <=> InRange(s)
    OBVIOUS
  <2>4. place \in {"Ok", "InvalidAccountRange"}
    OBVIOUS
  <2> HIDE DEF place, own
  <2>5. /\ results \in Seq({own, place}) /\ Len(results) = 2
        /\ results[1] = own /\ results[2] = place /\ 1 \in 1 .. 2 /\ 2 \in 1 .. 2
        /\ \A p \in 1 .. 2 : results[p] = own \/ results[p] = place
    OBVIOUS
  <2> HIDE DEF results
  <2>6. StepError(s) = "Ok" => place = "Ok"
    BY <2>1, <2>5, FirstErrorIsOne
  <2>7. StepError(s) # "Ok" => StepError(s) = own \/ StepError(s) = place
    BY <2>1, <2>5, FirstErrorIsOne
  <2> QED
    BY <1>2, <2>2, <2>3, <2>4, <2>6, <2>7 DEF own
<1>3. CASE s.kind = "structured"
  <2>1. StepError(s) = IF InRange(s) THEN AssembleError(s) ELSE "InvalidAccountRange"
    BY <1>3 DEF StepError
  <2> QED
    BY <1>3, <2>1, AssembleErrors
<1> QED
  BY <1>1, <1>2, <1>3

\* The first account of a step's slice is the one it starts at.
LEMMA SliceOfStep ==
  ASSUME remaining \in Seq(Key), NEW s, s.start \in Nat, s.len \in Nat, InRange(s)
  PROVE  /\ Slice(s) \in Seq(Key) /\ Len(Slice(s)) = s.len /\ s.len # 0
         /\ \A j \in 1 .. s.len : Slice(s)[j] = remaining[s.start + j]
         /\ Slice(s)[1] = remaining[s.start + 1]
<1>1. s.start + s.len <= Len(remaining) /\ s.len # 0
  BY DEF InRange
<1> DEFINE m == s.start
           k == s.len
<1>2. m \in Nat /\ k \in Nat /\ m + k <= Len(remaining)
  BY <1>1
<1> HIDE DEF m, k
<1>3. /\ SubSeq(remaining, m + 1, m + k) \in Seq(Key) /\ Len(SubSeq(remaining, m + 1, m + k)) = k
      /\ \A j \in 1 .. k : SubSeq(remaining, m + 1, m + k)[j] = remaining[m + j]
  BY <1>2, SubSeqAt
<1>4. 1 \in 1 .. k
  BY <1>1, <1>2 DEF k
<1> QED
  BY <1>1, <1>3, <1>4 DEF Slice, m, k

\* The values of a step, one for each field of its variant.
LEMMA FilledLengths ==
  ASSUME NEW s, s.kind \in {"static", "raw", "structured"}, Filled(s)
  PROVE  /\ s.variant.shape \in DOMAIN Fields
         /\ Len(s.vals) \in Nat /\ Len(s.vals) = Len(Fields[s.variant.shape])
         /\ \E S : s.vals \in Seq(S)
<1>1. s.variant.shape \in DOMAIN Fields
  BY DEF Filled
<1>2. s.vals \in Patches[s.variant.shape] \cup Overlays[s.variant.shape]
  BY DEF Filled
<1> QED
  BY <1>1, <1>2, PatchLengths

\* The data of a step owes to its values what it is meant to.
LEMMA DataHoldsMeant ==
  ASSUME NEW s, s.kind \in {"static", "raw", "structured"}, Filled(s)
  PROVE  HoldsMeant(s, DataOf(s))
<1> DEFINE shape == s.variant.shape
           vals == s.vals
           n == Len(vals)
<1>1. shape \in DOMAIN Fields /\ n \in Nat /\ n = Len(Fields[shape]) /\ \E S : vals \in Seq(S)
  BY FilledLengths
<1>2. CASE s.kind = "structured"
  <2>1. DataOf(s) = Encode(s.variant.code, shape, vals)
    BY <1>2 DEF DataOf, Assemble
  <2>2. PICK S : vals \in Seq(S)
    BY <1>1
  <2>3. ASSUME NEW j \in 1 .. n PROVE Carries(DataOf(s), shape, vals, j)
    <3> HIDE DEF shape, vals
    <3>1. n \in 0 .. Len(Fields[shape])
      BY <1>1
    <3> QED
      BY <1>1, <2>1, <2>2, <3>1, AssembledCarries
  <2> QED
    BY <1>2, <2>3 DEF HoldsMeant
<1>3. CASE s.kind = "static"
  <2>1. vals = Unpatched(shape) /\ shape = s.template.shape
    BY <1>3 DEF Filled
  <2>2. \A j \in 1 .. n : vals[j] = <<"template", 0>>
    BY <1>1, <2>1 DEF Unpatched
  <2>3. \A j \in 1 .. n : vals[j][1] = "template"
    BY <2>2
  <2>4. Meant(s) = [j \in 1 .. n |-> <<"template", j>>]
    BY <2>3 DEF Meant
  <2>5. DataOf(s) = Encode(s.template.code, shape, [j \in 1 .. n |-> <<"template", j>>])
    BY <1>3, <2>1 DEF DataOf, TemplateData
  <2> QED
    BY <1>3, <2>4, <2>5 DEF HoldsMeant
<1>4. CASE s.kind = "raw"
  <2>1. shape = s.template.shape /\ vals \in Overlays[s.template.shape]
    BY <1>4 DEF Filled
  <2>2. DataOf(s) = Overlaid(s)
    BY <1>4 DEF DataOf
  <2>3. ASSUME \A j \in 1 .. n : RightType(shape, vals, j)
        PROVE  DataOf(s) = Encode(s.template.code, shape, Meant(s))
    BY <1>1, <2>1, <2>2, <2>3, OverlaidAsMeant
  <2> QED
    BY <1>4, <2>3 DEF HoldsMeant
<1> QED
  BY <1>2, <1>3, <1>4

-----------------------------------------------------------------------------
(* The invariant while an arm runs.                                        *)

\* A step that no hand has placed, and whose variant is inferred, is for the
\* program at its start.
LEMMA PlacesStayAccepted ==
  ASSUME CpiInv, NEW n \in 1 .. Len(steps),
         \/ StepError(steps[n]) = "InvalidAccountRange"
         \/ StepError(steps[n]) = "InvalidStructuredCpiProgram"
  PROVE  steps[n].placed \/ (steps[n].kind = "structured" /\ ~ steps[n].inferred)
<1> DEFINE s == steps[n]
<1>1. /\ s.kind \in {"static", "raw", "structured"}
      /\ ~ s.placed => InRange(s)
      /\ LiesIn(client, remaining, s) /\ Filled(s) /\ remaining \in Seq(Key)
  BY DEF CpiInv, CpiTypeOK, Key
<1>2. StepError(s) = "InvalidAccountRange" \/ StepError(s) = "InvalidStructuredCpiProgram"
  OBVIOUS
<1> HIDE DEF s
<1>3. Len(s.vals) \in Nat /\ s.start \in Nat /\ s.len \in Nat
  BY <1>1, FilledLengths DEF LiesIn
<1>4. CASE StepError(s) = "InvalidAccountRange"
  BY <1>1, <1>3, <1>4, StepErrors DEF s
<1>5. CASE StepError(s) = "InvalidStructuredCpiProgram"
  <2>1. s.kind = "structured" /\ InRange(s) /\ Slice(s)[1] # s.variant.program
    BY <1>1, <1>3, <1>5, StepErrors
  <2>2. Slice(s)[1] = remaining[s.start + 1]
    BY <1>1, <1>3, <2>1, SliceOfStep
  <2>3. ~ s.placed => remaining[s.start + 1] = s.template.program
    BY <1>1 DEF LiesIn
  <2>4. s.inferred => s.variant.program = s.template.program
    BY <1>1 DEF LiesIn
  <2> QED
    BY <2>1, <2>2, <2>3, <2>4 DEF s
<1> QED
  BY <1>2, <1>4, <1>5

\* An overlay that runs over the end of the data is of a wrong type.
LEMMA OverlaysStayAccepted ==
  ASSUME CpiInv, NEW n \in 1 .. Len(steps), StepError(steps[n]) = "PatchDataOutOfRange"
  PROVE  WrongOverlay(steps[n])
<1> DEFINE s == steps[n]
<1>1. s.kind \in {"static", "raw", "structured"} /\ Filled(s)
  BY DEF CpiInv, CpiTypeOK
<1>2. StepError(s) = "PatchDataOutOfRange"
  OBVIOUS
<1> HIDE DEF s
<1>3. s.kind = "raw" /\ OverlayError(s) = "PatchDataOutOfRange"
  BY <1>1, <1>2, FilledLengths, StepErrors
<1>4. s.template.shape \in DOMAIN Fields /\ s.vals \in Overlays[s.template.shape]
  BY <1>1, <1>3 DEF Filled
<1>5. WrongOverlay(s)
  BY <1>3, <1>4, FittingOverlays
<1> QED
  BY <1>5 DEF s

\* The properties of the invoked instructions, one by one.
LEMMA NowHeld ==
  ASSUME client' = client, steps' = steps,
         \A n \in 1 .. Len(invoked') :
           /\ steps[n].kind = "structured" =>
                /\ invoked'[n].program = steps[n].variant.program
                /\ \A j \in 1 .. Len(steps[n].vals) : RightType(steps[n].variant.shape, steps[n].vals, j)
           /\ HoldsMeant(steps[n], invoked'[n].data)
  PROVE  StructuredIsForProgram' /\ PatchedAsMeant'
<1>1. \A shape, vals, j : RightType(shape, vals, j)' <=> RightType(shape, vals, j)
  BY DEF RightType, Bound, TypeAt, types
<1>2. StructuredIsForProgram'
  BY DEF StructuredIsForProgram
<1>3. FieldsAreTyped'
  BY <1>1 DEF FieldsAreTyped
<1>4. (\A n \in 1 .. Len(invoked) : HoldsMeant(steps[n], invoked[n].data))'
  BY DEF HoldsMeant, RightType, Bound, TypeAt, types
<1> QED
  BY <1>2, <1>3, <1>4 DEF PatchedAsMeant

\* What the properties say of the invoked instructions stays true of them.
LEMMA HeldStays ==
  ASSUME CpiInv, client' = client, steps' = steps,
         \A n \in 1 .. Len(invoked') : n \in 1 .. Len(invoked) /\ invoked'[n] = invoked[n]
  PROVE  StructuredIsForProgram' /\ PatchedAsMeant'
<1>1. /\ \A n \in 1 .. Len(invoked) :
            /\ steps[n].kind = "structured" =>
                 /\ invoked[n].program = steps[n].variant.program
                 /\ \A j \in 1 .. Len(steps[n].vals) : RightType(steps[n].variant.shape, steps[n].vals, j)
            /\ HoldsMeant(steps[n], invoked[n].data)
  BY DEF CpiInv, StructuredIsForProgram, PatchedAsMeant, FieldsAreTyped
<1> QED
  BY <1>1, NowHeld

\* The transaction fails or ends: nothing is left invoked, or all of it.
LEMMA StopInv ==
  ASSUME CpiInv, phase' # "building",
         client' = client, remaining' = remaining, steps' = steps,
         invoked' = <<>> \/ invoked' = invoked,
         BuiltIsAccepted'
  PROVE  CpiInv'
<1>1. /\ CpiTypeOK' /\ Len(invoked') \in Nat
      /\ invoked' = [n \in 1 .. Len(invoked') |-> invoked'[n]]
  <2>1. Len(invoked') \in Nat /\ Len(invoked') <= Len(steps)
    <3>1. Len(invoked) \in Nat /\ Len(steps) \in Nat /\ Len(invoked) <= Len(steps)
      BY DEF CpiInv, CpiTypeOK
    <3>2. invoked' = <<>> => Len(invoked') = 0
      OBVIOUS
    <3> QED
      BY <3>1, <3>2
  <2>2. invoked' = [n \in 1 .. Len(invoked') |-> invoked'[n]]
    <3>1. CASE invoked' = <<>>
      BY <3>1
    <3>2. CASE invoked' = invoked
      BY <3>2 DEF CpiInv
    <3> QED
      BY <3>1, <3>2
  <2>3. CpiTypeOK'
    BY <2>1 DEF CpiInv, CpiTypeOK, InRange
  <2> QED
    BY <2>1, <2>2, <2>3
<1>2. \A n \in 1 .. Len(invoked') : n \in 1 .. Len(invoked) /\ invoked'[n] = invoked[n]
  OBVIOUS
<1>3. (\A n \in 1 .. Len(invoked) : InvokedLies(steps[n], invoked[n]))'
  BY <1>2 DEF CpiInv, InvokedLies, InRange, Slice
<1>4. StructuredIsForProgram' /\ PatchedAsMeant'
  BY <1>2, HeldStays
<1>5. (\A n \in 1 .. Len(steps) : LiesIn(client, remaining, steps[n]) /\ Filled(steps[n]))'
  BY DEF CpiInv
<1>6. Len(steps') \in Nat /\ steps' = [n \in 1 .. Len(steps') |-> steps'[n]]
  BY DEF CpiInv
<1> QED
  BY <1>1, <1>3, <1>4, <1>5, <1>6 DEF CpiInv

LEMMA InvokeInv ==
  ASSUME CpiInv, Invoke
  PROVE  CpiInv'
<1> DEFINE m == Len(invoked) + 1
           s == NextStep
<1>1. /\ phase = "running" /\ Len(invoked) < Len(steps)
      /\ client' = client /\ remaining' = remaining /\ steps' = steps
  BY DEF Invoke
<1>2. /\ Len(invoked) \in Nat /\ Len(steps) \in Nat
      /\ invoked = [n \in 1 .. Len(invoked) |-> invoked[n]]
  BY DEF CpiInv
<1>3. m \in 1 .. Len(steps) /\ s = steps[m]
  BY <1>1, <1>2 DEF NextStep
<1>4. /\ s.kind \in {"static", "raw", "structured"}
      /\ LiesIn(client, remaining, s) /\ Filled(s) /\ remaining \in Seq(Key)
  BY <1>3 DEF CpiInv, CpiTypeOK, Key
<1>5. Len(s.vals) \in Nat
  <2> HIDE DEF s
  <2> QED
    BY <1>4, FilledLengths
<1>6. CASE StepError(s) # "Ok"
  <2>1. phase' = StepError(s) /\ invoked' = <<>>
    BY <1>6 DEF Invoke
  <2>2. PlacesAreAccepted'
    <3> SUFFICES ASSUME phase' \in {"InvalidAccountRange", "InvalidStructuredCpiProgram"}
                 PROVE  \E n \in 1 .. Len(steps) :
                          steps[n].placed \/ (steps[n].kind = "structured" /\ ~ steps[n].inferred)
      BY <1>1 DEF PlacesAreAccepted
    <3> QED
      BY <1>3, <2>1, PlacesStayAccepted
  <2>6. BuiltIsAccepted'
    <3>1. ASSUME phase' = "PatchDataOutOfRange" PROVE WrongOverlay(steps[m])
      BY <1>3, <2>1, <3>1, OverlaysStayAccepted
    <3>2. \A n : WrongOverlay(steps[n])' <=> WrongOverlay(steps[n])
      BY <1>1 DEF WrongOverlay, RightType, Bound, TypeAt, types
    <3> QED
      BY <1>1, <1>3, <2>2, <3>1, <3>2 DEF BuiltIsAccepted
  <2>3. (\A n \in 1 .. Len(steps) : LiesIn(client, remaining, steps[n]) /\ Filled(steps[n]))'
    BY <1>1 DEF CpiInv
  <2>4. CpiTypeOK' /\ Len(steps') \in Nat /\ steps' = [n \in 1 .. Len(steps') |-> steps'[n]]
    BY <1>1, <2>1 DEF CpiInv, CpiTypeOK, InRange
  <2>5. StructuredIsForProgram' /\ PatchedAsMeant'
    BY <2>1 DEF StructuredIsForProgram, PatchedAsMeant, FieldsAreTyped
  <2>7. \A n \in 1 .. Len(invoked') : FALSE
    BY <2>1
  <2> QED
    BY <1>1, <2>1, <2>3, <2>4, <2>5, <2>6, <2>7 DEF CpiInv
<1>7. CASE StepError(s) = "Ok"
  <2> DEFINE i == [ program |-> Slice(s)[1], keys |-> Tail(Slice(s)), data |-> DataOf(s) ]
  <2>1. invoked' = Append(invoked, i) /\ phase' = phase
    BY <1>7 DEF Invoke
  <2>2. i.program = Slice(s)[1] /\ i.keys = Tail(Slice(s)) /\ i.data = DataOf(s)
    OBVIOUS
  <2> HIDE DEF i
  <2>3. /\ Len(invoked') = m /\ invoked' = [n \in 1 .. Len(invoked') |-> invoked'[n]]
        /\ invoked'[m] = i /\ \A n \in 1 .. Len(invoked) : invoked'[n] = invoked[n]
    BY <1>2, <2>1, AppendShape
  <2>4. /\ InRange(s)
        /\ s.kind = "structured" =>
             /\ Slice(s)[1] = s.variant.program
             /\ \A j \in 1 .. Len(s.vals) : RightType(s.variant.shape, s.vals, j)
    BY <1>4, <1>5, <1>7, StepErrors
  <2>5. \A n \in 1 .. Len(invoked') : n \in 1 .. Len(invoked) \/ n = m
    BY <1>2, <2>3
  <2> HIDE DEF s, m
  <2>6. \A n \in 1 .. Len(invoked') : InvokedLies(steps[n], invoked'[n])
    <3>1. ASSUME NEW n \in 1 .. Len(invoked) PROVE InvokedLies(steps[n], invoked'[n])
      BY <2>3 DEF CpiInv
    <3>2. InvokedLies(steps[m], invoked'[m])
      BY <1>3, <2>2, <2>3, <2>4 DEF InvokedLies
    <3> QED
      BY <2>5, <3>1, <3>2
  <2>7. \A n \in 1 .. Len(invoked') :
          /\ steps[n].kind = "structured" =>
               /\ invoked'[n].program = steps[n].variant.program
               /\ \A j \in 1 .. Len(steps[n].vals) : RightType(steps[n].variant.shape, steps[n].vals, j)
          /\ HoldsMeant(steps[n], invoked'[n].data)
    <3>1. ASSUME NEW n \in 1 .. Len(invoked)
          PROVE  /\ steps[n].kind = "structured" =>
                      /\ invoked'[n].program = steps[n].variant.program
                      /\ \A j \in 1 .. Len(steps[n].vals) : RightType(steps[n].variant.shape, steps[n].vals, j)
                 /\ HoldsMeant(steps[n], invoked'[n].data)
      BY <2>3 DEF CpiInv, StructuredIsForProgram, PatchedAsMeant, FieldsAreTyped
    <3>2. HoldsMeant(steps[m], invoked'[m].data)
      BY <1>3, <1>4, <2>2, <2>3, DataHoldsMeant
    <3> QED
      BY <1>3, <2>2, <2>3, <2>4, <2>5, <3>1, <3>2
  <2>8. (\A n \in 1 .. Len(invoked) : InvokedLies(steps[n], invoked[n]))'
    BY <1>1, <2>6 DEF InvokedLies, InRange, Slice
  <2>9. StructuredIsForProgram' /\ PatchedAsMeant'
    BY <1>1, <2>7, NowHeld
  <2>10. CpiTypeOK'
    <3>1. Len(invoked') <= Len(steps')
      BY <1>1, <1>2, <2>3 DEF m
    <3> QED
      BY <1>1, <3>1 DEF CpiInv, CpiTypeOK, InRange
  <2>11. /\ Len(invoked') \in Nat /\ phase' # "building"
         /\ Len(steps') \in Nat /\ steps' = [n \in 1 .. Len(steps') |-> steps'[n]]
    BY <1>1, <1>2, <1>3, <2>1, <2>3 DEF CpiInv
  <2>12. (\A n \in 1 .. Len(steps) : LiesIn(client, remaining, steps[n]) /\ Filled(steps[n]))'
    BY <1>1 DEF CpiInv
  <2>13. BuiltIsAccepted'
    BY <1>1, <2>1 DEF BuiltIsAccepted, PlacesAreAccepted
  <2> QED
    BY <2>3, <2>8, <2>9, <2>10, <2>11, <2>12, <2>13 DEF CpiInv
<1> QED
  BY <1>6, <1>7


LEMMA CpiInitInv == CpiInit => CpiInv
<1> SUFFICES ASSUME CpiInit PROVE CpiInv
  OBVIOUS
<1>1. /\ client \in Client /\ remaining = <<>> /\ steps = <<>> /\ invoked = <<>>
      /\ phase = "building" /\ Len(steps) = 0 /\ Len(invoked) = 0
  BY DEF CpiInit
<1>2. client.maxSteps \in Nat
  BY <1>1, CpiStepsAssumption DEF ClientType
<1>3. CpiTypeOK
  BY <1>1, <1>2 DEF CpiTypeOK
<1>4. StructuredIsForProgram /\ PatchedAsMeant /\ BuiltIsAccepted
  BY <1>1 DEF StructuredIsForProgram, PatchedAsMeant, FieldsAreTyped, BuiltIsAccepted, PlacesAreAccepted
<1>5. steps = [n \in 1 .. Len(steps) |-> steps[n]] /\ invoked = [n \in 1 .. Len(invoked) |-> invoked[n]]
  BY <1>1
<1> QED
  BY <1>1, <1>3, <1>4, <1>5 DEF CpiInv

LEMMA CpiStep == CpiInv /\ [CpiNext]_cpiVars => CpiInv'
<1> SUFFICES ASSUME CpiInv, [CpiNext]_cpiVars PROVE CpiInv'
  OBVIOUS
<1>1. client \in Client
  BY DEF CpiInv, CpiTypeOK
<1>2. CASE \E t \in client.templates : BuildStatic(t) \/ BuildRaw(t) \/ BuildInferred(t)
  BY <1>2, BuildersInv
<1>3. CASE \E t \in client.templates, v \in client.variants : BuildNamed(t, v)
  BY <1>3, BuildersInv
<1>4. CASE \E k \in Account \cup {t.program : t \in client.templates} : AddAccount(k)
  <2>1. \A k \in Account \cup {t.program : t \in client.templates} : k \in Key
    BY <1>1, CpiStepsAssumption DEF Key
  <2> QED
    BY <1>4, <2>1, AddAccountInv
<1>5. CASE \E p \in client.places : PlaceByHand(p[1], p[2])
  <2>1. \A p \in client.places : p[1] \in Nat /\ p[2] \in Nat
    BY <1>1, CpiStepsAssumption
  <2> QED
    BY <1>5, <2>1, PlaceByHandInv
<1>6. CASE Send
  BY <1>6, SendInv
<1>7. CASE Invoke
  BY <1>7, InvokeInv
<1>8. CASE CalleeFails
  <2>1. BuiltIsAccepted'
    BY <1>8 DEF CalleeFails, BuiltIsAccepted, PlacesAreAccepted
  <2> QED
    BY <1>8, <2>1, StopInv DEF CalleeFails
<1>9. CASE Finish
  <2>1. BuiltIsAccepted'
    BY <1>9 DEF Finish, BuiltIsAccepted, PlacesAreAccepted
  <2> QED
    BY <1>9, <2>1, StopInv DEF Finish
<1>10. CASE UNCHANGED cpiVars
  <2>1. StructuredIsForProgram' /\ PatchedAsMeant'
    BY <1>10, HeldStays DEF cpiVars
  <2>2. BuiltIsAccepted'
    BY <1>10 DEF cpiVars, CpiInv, BuiltIsAccepted, PlacesAreAccepted, WrongOverlay, RightType,
                 Bound, TypeAt, types
  <2>3. (\A n \in 1 .. Len(invoked) : InvokedLies(steps[n], invoked[n]))'
    BY <1>10 DEF cpiVars, CpiInv, InvokedLies, InRange, Slice
  <2>4. CpiTypeOK'
    BY <1>10 DEF cpiVars, CpiInv, CpiTypeOK, InRange
  <2> QED
    BY <1>10, <2>1, <2>2, <2>3, <2>4 DEF cpiVars, CpiInv
<1> QED
  BY <1>2, <1>3, <1>4, <1>5, <1>6, <1>7, <1>8, <1>9, <1>10 DEF CpiNext

-----------------------------------------------------------------------------
(* Theorems.                                                               *)

\* Where steps lie, and what was checked of the invoked ones, for any clients,
\* templates and lists (resolveCpiRemaining, invoke_cpi).
THEOREM CpiInvariance == CpiSpec => []CpiInv
BY CpiInitInv, CpiStep, PTL DEF CpiSpec

\* Structured data never reaches a program that it was not laid out for,
\* however the step was built or placed (assemble_structured_cpi).
THEOREM StructuredForProgram == CpiSpec => []StructuredIsForProgram
<1>1. CpiInv => StructuredIsForProgram
  BY DEF CpiInv
<1> QED
  BY <1>1, CpiInvariance, PTL

\* The data of an invoked instruction holds what its client meant, for any
\* widths, shapes and values (apply_generic_patches, assemble_structured_cpi).
THEOREM PatchesAsMeant == CpiSpec => []PatchedAsMeant
<1>1. CpiInv => PatchedAsMeant
  BY DEF CpiInv
<1> QED
  BY <1>1, CpiInvariance, PTL

\* The program refuses nothing that a builder accepted, except for a place or
\* a variant that the client chose, or an overlay of another type than its
\* field (resolveCpiRemaining against invoke_cpi).
THEOREM BuildersAccepted == CpiSpec => []BuiltIsAccepted
<1>1. CpiInv => BuiltIsAccepted
  BY DEF CpiInv
<1> QED
  BY <1>1, CpiInvariance, PTL

\* A built step invokes its template's program with its template's accounts,
\* when no client uses the structured builder of the Go SDK, which only counts
\* them (resolveCpiRemaining, resolve_cpi_remaining).
THEOREM TemplatesReach ==
  (\A c \in Client : c.sdk # "go") => (CpiSpec => []AccountsAreTemplates)
<1> SUFFICES ASSUME \A c \in Client : c.sdk # "go" PROVE CpiSpec => []AccountsAreTemplates
  OBVIOUS
<1>1. CpiInv => AccountsAreTemplates
  <2> SUFFICES ASSUME CpiInv, NEW n \in 1 .. Len(invoked), ~ steps[n].placed
               PROVE  /\ invoked[n].program = steps[n].template.program
                      /\ IsPrefix(steps[n].template.keys, invoked[n].keys)
    BY DEF AccountsAreTemplates
  <2> DEFINE s == steps[n]
             i == invoked[n]
             t == s.template
  <2>1. n \in 1 .. Len(steps) /\ client \in Client /\ remaining \in Seq(Key)
    BY DEF CpiInv, CpiTypeOK, Key
  <2>2. t \in client.templates /\ LiesIn(client, remaining, s) /\ InvokedLies(s, i)
    BY <2>1 DEF CpiInv, CpiTypeOK
  <2>3. t.keys \in Seq(Account) /\ Len(t.keys) \in Nat
    BY <2>1, <2>2, CpiStepsAssumption, LenProperties
  <2> HIDE DEF s, i
  <2>4. /\ s.start \in Nat /\ s.len \in Nat /\ 1 + Len(t.keys) <= s.len
        /\ remaining[s.start + 1] = t.program
        /\ \A j \in 1 .. Len(t.keys) : remaining[s.start + 1 + j] = t.keys[j]
    BY <2>1, <2>2 DEF LiesIn, s
  <2>5. InRange(s) /\ i.program = Slice(s)[1] /\ i.keys = Tail(Slice(s))
    BY <2>2 DEF InvokedLies
  <2>6. /\ Slice(s) \in Seq(Key) /\ Len(Slice(s)) = s.len /\ s.len # 0
        /\ \A j \in 1 .. s.len : Slice(s)[j] = remaining[s.start + j]
        /\ Slice(s)[1] = remaining[s.start + 1]
    BY <2>1, <2>4, <2>5, SliceOfStep
  <2>7. /\ i.keys \in Seq(Key) /\ Len(i.keys) = s.len - 1
        /\ \A j \in 1 .. s.len - 1 : i.keys[j] = Slice(s)[j + 1]
    <3>1. Slice(s) # <<>>
      BY <2>6
    <3> QED
      BY <2>5, <2>6, <3>1, HeadTailProperties
  <2> DEFINE k == Len(t.keys)
             from == s.start
             len == s.len
             keys == t.keys
  <2>8. from \in Nat /\ len \in Nat /\ k \in Nat /\ 1 + k <= len
    BY <2>3, <2>4
  <2> HIDE DEF k, from, len, keys, t
  <2>9. \A j \in 1 .. k : i.keys[j] = keys[j]
    <3> SUFFICES ASSUME NEW j \in 1 .. k PROVE i.keys[j] = keys[j]
      OBVIOUS
    <3>1. j \in 1 .. len - 1 /\ j + 1 \in 1 .. len /\ from + (j + 1) = from + 1 + j
      BY <2>8
    <3>2. i.keys[j] = Slice(s)[j + 1]
      BY <2>7, <3>1 DEF len
    <3>3. Slice(s)[j + 1] = remaining[from + (j + 1)]
      BY <2>6, <3>1 DEF len, from
    <3>4. remaining[from + 1 + j] = keys[j]
      BY <2>4 DEF from, keys, k
    <3> QED
      BY <3>1, <3>2, <3>3, <3>4
  <2>10. k <= Len(i.keys)
    BY <2>7, <2>8 DEF len
  <2>11. SubSeq(keys, 1, k) = SubSeq(i.keys, 1, k)
    <3>1. keys \in Seq(Account) /\ Len(keys) = k
      BY <2>3 DEF keys, k
    <3>2. /\ SubSeq(keys, 0 + 1, 0 + k) \in Seq(Account) /\ Len(SubSeq(keys, 0 + 1, 0 + k)) = k
          /\ \A j \in 1 .. k : SubSeq(keys, 0 + 1, 0 + k)[j] = keys[0 + j]
      BY <2>8, <3>1, SubSeqAt
    <3>3. /\ SubSeq(i.keys, 0 + 1, 0 + k) \in Seq(Key) /\ Len(SubSeq(i.keys, 0 + 1, 0 + k)) = k
          /\ \A j \in 1 .. k : SubSeq(i.keys, 0 + 1, 0 + k)[j] = i.keys[0 + j]
      BY <2>7, <2>8, <2>10, SubSeqAt
    <3>4. 0 + 1 = 1 /\ 0 + k = k /\ \A j \in 1 .. k : 0 + j = j
      BY <2>8
    <3>5. SubSeq(keys, 1, k) \in Seq(Key)
      BY <3>2, <3>4, SeqMonotonic DEF Key
    <3> QED
      BY <2>9, <3>2, <3>3, <3>4, <3>5, SeqEqual
  <2>12. IsPrefix(keys, i.keys)
    BY <2>10, <2>11 DEF IsPrefix, k, keys
  <2> QED
    BY <2>4, <2>5, <2>6, <2>12 DEF s, i, t, keys
<1> QED
  BY <1>1, CpiInvariance, PTL


=============================================================================
