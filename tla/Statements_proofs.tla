--------------------------- MODULE Statements_proofs ---------------------------
(***************************************************************************)
(* Proofs about Statements, for all widths of the types and all clients.   *)
(*                                                                         *)
(* Every expression that is read behaves (Language_proofs), and keeps its  *)
(* answer when values are appended to the Frame's (AnswerAlike); so do the *)
(* checks, the lines of the log and the bounds that are made of them.      *)
(* StatementsInv is the inductive invariant, with one lemma for each       *)
(* action of the program.                                                  *)
(*                                                                         *)
(* First, what a client writes is read back: Restoring(reader, w, v) says  *)
(* that the reader takes the bytes w for v, whatever follows them.         *)
(***************************************************************************)
EXTENDS Statements, Language_proofs

-----------------------------------------------------------------------------
(* What is written is what is read.                                        *)

LEMMA SpellsParts ==
  ASSUME NEW w, NEW rest, NEW b, Spells(w, rest, b)
  PROVE  /\ b \in Seq(Byte) /\ rest \in Seq(Byte) /\ Len(w) \in 0 .. Len(b)
         /\ Leading(b, Len(w)) = w /\ Behind(b, Len(w)) = rest
<1> DEFINE n == Len(w)
           u == Leading(b, n)
           v == Behind(b, n)
<1>1. w \in Seq(Byte) /\ rest \in Seq(Byte) /\ w \o rest = b
  BY DEF Spells
<1>2. n \in Nat /\ Len(rest) \in Nat
  BY <1>1, LenProperties
<1>3. /\ b \in Seq(Byte) /\ Len(b) = n + Len(rest)
      /\ \A k \in 1 .. n : b[k] = w[k]
      /\ \A k \in 1 .. Len(rest) : b[n + k] = rest[k]
  <2>1. w \o rest \in Seq(Byte) /\ Len(w \o rest) = Len(w) + Len(rest)
    BY <1>1, ConcatProperties
  <2>2. /\ \A k \in 1 .. Len(w) : (w \o rest)[k] = w[k]
        /\ \A k \in 1 .. Len(rest) : (w \o rest)[Len(w) + k] = rest[k]
    BY <1>1, <1>2, <2>1, ConcatLayout
  <2> QED
    BY <1>1, <2>1, <2>2
<1>4. n \in 0 .. Len(b) /\ Len(b) - n = Len(rest)
  BY <1>2, <1>3
<1>5. /\ u \in Seq(Byte) /\ Len(u) = n /\ \A k \in 1 .. n : u[k] = b[k]
      /\ v \in Seq(Byte) /\ Len(v) = Len(rest) /\ \A k \in 1 .. Len(rest) : v[k] = b[k + n]
  <2> HIDE DEF n
  <2>1. u \in Seq(Byte) /\ Len(u) = n /\ \A k \in 1 .. n : u[k] = b[k]
    BY <1>3, <1>4, LeadingProperties
  <2>2. v \in Seq(Byte) /\ Len(v) = Len(b) - n /\ \A k \in 1 .. Len(b) - n : v[k] = b[k + n]
    BY <1>3, <1>4, BehindProperties
  <2> QED
    BY <1>4, <2>1, <2>2
<1> HIDE DEF u, v
<1>6. u = w
  BY <1>1, <1>3, <1>5, SeqEqual
<1>7. v = rest
  <2>1. ASSUME NEW k \in 1 .. Len(rest) PROVE v[k] = rest[k]
    <3>1. k + n = n + k
      BY <1>2
    <3> QED
      BY <1>3, <1>5, <3>1
  <2> QED
    BY <1>1, <1>5, <2>1, SeqEqual
<1> QED
  BY <1>1, <1>3, <1>4, <1>6, <1>7 DEF u, v

LEMMA SpellsBoth ==
  ASSUME NEW w \in Seq(Byte), NEW v \in Seq(Byte), NEW q, NEW b, Spells(w \o v, q, b)
  PROVE  Spells(w, v \o q, b) /\ Spells(v, q, v \o q)
<1>1. q \in Seq(Byte) /\ (w \o v) \o q = b
  BY DEF Spells
<1>2. v \o q \in Seq(Byte)
  BY <1>1, ConcatProperties
<1>3. (w \o v) \o q = w \o (v \o q)
  BY <1>1, Regrouped
<1> QED
  BY <1>1, <1>2, <1>3 DEF Spells

LEMMA ReadByteRestores ==
  ASSUME NEW i \in Byte, NEW q, NEW b, Spells(<<i>>, q, b)
  PROVE  ReadByte(b) = Read(i, q)
<1>1. Len(<<i>>) = 1 /\ <<i>>[1] = i /\ 1 \in 1 .. 1
  OBVIOUS
<1>2. b \in Seq(Byte) /\ 1 \in 0 .. Len(b) /\ Leading(b, 1) = <<i>> /\ Behind(b, 1) = q
  BY <1>1, SpellsParts
<1>3. b[1] = i
  BY <1>1, <1>2, LeadingProperties
<1>4. b # << >>
  BY <1>2
<1> QED
  BY <1>2, <1>3, <1>4 DEF ReadByte

LEMMA ReadTagRestores ==
  ASSUME NEW n \in Nat, NEW t \in 0 .. n - 1, NEW q, NEW b, t \in Byte, Spells(<<t>>, q, b)
  PROVE  ReadTag(n, b) = Read(t, q)
<1> DEFINE r == ReadByte(b)
<1>1. ReadTag(n, b) = IF r.err = "Ok" THEN IF r.v < n THEN Read(r.v, r.rest) ELSE Stop("InvalidData") ELSE r
  BY DEF ReadTag, Then
<1>2. r = Read(t, q)
  BY ReadByteRestores
<1>3. t < n
  OBVIOUS
<1> QED
  BY <1>1, <1>2, <1>3, ReadFieldsOf

-----------------------------------------------------------------------------
(* Numbers that are written.                                               *)

LEMMA DigitsTyped ==
  ASSUME NEW a \in Int, NEW w \in 0 .. MaxWidth
  PROVE  Digits(a, w) \in Seq(Byte) /\ Len(Digits(a, w)) = w
<1>1. Base \in Nat /\ Base > 0 /\ w \in Nat /\ w <= MaxWidth /\ MaxWidth \in Nat
  <2>1. MaxWidth \in Nat
    BY DEF MaxWidth
  <2> QED
    BY <2>1, WireAssumption
<1>2. ASSUME NEW k \in 1 .. w PROVE (a \div Power[k - 1]) % Base \in Byte
  <2>1. Power[k - 1] \in Nat \ {0}
    <3>1. k - 1 \in 0 .. MaxWidth
      BY <1>1
    <3> QED
      BY <3>1, PowerIs
  <2> DEFINE p == Power[k - 1]
  <2> HIDE DEF p
  <2>2. a \div p \in Int
    BY <2>1 DEF p
  <2> DEFINE u == a \div p
  <2> HIDE DEF u
  <2>3. u % Base \in 0 .. Base - 1
    BY <1>1, <2>2 DEF u
  <2> QED
    BY <2>3 DEF Byte, u, p
<1>3. Digits(a, w) \in [1 .. w -> Byte]
  BY <1>2 DEF Digits
<1> QED
  BY <1>1, <1>3, SeqDef, LenProperties

\* a has the remainder r by p, and the quotient the remainder c by m.
Splits(a, n, m, p, c, r) ==
  /\ a \in Int /\ m \in Nat \ {0} /\ p \in Nat \ {0} /\ n = m * p
  /\ c \in 0 .. m - 1 /\ r \in 0 .. p - 1
  /\ \E v \in Int : a = (v * m + c) * p + r

LEMMA RemainderSplit ==
  ASSUME NEW a, NEW n, NEW m, NEW p, NEW c, NEW r, Splits(a, n, m, p, c, r)
  PROVE  a % n = c * p + r
<1>0. /\ a \in Int /\ m \in Nat \ {0} /\ p \in Nat \ {0} /\ n = m * p
      /\ c \in 0 .. m - 1 /\ r \in 0 .. p - 1
  BY DEF Splits
<1>1. c * p \in Nat /\ (m - 1 - c) * p \in Nat /\ m * p = (m - 1 - c) * p + c * p + p
  BY <1>0
<1>2. n \in Nat /\ n > 0 /\ c * p + r \in 0 .. n - 1
  BY <1>0, <1>1
<1>3. PICK v \in Int : a = (v * m + c) * p + r
  BY DEF Splits
<1>4. a = v * n + (c * p + r)
  <2>1. (v * m + c) * p = v * (m * p) + c * p
    BY <1>0
  <2>2. v * n \in Int /\ c * p \in Int /\ r \in Int
    BY <1>0, <1>2
  <2> QED
    BY <1>0, <1>3, <2>1, <2>2
<1> DEFINE l == c * p + r
<1>5. l \in 0 .. n - 1 /\ a = v * n + l
  BY <1>2, <1>4
<1> HIDE DEF l
<1>6. a % n = l
  BY <1>0, <1>2, <1>5, Remainder
<1> QED
  BY <1>6 DEF l

LEMMA BothSplit ==
  ASSUME NEW a, NEW z, NEW n, NEW m, NEW p, NEW c, NEW r, Splits(a, n, m, p, c, r), Splits(z, n, m, p, c, r)
  PROVE  a % n = z % n
<1>1. a % n = c * p + r
  BY RemainderSplit
<1>2. z % n = c * p + r
  BY RemainderSplit
<1> QED
  BY <1>1, <1>2

DigitsAgree(a, z, n, m, p) ==
  /\ a \in Int /\ z \in Int /\ m \in Nat \ {0} /\ p \in Nat \ {0} /\ n = m * p
  /\ (a \div p) % m = (z \div p) % m /\ a % p = z % p

LEMMA SameRemainder ==
  ASSUME NEW a, NEW z, NEW n, NEW m, NEW p, DigitsAgree(a, z, n, m, p)
  PROVE  a % n = z % n
<1>0. /\ a \in Int /\ z \in Int /\ m \in Nat \ {0} /\ p \in Nat \ {0} /\ n = m * p
      /\ (a \div p) % m = (z \div p) % m /\ a % p = z % p
  BY DEF DigitsAgree
<1> DEFINE c == (a \div p) % m
           r == a % p
<1>1. c \in 0 .. m - 1 /\ r \in 0 .. p - 1
  BY <1>0
<1>2. ASSUME NEW x \in Int, (x \div p) % m = c, x % p = r PROVE Splits(x, n, m, p, c, r)
  <2> DEFINE u == x \div p
  <2>1. u \in Int /\ x = u * p + r
    BY <1>0, <1>2
  <2>2. u % m = c
    BY <1>2
  <2> HIDE DEF c, r, u
  <2> DEFINE v == u \div m
  <2>3. v \in Int /\ u = v * m + c
    BY <1>0, <1>1, <2>1, <2>2
  <2> HIDE DEF v
  <2> QED
    BY <1>0, <1>1, <2>1, <2>3 DEF Splits
<1>3. Splits(a, n, m, p, c, r) /\ Splits(z, n, m, p, c, r)
  BY <1>0, <1>2
<1> HIDE DEF c, r
<1> QED
  BY <1>3, BothSplit

\* Numbers with the same digits differ by a multiple of the power.
LEMMA DigitsDetermine ==
  ASSUME NEW a \in Int, NEW z \in Int, NEW w \in 0 .. MaxWidth, Digits(a, w) = Digits(z, w)
  PROVE  a % Power[w] = z % Power[w]
<1>1. Base \in Nat \ {0} /\ w \in Nat /\ w <= MaxWidth /\ MaxWidth \in Nat
  <2>1. MaxWidth \in Nat
    BY DEF MaxWidth
  <2> QED
    BY <2>1, WireAssumption
<1> DEFINE P == {k \in 0 .. w : a % Power[k] = z % Power[k]}
<1>2. 0 \in P
  <2>1. Power[0] = 1 /\ a % 1 = z % 1
    BY PowerIs
  <2> QED
    BY <1>1, <2>1
<1>3. ASSUME NEW k \in 1 .. w, k - 1 \in P PROVE k \in P
  <2> DEFINE p == Power[k - 1]
  <2>1. p \in Nat \ {0} /\ Power[k] = Base * p /\ a % p = z % p /\ k \in 0 .. w
    BY <1>1, <1>3, PowerIs
  <2>2. (a \div p) % Base = (z \div p) % Base
    <3>1. Digits(a, w)[k] = (a \div p) % Base /\ Digits(z, w)[k] = (z \div p) % Base
      BY DEF Digits
    <3> QED
      BY <3>1
  <2> HIDE DEF p
  <2> QED
    <3>1. DigitsAgree(a, z, Power[k], Base, p)
      BY <1>1, <2>1, <2>2 DEF DigitsAgree
    <3> HIDE DEF P
    <3>2. a % Power[k] = z % Power[k]
      BY <3>1, SameRemainder
    <3> QED
      BY <2>1, <3>2 DEF P
<1>4. \A k \in 0 .. w : k \in P
  <2> HIDE DEF P
  <2> QED
    BY <1>1, <1>2, <1>3, NatInduct
<1> QED
  BY <1>1, <1>4

LEMMA SameInRange ==
  ASSUME NEW a \in Int, NEW z \in Int, NEW low \in Int, NEW p \in Nat \ {0},
         a \in low .. low + p - 1, z \in low .. low + p - 1, a % p = z % p
  PROVE  a = z
<1> DEFINE r == a % p
<1>1. PICK u \in Int : a = u * p + r
  <2>1. a \div p \in Int /\ a = (a \div p) * p + r
    OBVIOUS
  <2> QED
    BY <2>1
<1>2. PICK v \in Int : z = v * p + r
  <2>1. z \div p \in Int /\ z = (z \div p) * p + r
    OBVIOUS
  <2> QED
    BY <2>1
<1>3. r \in Int
  OBVIOUS
<1> HIDE DEF r
<1>4. a - z = (u - v) * p
  BY <1>1, <1>2, <1>3
<1>5. u - v \in Int /\ a - z < p /\ z - a < p
  OBVIOUS
<1> DEFINE t == u - v
<1>6. t \in Int /\ a - z = t * p
  BY <1>4, <1>5
<1> HIDE DEF t
<1>7. CASE t > 0
  <2>1. (t - 1) * p >= 0 /\ t * p = (t - 1) * p + p
    BY <1>6, <1>7
  <2> QED
    BY <1>5, <1>6, <2>1
<1>8. CASE t < 0
  <2>1. (- t - 1) * p >= 0 /\ t * p = - ((- t - 1) * p) - p
    BY <1>6, <1>8
  <2> QED
    BY <1>5, <1>6, <2>1
<1>9. CASE t = 0
  BY <1>6, <1>9
<1> QED
  BY <1>6, <1>7, <1>8, <1>9

LEMMA WidthIs ==
  ASSUME NEW ty \in Type
  PROVE  Width[ty] \in 1 .. MaxWidth /\ Width[ty] \in 0 .. MaxWidth /\ Power[Width[ty]] \in Nat \ {0}
<1>1. Width[ty] \in 1 .. MaxWidth /\ MaxWidth \in Nat
  <2>1. Width[ty] \in 1 .. MaxWidth
    BY WireAssumption
  <2> QED
    BY <2>1 DEF MaxWidth
<1> DEFINE w == Width[ty]
<1> HIDE DEF w
<1>2. w \in 1 .. MaxWidth => w \in 0 .. MaxWidth
  BY <1>1
<1> QED
  BY <1>1, <1>2, PowerIs DEF w

\* The least of a type's numbers of w bytes.
Least_(ty, p) == IF ty \in Signed \cup Float THEN p \div 2 - p ELSE 0

LEMMA CarriedRange ==
  ASSUME NEW ty \in Type, NEW v \in Carried(ty)
  PROVE  LET p == Power[Width[ty]] IN
         v \in Int /\ v \in Least_(ty, p) .. Least_(ty, p) + p - 1
<1> DEFINE p == Power[Width[ty]]
<1>1. p \in Nat \ {0}
  BY WidthIs
<1>2. CASE ty \in Float
  <2>1. v \in - (p \div 2) .. p \div 2 - 1
    BY <1>2, WireAssumption DEF Carried
  <2>2. Least_(ty, p) = p \div 2 - p
    BY <1>2 DEF Least_
  <2> HIDE DEF p
  <2>3. p \div 2 \in Int /\ p \div 2 - p <= - (p \div 2)
    BY <1>1
  <2> QED
    BY <1>1, <2>1, <2>2, <2>3 DEF p
<1>3. CASE ty \in Signed
  <2>1. ty \in Int_ /\ ty \notin Float
    BY <1>3 DEF Signed, WideSigned, Int_, Float
  <2>2. Modulus[ty] = p /\ p % 2 = 0
    BY <1>3, <2>1, OperatorsAssumption, WireAssumption
  <2>3. Least_(ty, p) = p \div 2 - p /\ v \in - (p \div 2) .. p \div 2 - 1
    BY <1>3, <2>1, <2>2 DEF Least_, Carried, Values, Low, High
  <2> HIDE DEF p
  <2>4. p \div 2 \in Int /\ p \div 2 - p <= - (p \div 2)
    BY <1>1
  <2> QED
    BY <1>1, <2>3, <2>4 DEF p
<1>4. CASE ty \notin Signed \cup Float
  <2>1. Modulus[ty] <= p /\ Modulus[ty] \in Nat \ {0}
    <3>1. CASE ty = "Bool"
      <4>1. Width[ty] = 1 /\ Modulus[ty] = 2 /\ Base \in Nat /\ Base > 68
        BY <3>1, OperatorsAssumption, WireAssumption
      <4>2. Power[1] = Base * 1
        <5>1. 1 \in 1 .. MaxWidth /\ 1 - 1 = 0
          BY DEF MaxWidth
        <5> QED
          BY <5>1, PowerIs
      <4> QED
        BY <4>1, <4>2
    <3>2. CASE ty # "Bool"
      <4>1. ty \in Int_ \cup {"Pubkey"}
        BY <1>4, <3>2 DEF Type, Ordered
      <4> QED
        BY <1>1, <4>1, WireAssumption
    <3> QED
      BY <3>1, <3>2
  <2>2. Least_(ty, p) = 0 /\ v \in 0 .. Modulus[ty] - 1
    BY <1>4 DEF Least_, Carried, Values, Low, High
  <2> HIDE DEF p
  <2> QED
    BY <1>1, <2>1, <2>2 DEF p
<1> QED
  BY <1>2, <1>3, <1>4

LEMMA WriteTyped ==
  ASSUME NEW ty \in Type, NEW v \in Carried(ty)
  PROVE  Write(ty, v) \in Seq(Byte) /\ Len(Write(ty, v)) = Width[ty]
BY CarriedRange, WidthIs, DigitsTyped DEF Write

LEMMA FromDigitsRestores ==
  ASSUME NEW ty \in Type, NEW v \in Carried(ty)
  PROVE  FromDigits(ty, Write(ty, v)) = v
<1> DEFINE w == Width[ty]
           p == Power[w]
           d == Write(ty, v)
           n == FromDigits(ty, d)
           low == Least_(ty, p)
<1>1. w \in 0 .. MaxWidth /\ p \in Nat \ {0} /\ d \in Seq(Byte) /\ Len(d) = w
  BY WidthIs, WriteTyped
<1>2. v \in Int /\ v \in low .. low + p - 1
  BY CarriedRange
<1>3. Number(d) \in 0 .. p - 1
  <2>1. Len(d) \in 0 .. MaxWidth /\ Power[Len(d)] = p
    BY <1>1
  <2> HIDE DEF d, p
  <2> QED
    BY <1>1, <2>1, NumberIs
<1>4. n \in low .. low + p - 1 /\ n \in Int /\ low \in Int
  <2>1. n = IF ty \in Signed \cup Float /\ Number(d) >= p \div 2 THEN Number(d) - p ELSE Number(d)
    BY <1>1 DEF FromDigits
  <2>2. p \div 2 \in Int /\ 0 <= p \div 2 /\ p \div 2 <= p
    <3> HIDE DEF p
    <3> QED
      BY <1>1
  <2>3. low = IF ty \in Signed \cup Float THEN p \div 2 - p ELSE 0
    BY DEF Least_
  <2> HIDE DEF n, low, d, p
  <2> QED
    BY <1>1, <1>3, <2>1, <2>2, <2>3
<1>5. Digits(n, w) = Digits(v, w)
  <2>1. Digits(n, Len(d)) = d
    <3> HIDE DEF d
    <3> QED
      BY <1>1, FromDigitsRegains
  <2> QED
    BY <1>1, <2>1 DEF Write
<1> HIDE DEF n, low, d, p, w
<1>6. n % Power[w] = v % Power[w]
  BY <1>1, <1>2, <1>4, <1>5, DigitsDetermine
<1>7. n % p = v % p
  BY <1>6 DEF p
<1>8. n = v
  BY <1>1, <1>2, <1>4, <1>7, SameInRange
<1> QED
  BY <1>8 DEF n, d

LEMMA CarriedReadable ==
  ASSUME NEW ty \in Type, NEW v \in Carried(ty)
  PROVE  Readable(ty, v)
<1>1. CASE ty = "Bool"
  <2>1. v \in 0 .. 1
    BY <1>1, OperatorsAssumption DEF Carried, Values, Low, High, Float, Signed, WideSigned
  <2>2. ty \notin Float
    BY <1>1 DEF Float
  <2> QED
    BY <1>1, <2>1, <2>2 DEF Readable
<1>2. CASE ty # "Bool"
  BY <1>2 DEF Readable, Carried
<1> QED
  BY <1>1, <1>2

LEMMA ReadNumberRestores ==
  ASSUME NEW ty \in Type, NEW v \in Carried(ty), NEW q, NEW b, Spells(Write(ty, v), q, b)
  PROVE  ReadNumber(ty, b) = Read(v, q)
<1> DEFINE d == Write(ty, v)
           w == Width[ty]
<1>1. d \in Seq(Byte) /\ Len(d) = w /\ FromDigits(ty, d) = v /\ Readable(ty, v)
  BY WriteTyped, FromDigitsRestores, CarriedReadable
<1>2. Len(d) \in 0 .. Len(b) /\ Leading(b, Len(d)) = d /\ Behind(b, Len(d)) = q
  BY SpellsParts
<1> HIDE DEF d
<1>3. w \in 0 .. Len(b) /\ Leading(b, w) = d /\ Behind(b, w) = q
  BY <1>1, <1>2
<1>4. ~ (Len(b) < w)
  <2>1. Len(b) \in Nat
    BY SpellsParts, LenProperties
  <2> HIDE DEF w
  <2> QED
    BY <1>3, <2>1
<1> QED
  BY <1>1, <1>3, <1>4 DEF ReadNumber

-----------------------------------------------------------------------------
(* Lists that are written.                                                 *)

LEMMA LeadingParts ==
  ASSUME NEW S, NEW s \in Seq(S)
  PROVE  /\ Leading(s, 0) = << >> /\ Leading(s, Len(s)) = s
         /\ \A k \in 1 .. Len(s) : Leading(s, k) = Append(Leading(s, k - 1), s[k])
<1>1. Len(s) \in Nat /\ 0 \in 0 .. Len(s) /\ Len(s) \in 0 .. Len(s) /\ DOMAIN s = 1 .. Len(s)
  BY LenProperties
<1>2. Leading(s, 0) = << >>
  BY <1>1, LeadingProperties, EmptySeq
<1>3. Leading(s, Len(s)) = s
  <2> DEFINE t == Leading(s, Len(s))
  <2>1. t \in Seq(S) /\ Len(t) = Len(s) /\ \A k \in 1 .. Len(s) : t[k] = s[k]
    BY <1>1, LeadingProperties
  <2> HIDE DEF t
  <2>2. t = s
    BY <2>1, SeqEqual
  <2> QED
    BY <2>2 DEF t
<1>4. ASSUME NEW k \in 1 .. Len(s) PROVE Leading(s, k) = Append(Leading(s, k - 1), s[k])
  <2> DEFINE t == Leading(s, k)
             u == Leading(s, k - 1)
             v == Append(u, s[k])
  <2>1. k \in 0 .. Len(s) /\ k - 1 \in 0 .. Len(s)
    BY <1>1
  <2>2. s[k] \in S
    BY ElementOfSeq
  <2>3. t \in Seq(S) /\ Len(t) = k /\ \A j \in 1 .. k : t[j] = s[j]
    BY <2>1, LeadingProperties
  <2>4. u \in Seq(S) /\ Len(u) = k - 1 /\ \A j \in 1 .. k - 1 : u[j] = s[j]
    BY <2>1, LeadingProperties
  <2> HIDE DEF t, u
  <2>5. v \in Seq(S) /\ Len(v) = k /\ v[k] = s[k] /\ \A j \in 1 .. k - 1 : v[j] = u[j]
    <3>1. Len(u) + 1 = k
      BY <1>1, <2>4
    <3> QED
      BY <2>2, <2>4, <3>1, AppendProperties
  <2> HIDE DEF v
  <2>6. ASSUME NEW j \in 1 .. k PROVE v[j] = t[j]
    <3>1. j = k \/ j \in 1 .. k - 1
      OBVIOUS
    <3> QED
      BY <2>3, <2>4, <2>5, <3>1
  <2>7. t = v
    BY <2>3, <2>5, <2>6, SeqEqual
  <2> QED
    BY <2>7 DEF t, v, u
<1> QED
  BY <1>2, <1>3, <1>4

LEMMA BehindParts ==
  ASSUME NEW S, NEW s \in Seq(S)
  PROVE  /\ Behind(s, 0) = s /\ Behind(s, Len(s)) = << >>
         /\ \A k \in 1 .. Len(s) : Behind(s, k - 1) = <<s[k]>> \o Behind(s, k)
<1>1. Len(s) \in Nat /\ 0 \in 0 .. Len(s) /\ Len(s) \in 0 .. Len(s) /\ Len(s) - Len(s) = 0 /\ Len(s) - 0 = Len(s)
  BY LenProperties
<1>2. Behind(s, Len(s)) = << >>
  BY <1>1, BehindProperties, EmptySeq
<1>3. Behind(s, 0) = s
  <2> DEFINE t == Behind(s, 0)
  <2>1. t \in Seq(S) /\ Len(t) = Len(s) /\ \A k \in 1 .. Len(s) : t[k] = s[k]
    <3>1. t \in Seq(S) /\ Len(t) = Len(s) - 0 /\ \A k \in 1 .. Len(s) - 0 : t[k] = s[k + 0]
      BY <1>1, BehindProperties
    <3>2. \A k \in 1 .. Len(s) : k + 0 = k
      OBVIOUS
    <3> HIDE DEF t
    <3> QED
      BY <1>1, <3>1, <3>2
  <2> HIDE DEF t
  <2>2. t = s
    BY <2>1, SeqEqual
  <2> QED
    BY <2>2 DEF t
<1>4. ASSUME NEW k \in 1 .. Len(s) PROVE Behind(s, k - 1) = <<s[k]>> \o Behind(s, k)
  <2> DEFINE t == Behind(s, k - 1)
             u == Behind(s, k)
             v == <<s[k]>> \o u
             n == Len(s) - k
  <2>1. k \in 0 .. Len(s) /\ k - 1 \in 0 .. Len(s) /\ n \in Nat /\ Len(s) - (k - 1) = n + 1
    BY <1>1
  <2>2. s[k] \in S
    BY ElementOfSeq
  <2>3. t \in Seq(S) /\ Len(t) = Len(s) - (k - 1) /\ \A j \in 1 .. Len(s) - (k - 1) : t[j] = s[j + (k - 1)]
    BY <2>1, BehindProperties
  <2>4. u \in Seq(S) /\ Len(u) = n /\ \A j \in 1 .. n : u[j] = s[j + k]
    BY <2>1, BehindProperties
  <2> HIDE DEF t, u, n
  <2>5. v \in Seq(S) /\ Len(v) = n + 1 /\ v[1] = s[k] /\ \A j \in 1 .. n : v[j + 1] = u[j]
    BY <2>2, <2>4, PrependProperties
  <2> HIDE DEF v
  <2>6. ASSUME NEW j \in 1 .. n + 1 PROVE v[j] = t[j]
    <3>1. CASE j = 1
      <4>1. t[1] = s[1 + (k - 1)] /\ 1 + (k - 1) = k
        BY <2>1, <2>3, <3>1
      <4> QED
        BY <2>5, <3>1, <4>1
    <3>2. CASE j # 1
      <4> DEFINE i == j - 1
      <4>1. i \in 1 .. n /\ j = i + 1 /\ i + k = j + (k - 1)
        BY <2>1, <3>2
      <4> HIDE DEF i
      <4>2. v[i + 1] = u[i] /\ u[i] = s[i + k]
        BY <2>4, <2>5, <4>1
      <4>3. t[j] = s[j + (k - 1)]
        BY <2>1, <2>3
      <4> QED
        BY <4>1, <4>2, <4>3
    <3> QED
      BY <3>1, <3>2
  <2>7. t = v
    BY <2>1, <2>3, <2>5, <2>6, SeqEqual
  <2> QED
    BY <2>7 DEF t, v, u
<1> QED
  BY <1>2, <1>3, <1>4

\* A reader takes the bytes w for v, whatever follows them.
Restoring(reader, w, v) ==
  w \in Seq(Byte) /\ \A q, b \in Seq(Byte) : Spells(w, q, b) => reader[b] = Read(v, q)

\* A row of readers, and for each of them a word that it takes for an element.
Row(S, readers, ws, vs) ==
  /\ ws \in Seq(Seq(Byte)) /\ vs \in Seq(S)
  /\ Len(readers) \in Nat /\ Len(ws) = Len(readers) /\ Len(vs) = Len(readers)
  /\ \A k \in 1 .. Len(readers) : \A r \in Seq(Byte) : readers[k][r] \in Reading(S)
  /\ \A k \in 1 .. Len(readers) : Restoring(readers[k], ws[k], vs[k])

\* Readers in a row restore a list if each restores its element.
LEMMA ReadEachRestores ==
  ASSUME NEW S, NEW readers, NEW ws, NEW vs, NEW q, NEW b,
         Row(S, readers, ws, vs), Spells(FlattenSeq(ws), q, b)
  PROVE  ReadEach(readers, b) = Read(vs, q)
<1>0. /\ ws \in Seq(Seq(Byte)) /\ vs \in Seq(S)
      /\ Len(readers) \in Nat /\ Len(ws) = Len(readers) /\ Len(vs) = Len(readers)
      /\ \A k \in 1 .. Len(readers) : \A r \in Seq(Byte) : readers[k][r] \in Reading(S)
      /\ \A k \in 1 .. Len(readers) : Restoring(readers[k], ws[k], vs[k])
  BY DEF Row
<1> DEFINE n == Len(readers)
<1>1. b \in Seq(Byte)
  BY SpellsParts
<1>2. PICK read : ReadsEach(S, readers, b, read)
  BY <1>0, <1>1, ReadEachRecursion
<1>3. /\ ReadEach(readers, b) = read[n] /\ read[0] = Read(<< >>, b)
      /\ \A k \in 1 .. n : read[k] = GoesOn(readers, k, read[k - 1])
  BY <1>2 DEF ReadsEach
<1>4. /\ n \in Nat /\ Len(ws) = n /\ Len(vs) = n
      /\ ws \in Seq(Seq(Byte)) /\ vs \in Seq(S)
  BY <1>0
<1> HIDE DEF n
<1> DEFINE W(k) == Behind(ws, k)
           V(k) == Leading(vs, k)
           At(k, r) == Spells(FlattenSeq(W(k)), q, r) /\ read[k] = Read(V(k), r)
           P == {k \in 0 .. n : \E r : At(k, r)}
<1>5. 0 \in P
  <2>1. W(0) = ws /\ V(0) = << >>
    BY <1>4, LeadingParts, BehindParts
  <2>2. At(0, b)
    BY <1>3, <2>1
  <2> HIDE DEF At
  <2> QED
    BY <1>4, <2>2
<1>6. ASSUME NEW k \in 1 .. n, k - 1 \in P PROVE k \in P
  <2>1. PICK r : At(k - 1, r)
    BY <1>6
  <2> DEFINE w == FlattenSeq(W(k))
             p == w \o q
  <2>2. ws[k] \in Seq(Byte) /\ W(k) \in Seq(Seq(Byte)) /\ W(k - 1) = <<ws[k]>> \o W(k)
    <3>1. k \in 1 .. Len(ws) /\ k \in 0 .. Len(ws)
      BY <1>4
    <3> QED
      BY <1>4, <3>1, ElementOfSeq, BehindParts, BehindProperties
  <2>3. V(k) = Append(V(k - 1), vs[k])
    BY <1>4, LeadingParts
  <2>4. FlattenSeq(W(k - 1)) = ws[k] \o w /\ w \in Seq(Byte)
    <3> HIDE DEF W
    <3> QED
      BY <2>2, FlattenPrepend, FlattenTyped
  <2>5. Spells(ws[k] \o w, q, r) /\ read[k - 1] = Read(V(k - 1), r)
    BY <2>1, <2>4
  <2> HIDE DEF w, W
  <2>6. Spells(ws[k], p, r) /\ Spells(w, q, p)
    BY <2>2, <2>4, <2>5, SpellsBoth
  <2>7. readers[k][r] = Read(vs[k], p)
    <3>1. Restoring(readers[k], ws[k], vs[k])
      BY <1>0 DEF n
    <3>2. p \in Seq(Byte) /\ r \in Seq(Byte)
      BY <2>6, SpellsParts
    <3> HIDE DEF p
    <3> QED
      BY <2>6, <3>1, <3>2 DEF Restoring
  <2>8. read[k] = Read(V(k), p)
    <3> DEFINE u == read[k - 1]
               d == readers[k][u.rest]
    <3>1. u.err = "Ok" /\ u.v = V(k - 1) /\ u.rest = r
      BY <2>5, ReadFieldsOf
    <3>2. read[k] = GoesOn(readers, k, u)
      BY <1>3
    <3> HIDE DEF u, p, V
    <3>3. d = Read(vs[k], p)
      BY <2>7, <3>1
    <3>4. read[k] = IF u.err = "Ok" THEN IF d.err = "Ok" THEN Read(Append(u.v, d.v), d.rest) ELSE d ELSE u
      BY <3>2 DEF GoesOn, Then
    <3> HIDE DEF d
    <3>5. d.err = "Ok" /\ d.v = vs[k] /\ d.rest = p
      BY <3>3, ReadFieldsOf
    <3> QED
      BY <2>3, <3>1, <3>4, <3>5
  <2>9. At(k, p)
    BY <2>6, <2>8 DEF w
  <2> HIDE DEF At
  <2> QED
    BY <1>4, <2>9
<1>7. n \in P
  <2> HIDE DEF P
  <2>1. \A k \in 0 .. n : k \in P
    BY <1>4, <1>5, <1>6, NatInduct
  <2> QED
    BY <1>4, <2>1
<1>8. PICK r : At(n, r)
  BY <1>7
<1>9. W(n) = << >> /\ V(n) = vs
  BY <1>4, LeadingParts, BehindParts
<1>10. r = q
  <2>1. Spells(<< >>, q, r)
    BY <1>8, <1>9, FlattenEmpty
  <2> QED
    BY <2>1, ConcatEmptySeq DEF Spells
<1> QED
  BY <1>3, <1>8, <1>9, <1>10

-----------------------------------------------------------------------------
(* Expressions that are written.                                           *)

\* Each key has a row in the table of nodes.
Listed(key) == \E t \in 0 .. 51 : SdkVariants[t + 1] = key

LEMMA ConstListed ==
  ASSUME NEW ty \in Type
  PROVE  Listed(<<"Const", ty>>)
<1>1. ASSUME NEW k \in 1 .. 13 PROVE Listed(<<"Const", ConstTypes[k]>>)
  <2>1. SdkVariants[k + 1] = <<"Const", ConstTypes[k]>> /\ k \in 0 .. 51
    BY TableIs
  <2> QED
    BY <2>1 DEF Listed
<1>2. CASE ty = "Pubkey"
  <2>1. SdkVariants[51 + 1] = <<"Const", "Pubkey">> /\ 51 \in 0 .. 51
    BY TableIs
  <2> QED
    BY <1>2, <2>1 DEF Listed
<1>3. CASE ty # "Pubkey"
  <2>1. \E k \in 1 .. 13 : ConstTypes[k] = ty
    <3>1. /\ 1 \in 1 .. 13 /\ 2 \in 1 .. 13 /\ 3 \in 1 .. 13 /\ 4 \in 1 .. 13 /\ 5 \in 1 .. 13
          /\ 6 \in 1 .. 13 /\ 7 \in 1 .. 13 /\ 8 \in 1 .. 13 /\ 9 \in 1 .. 13 /\ 10 \in 1 .. 13
          /\ 11 \in 1 .. 13 /\ 12 \in 1 .. 13 /\ 13 \in 1 .. 13
      OBVIOUS
    <3>2. /\ ConstTypes[1] = "Bool" /\ ConstTypes[2] = "U8" /\ ConstTypes[3] = "U16"
          /\ ConstTypes[4] = "U32" /\ ConstTypes[5] = "U64" /\ ConstTypes[6] = "U128"
          /\ ConstTypes[7] = "I8" /\ ConstTypes[8] = "I16" /\ ConstTypes[9] = "I32"
          /\ ConstTypes[10] = "I64" /\ ConstTypes[11] = "I128"
          /\ ConstTypes[12] = "F32" /\ ConstTypes[13] = "F64"
      BY DEF ConstTypes
    <3>3. ty \in {"Bool", "U8", "U16", "U32", "U64", "U128", "I8", "I16", "I32", "I64", "I128", "F32", "F64"}
      BY <1>3 DEF Type, Ordered, Int_, Unsigned, Signed, WideSigned, Float
    <3> QED
      BY <3>1, <3>2, <3>3
  <2> QED
    BY <1>1, <2>1
<1> QED
  BY <1>2, <1>3

LEMMA CastListed ==
  ASSUME NEW ty \in Int_
  PROVE  Listed(<<"As", ty>>)
<1>1. ASSUME NEW k \in 1 .. 10 PROVE Listed(<<"As", CastTypes[k]>>)
  <2> DEFINE t == k + 17
  <2>1. t + 1 = k + 18 /\ t \in 0 .. 51
    OBVIOUS
  <2>2. SdkVariants[k + 18] = <<"As", CastTypes[k]>>
    BY TableIs
  <2> HIDE DEF t
  <2> QED
    BY <2>1, <2>2 DEF Listed
<1>2. /\ 1 \in 1 .. 10 /\ 2 \in 1 .. 10 /\ 3 \in 1 .. 10 /\ 4 \in 1 .. 10 /\ 5 \in 1 .. 10
      /\ 6 \in 1 .. 10 /\ 7 \in 1 .. 10 /\ 8 \in 1 .. 10 /\ 9 \in 1 .. 10 /\ 10 \in 1 .. 10
  OBVIOUS
<1>3. /\ CastTypes[1] = "U8" /\ CastTypes[2] = "U16" /\ CastTypes[3] = "U32"
      /\ CastTypes[4] = "U64" /\ CastTypes[5] = "U128" /\ CastTypes[6] = "I8"
      /\ CastTypes[7] = "I16" /\ CastTypes[8] = "I32" /\ CastTypes[9] = "I64" /\ CastTypes[10] = "I128"
  BY DEF CastTypes
<1>4. \E k \in 1 .. 10 : CastTypes[k] = ty
  BY <1>2, <1>3 DEF Int_, Unsigned, Signed, WideSigned
<1> QED
  BY <1>1, <1>4

LEMMA OperatorListed ==
  ASSUME NEW op \in Operation
  PROVE  Listed(<<op, "none">>)
<1>1. ASSUME NEW k \in 1 .. 4 PROVE Listed(<<<<"Not", "Neg", "IsZero", "NonZero">>[k], "none">>)
  <2> DEFINE t == k + 13
  <2>1. t + 1 = k + 14 /\ t \in 0 .. 51
    OBVIOUS
  <2>2. SdkVariants[k + 14] = <<<<"Not", "Neg", "IsZero", "NonZero">>[k], "none">>
    BY TableIs
  <2> HIDE DEF t
  <2> QED
    BY <2>1, <2>2 DEF Listed
<1>2. ASSUME NEW k \in 1 .. 23 PROVE Listed(<<Operators_[k], "none">>)
  <2> DEFINE t == k + 27
  <2>1. t + 1 = k + 28 /\ t \in 0 .. 51
    OBVIOUS
  <2>2. SdkVariants[k + 28] = <<Operators_[k], "none">>
    BY TableIs
  <2> HIDE DEF t
  <2> QED
    BY <2>1, <2>2 DEF Listed
<1>3. CASE op \in UnaryOp
  <2>1. op = "Not" \/ op = "Neg" \/ op = "IsZero" \/ op = "NonZero"
    BY <1>3 DEF UnaryOp
  <2>2. 1 \in 1 .. 4 /\ 2 \in 1 .. 4 /\ 3 \in 1 .. 4 /\ 4 \in 1 .. 4
    OBVIOUS
  <2>3. \E k \in 1 .. 4 : <<"Not", "Neg", "IsZero", "NonZero">>[k] = op
    BY <2>1, <2>2
  <2> QED
    BY <1>1, <2>3
<1>4. CASE op \in BinaryOp \cup TernaryOp
  <2>1. /\ 1 \in 1 .. 23 /\ 2 \in 1 .. 23 /\ 3 \in 1 .. 23 /\ 4 \in 1 .. 23 /\ 5 \in 1 .. 23 /\ 6 \in 1 .. 23
        /\ 7 \in 1 .. 23 /\ 8 \in 1 .. 23 /\ 9 \in 1 .. 23 /\ 10 \in 1 .. 23 /\ 11 \in 1 .. 23 /\ 12 \in 1 .. 23
        /\ 13 \in 1 .. 23 /\ 14 \in 1 .. 23 /\ 15 \in 1 .. 23 /\ 16 \in 1 .. 23 /\ 17 \in 1 .. 23
        /\ 18 \in 1 .. 23 /\ 19 \in 1 .. 23 /\ 20 \in 1 .. 23 /\ 21 \in 1 .. 23 /\ 22 \in 1 .. 23 /\ 23 \in 1 .. 23
    OBVIOUS
  <2>2. /\ Operators_[1] = "Add" /\ Operators_[2] = "Sub" /\ Operators_[3] = "Mul"
        /\ Operators_[4] = "Div" /\ Operators_[5] = "DivFloor" /\ Operators_[6] = "DivCeil"
        /\ Operators_[7] = "Min" /\ Operators_[8] = "Max" /\ Operators_[9] = "Eq"
        /\ Operators_[10] = "Ne" /\ Operators_[11] = "Gt" /\ Operators_[12] = "Ge"
        /\ Operators_[13] = "Lt" /\ Operators_[14] = "Le" /\ Operators_[15] = "SaturatingSub"
        /\ Operators_[16] = "And" /\ Operators_[17] = "Or" /\ Operators_[18] = "BpsMulFloor"
        /\ Operators_[19] = "BpsMulCeil" /\ Operators_[20] = "MulDivFloor"
        /\ Operators_[21] = "MulDivCeil" /\ Operators_[22] = "Clamp" /\ Operators_[23] = "Select"
    BY DEF Operators_
  <2>3. \E k \in 1 .. 23 : Operators_[k] = op
    BY <1>4, <2>1, <2>2 DEF BinaryOp, TernaryOp, Numeric, Arith, Compare, Logic, Bps, MulDiv
  <2> QED
    BY <1>2, <2>3
<1> QED
  BY <1>3, <1>4 DEF Operation

LEMMA WireNodeCases ==
  ASSUME NEW x \in WireNode
  PROVE  /\ x = Node(x.op, x.ty, x.v)
         /\ \/ x.op = "Value" /\ x.ty = "none" /\ x.v \in Byte
            \/ x.op = "Const" /\ x.ty \in Type /\ x.v \in Carried(x.ty)
            \/ x.op = "As" /\ x.ty \in Int_ /\ x.v = 0
            \/ x.op \in Operation /\ x.ty = "none" /\ x.v = 0
BY DEF WireNode, Node, Operation

LEMMA KeyListed ==
  ASSUME NEW x \in WireNode
  PROVE  \E t \in 0 .. 51 : Variants[t + 1] = Key(x) /\ TagIn(SdkVariants, Key(x)) = t
<1>1. CASE x.op = "Value" /\ x.ty = "none"
  <2>1. SdkVariants[0 + 1] = <<"Value", "none">> /\ 0 \in 0 .. 51
    BY TableIs
  <2>2. Key(x) = <<"Value", "none">>
    BY <1>1 DEF Key
  <2>3. Listed(Key(x))
    BY <2>1, <2>2 DEF Listed
  <2> QED
    BY <2>3, TablesAgree, TagsAre DEF Listed
<1>2. CASE x.op = "Const" /\ x.ty \in Type
  BY <1>2, ConstListed, TablesAgree, TagsAre DEF Key, Listed
<1>3. CASE x.op = "As" /\ x.ty \in Int_
  BY <1>3, CastListed, TablesAgree, TagsAre DEF Key, Listed
<1>4. CASE x.op \in Operation
  <2>1. Key(x) = <<x.op, "none">>
    BY <1>4, ArityIs DEF Key, Operation, UnaryOp, BinaryOp, TernaryOp
  <2> QED
    BY <1>4, <2>1, OperatorListed, TablesAgree, TagsAre DEF Listed
<1> QED
  BY <1>1, <1>2, <1>3, <1>4, WireNodeCases

LEMMA OneByte ==
  ASSUME NEW i \in Byte
  PROVE  <<i>> \in Seq(Byte) /\ Len(<<i>>) = 1
OBVIOUS

LEMMA EncodeNodeTyped ==
  ASSUME NEW x \in WireNode
  PROVE  EncodeNode(x) \in Seq(Byte) /\ EncodeNode(x) # << >>
<1>1. PICK t \in 0 .. 51 : TagIn(SdkVariants, Key(x)) = t
  BY KeyListed
<1>2. t \in Byte
  BY WireAssumption DEF Byte
<1> DEFINE p == CASE x.op = "Value" -> <<x.v>>
                  [] x.op = "Const" -> Write(x.ty, x.v)
                  [] OTHER -> << >>
<1>3. EncodeNode(x) = <<t>> \o p
  BY <1>1 DEF EncodeNode
<1>4. p \in Seq(Byte)
  <2>1. << >> \in Seq(Byte)
    OBVIOUS
  <2>2. CASE x.op = "Value"
    <3>1. x.v \in Byte
      BY <2>2, WireNodeCases, ArityIs
    <3> QED
      BY <2>2, <3>1, OneByte
  <2>3. CASE x.op = "Const"
    <3>1. x.ty \in Type /\ x.v \in Carried(x.ty)
      BY <2>3, WireNodeCases, ArityIs
    <3>2. p = Write(x.ty, x.v)
      BY <2>3
    <3> HIDE DEF p
    <3> QED
      BY <3>1, <3>2, WriteTyped
  <2> QED
    BY <2>1, <2>2, <2>3
<1> HIDE DEF p
<1>5. <<t>> \in Seq(Byte) /\ Len(<<t>>) = 1
  BY <1>2, OneByte
<1> DEFINE w == <<t>>
<1> HIDE DEF w
<1>6. w \in Seq(Byte) /\ Len(w) = 1 /\ EncodeNode(x) = w \o p
  BY <1>3, <1>5 DEF w
<1>7. w \o p \in Seq(Byte) /\ Len(w \o p) = Len(w) + Len(p)
  BY <1>4, <1>6, ConcatProperties
<1>8. Len(p) \in Nat /\ Len(<< >>) = 0
  BY <1>4
<1> DEFINE l == Len(w \o p)
<1>9. l >= 1
  BY <1>6, <1>7, <1>8
<1> HIDE DEF l
<1>10. w \o p # << >>
  BY <1>8, <1>9 DEF l
<1> QED
  BY <1>6, <1>7, <1>10

LEMMA ReadNodeRestores ==
  ASSUME NEW x \in WireNode, NEW q, NEW b, Spells(EncodeNode(x), q, b)
  PROVE  ReadNode(b) = Read(x, q)
<1> DEFINE t == ReadTag(Len(Variants), b)
           op == Variants[t.v + 1][1]
           ty == Variants[t.v + 1][2]
           i == ReadByte(t.rest)
           n == ReadNumber(ty, t.rest)
<1>1. ReadNode(b) = IF t.err # "Ok" THEN t
                    ELSE IF op = "Value" THEN IF i.err = "Ok" THEN Read(Node(op, ty, i.v), i.rest) ELSE i
                    ELSE IF op = "Const" THEN IF n.err = "Ok" THEN Read(Node(op, ty, n.v), n.rest) ELSE n
                    ELSE Read(Node(op, ty, 0), t.rest)
  BY ReadNodeIs, Zenon
<1>2. Len(Variants) = 52 /\ 52 \in Nat
  BY TablesAgree, TableIs
<1>3. PICK k \in 0 .. 51 : Variants[k + 1] = Key(x) /\ TagIn(SdkVariants, Key(x)) = k
  BY KeyListed
<1> DEFINE p == CASE x.op = "Value" -> <<x.v>>
                  [] x.op = "Const" -> Write(x.ty, x.v)
                  [] OTHER -> << >>
           r == p \o q
<1>4. EncodeNode(x) = <<k>> \o p
  BY <1>3 DEF EncodeNode
<1>5. k \in Byte /\ k \in 0 .. 52 - 1
  BY WireAssumption DEF Byte
<1>6. p \in Seq(Byte)
  <2>1. << >> \in Seq(Byte)
    OBVIOUS
  <2>2. CASE x.op = "Value"
    <3>1. x.v \in Byte
      BY <2>2, WireNodeCases, ArityIs
    <3> QED
      BY <2>2, <3>1, OneByte
  <2>3. CASE x.op = "Const"
    <3>1. x.ty \in Type /\ x.v \in Carried(x.ty)
      BY <2>3, WireNodeCases, ArityIs
    <3>2. p = Write(x.ty, x.v)
      BY <2>3
    <3> HIDE DEF p
    <3> QED
      BY <3>1, <3>2, WriteTyped
  <2> QED
    BY <2>1, <2>2, <2>3
<1>7. Spells(<<k>>, r, b) /\ Spells(p, q, r)
  <2> HIDE DEF p
  <2> DEFINE w == <<k>>
  <2>1. w \in Seq(Byte)
    BY <1>5, OneByte
  <2>2. Spells(w \o p, q, b)
    BY <1>4
  <2> HIDE DEF w
  <2>3. Spells(w, p \o q, b) /\ Spells(p, q, p \o q)
    BY <1>6, <2>1, <2>2, SpellsBoth
  <2> QED
    BY <2>3 DEF w
<1>8. t = Read(k, r)
  <2> HIDE DEF r, p
  <2>1. ReadTag(52, b) = Read(k, r)
    BY <1>2, <1>5, <1>7, ReadTagRestores
  <2> QED
    BY <1>2, <2>1
<1>9. t.err = "Ok" /\ t.v = k /\ t.rest = r
  <2> HIDE DEF t, r
  <2> QED
    BY <1>8, ReadFieldsOf
<1> HIDE DEF t, r
<1>10. op = Key(x)[1] /\ ty = Key(x)[2]
  BY <1>3, <1>9
<1> HIDE DEF op, ty
<1>11. CASE x.op = "Value" /\ x.ty = "none" /\ x.v \in Byte
  <2>1. op = "Value" /\ ty = "none"
    BY <1>10, <1>11 DEF Key
  <2>2. p = <<x.v>>
    BY <1>11
  <2> HIDE DEF p
  <2>3. i = Read(x.v, q)
    BY <1>7, <1>9, <1>11, <2>2, ReadByteRestores
  <2>4. i.err = "Ok" /\ i.v = x.v /\ i.rest = q
    <3> HIDE DEF i
    <3> QED
      BY <2>3, ReadFieldsOf
  <2> HIDE DEF i, n
  <2>5. ReadNode(b) = Read(Node(op, ty, i.v), i.rest)
    BY <1>1, <1>9, <2>1, <2>4
  <2>6. Node(op, ty, i.v) = x
    BY <1>11, <2>1, <2>4, WireNodeCases
  <2> QED
    BY <2>4, <2>5, <2>6
<1>12. CASE x.op = "Const" /\ x.ty \in Type /\ x.v \in Carried(x.ty)
  <2>1. op = "Const" /\ ty = x.ty
    BY <1>10, <1>12 DEF Key
  <2>2. p = Write(x.ty, x.v)
    BY <1>12
  <2> HIDE DEF p
  <2>3. n = Read(x.v, q)
    BY <1>7, <1>9, <1>12, <2>1, <2>2, ReadNumberRestores
  <2>4. n.err = "Ok" /\ n.v = x.v /\ n.rest = q
    <3> HIDE DEF n
    <3> QED
      BY <2>3, ReadFieldsOf
  <2> HIDE DEF i, n
  <2>5. ReadNode(b) = Read(Node(op, ty, n.v), n.rest)
    BY <1>1, <1>9, <2>1, <2>4
  <2>6. Node(op, ty, n.v) = x
    BY <1>12, <2>1, <2>4, WireNodeCases
  <2> QED
    BY <2>4, <2>5, <2>6
<1>13. CASE x.op \in Operation \cup {"As"} /\ x.v = 0 /\ (x.op # "As" => x.ty = "none")
  <2>1. op = x.op /\ ty = x.ty /\ op # "Value" /\ op # "Const"
    BY <1>10, <1>13, ArityIs DEF Key
  <2>2. p = << >>
    BY <1>13, <2>1
  <2> HIDE DEF p, i, n
  <2>3. ReadNode(b) = Read(Node(op, ty, 0), r)
    BY <1>1, <1>9, <2>1
  <2>4. Node(op, ty, 0) = x
    BY <1>13, <2>1, WireNodeCases
  <2>5. r = q
    BY <1>7, <2>2, ConcatEmptySeq DEF Spells
  <2> QED
    BY <2>3, <2>4, <2>5
<1> QED
  BY <1>11, <1>12, <1>13, WireNodeCases, ArityIs

LEMMA WireNodeIsNode == WireNode \subseteq Nodes
<1> SUFFICES ASSUME NEW x \in WireNode PROVE x \in Nodes
  OBVIOUS
<1> DEFINE b == EncodeNode(x)
<1>1. b \in Seq(Byte) /\ Spells(b, << >>, b)
  <2>1. b \in Seq(Byte)
    BY EncodeNodeTyped
  <2> HIDE DEF b
  <2> QED
    BY <2>1, ConcatEmptySeq DEF Spells
<1>2. ReadNode(b) = Read(x, << >>)
  <2> HIDE DEF Spells
  <2> QED
    BY <1>1, ReadNodeRestores
<1>3. ReadNode(b).err = "Ok" /\ ReadNode(b).v = x
  BY <1>2, ReadFieldsOf
<1>4. ReadNode(b) \in Reading(Nodes)
  BY <1>1, ReadNodeTyped
<1> QED
  BY <1>3, <1>4, ReadingCases

Dues(h, e) ==
  /\ h[0] = 1 /\ h[Len(e)] = 0
  /\ \A k \in 0 .. Len(e) : h[k] \in Nat /\ (h[k] > 0 \/ k = Len(e))
  /\ \A k \in 1 .. Len(e) : h[k] = h[k - 1] - 1 + Arity(e[k].op)

LEMMA WholeRecursion ==
  ASSUME NEW e \in Seq(WireNode), Whole(e)
  PROVE  \E h : Dues(h, e)
<1> DEFINE n == Len(e)
           a(k) == Arity(e[k].op)
           I == [k \in 0 .. n |-> Int]
           step == [p \in (1 .. n) \X Int |-> p[2] - 1 + a(p[1])]
           E(g) == g = [k \in 0 .. n |-> IF k = 0 THEN 1 ELSE g[k - 1] - 1 + a(k)]
           due == CHOOSE g : E(g)
<1>1. n \in Nat
  BY LenProperties
<1>2. \A k \in 1 .. n : a(k) \in 0 .. 3
  BY ElementOfSeq, WireNodeIsNode, ArityTyped
<1>3. \A k \in 0 .. n : I[k] = Int
  OBVIOUS
<1>4. \A k \in 1 .. n : \A u \in Int : step[<<k, u>>] = u - 1 + a(k)
  OBVIOUS
<1>5. due[n] = 0 /\ \A k \in 0 .. n - 1 : due[k] > 0
  BY DEF Whole
<1> HIDE DEF n, I, step, a
<1>6. ASSUME NEW k \in 1 .. n, NEW u \in Int PROVE u - 1 + a(k) \in Int
  <2>1. a(k) \in 0 .. 3
    BY <1>2
  <2> QED
    BY <2>1
<1>7. PICK f : Iterates(f, n, I, 1, step)
  <2>1. ASSUME NEW k \in 1 .. n, NEW u \in I[k - 1] PROVE step[<<k, u>>] \in I[k]
    <3>1. k \in 0 .. n /\ k - 1 \in 0 .. n
      BY <1>1
    <3>2. u \in Int
      BY <1>3, <3>1
    <3> QED
      BY <1>3, <1>4, <1>6, <3>1, <3>2
  <2>2. 0 \in 0 .. n /\ 1 \in I[0]
    BY <1>1, <1>3
  <2> QED
    BY <1>1, <2>1, <2>2, Iteration
<1>8. E(f)
  <2>1. f = [k \in 0 .. n |-> f[k]] /\ f[0] = 1
    BY <1>7 DEF Iterates
  <2>2. ASSUME NEW k \in 1 .. n PROVE f[k] = f[k - 1] - 1 + a(k)
    <3>1. k - 1 \in 0 .. n
      BY <1>1
    <3>2. f[k - 1] \in I[k - 1] /\ f[k] = step[<<k, f[k - 1]>>]
      BY <1>7, <3>1 DEF Iterates
    <3> QED
      BY <1>3, <1>4, <3>1, <3>2
  <2>3. ASSUME NEW k \in 0 .. n PROVE f[k] = IF k = 0 THEN 1 ELSE f[k - 1] - 1 + a(k)
    <3>1. k # 0 => k \in 1 .. n
      BY <1>1
    <3> QED
      BY <2>1, <2>2, <3>1
  <2> QED
    BY <2>1, <2>3, Zenon
<1>9. E(due)
  BY <1>8
<1> HIDE DEF due
<1>10. ASSUME NEW k \in 0 .. n PROVE due[k] = IF k = 0 THEN 1 ELSE due[k - 1] - 1 + a(k)
  BY <1>9
<1> HIDE DEF E
<1> DEFINE P == {k \in 0 .. n : due[k] \in Int}
<1>11. 0 \in P /\ \A k \in 1 .. n : k - 1 \in P => k \in P
  BY <1>1, <1>6, <1>10
<1>12. \A k \in 0 .. n : k \in P
  <2> HIDE DEF P
  <2> QED
    BY <1>1, <1>11, NatInduct
<1>13. due[0] = 1 /\ due[n] = 0
  BY <1>1, <1>5, <1>10
<1>14. ASSUME NEW k \in 0 .. n PROVE due[k] \in Nat /\ (due[k] > 0 \/ k = n)
  <2>1. k = n \/ k \in 0 .. n - 1
    BY <1>1
  <2>2. due[k] \in Int
    BY <1>12
  <2> QED
    BY <1>5, <2>1, <2>2
<1>15. ASSUME NEW k \in 1 .. n PROVE due[k] = due[k - 1] - 1 + a(k)
  BY <1>1, <1>10
<1>16. Dues(due, e)
  BY <1>13, <1>14, <1>15 DEF Dues, n, a
<1> QED
  BY <1>16

\* The reader of nodes, and an expression's words.
Taking(g) == \A p \in Due : g[p] = NodesStep(g, p)

LEMMA NodeWordsTyped ==
  ASSUME NEW e \in Seq(WireNode)
  PROVE  NodeWords(e) \in Seq(Seq(Byte)) /\ EncodeExpr(e) \in Seq(Byte)
<1> DEFINE ws == NodeWords(e)
<1>1. Len(e) \in Nat /\ DOMAIN e = 1 .. Len(e)
  BY LenProperties
<1>2. \A k \in 1 .. Len(e) : EncodeNode(e[k]) \in Seq(Byte)
  BY ElementOfSeq, EncodeNodeTyped
<1>3. ws \in [1 .. Len(e) -> Seq(Byte)]
  BY <1>1, <1>2 DEF NodeWords
<1>4. ws \in Seq(Seq(Byte))
  <2> HIDE DEF ws
  <2> QED
    BY <1>1, <1>3, SeqDef
<1>5. FlattenSeq(ws) \in Seq(Byte)
  <2> HIDE DEF ws
  <2> QED
    BY <1>4, FlattenTyped
<1> QED
  BY <1>4, <1>5 DEF NodeWords, EncodeExpr, WriteEach

\* Behind the first k nodes h[k] expressions are due.
RestTaken(g, h, e, q, k) ==
  \A r : Spells(EncodeExpr(Behind(e, k)), q, r) => g[<<h[k], r>>] = Read(Behind(e, k), q)

LEMMA NodesStepGoes ==
  ASSUME NEW g, NEW p \in Due, NEW u, p[1] # 0, ReadNode(p[2]).err = "Ok",
         u = <<p[1] - 1 + Arity(ReadNode(p[2]).v.op), ReadNode(p[2]).rest>>
  PROVE  NodesStep(g, p) =
           IF g[u].err = "Ok" THEN Read(<<ReadNode(p[2]).v>> \o g[u].v, g[u].rest) ELSE g[u]
BY NodesStepIs

LEMMA NodeTaken ==
  ASSUME NEW g, NEW h, NEW e \in Seq(WireNode), NEW q, NEW k \in 1 .. Len(e),
         Taking(g), Dues(h, e), RestTaken(g, h, e, q, k)
  PROVE  RestTaken(g, h, e, q, k - 1)
<1> DEFINE x == e[k]
           t == Behind(e, k)
<1>1. Len(e) \in Nat /\ k \in 0 .. Len(e) /\ k - 1 \in 0 .. Len(e) /\ k - 1 # Len(e)
  BY LenProperties
<1>2. x \in WireNode /\ x \in Nodes
  BY ElementOfSeq, WireNodeIsNode
<1>3. t \in Seq(WireNode) /\ t \in Seq(Nodes)
  <2>1. t \in Seq(WireNode)
    BY <1>1, BehindProperties
  <2> HIDE DEF t
  <2> QED
    BY <2>1, WireNodeIsNode, SeqMonotonic
<1>4. Behind(e, k - 1) = <<x>> \o t
  BY BehindParts
<1> HIDE DEF x, t
<1>5. EncodeNode(x) \in Seq(Byte) /\ NodeWords(t) \in Seq(Seq(Byte)) /\ EncodeExpr(t) \in Seq(Byte)
  BY <1>2, <1>3, EncodeNodeTyped, NodeWordsTyped
<1>6. EncodeExpr(<<x>> \o t) = EncodeNode(x) \o EncodeExpr(t)
  BY <1>2, <1>3, <1>5, EncodePrepend
<1>7. h[k - 1] \in Nat /\ h[k - 1] # 0 /\ h[k] = h[k - 1] - 1 + Arity(x.op)
  <2>1. h[k - 1] \in Nat /\ (h[k - 1] > 0 \/ k - 1 = Len(e))
    BY <1>1 DEF Dues
  <2>2. h[k] = h[k - 1] - 1 + Arity(x.op)
    BY DEF Dues, x
  <2> QED
    BY <1>1, <2>1, <2>2
<1>8. SUFFICES ASSUME NEW r, Spells(EncodeExpr(<<x>> \o t), q, r) PROVE g[<<h[k - 1], r>>] = Read(<<x>> \o t, q)
  BY <1>4 DEF RestTaken
<1> DEFINE rest == EncodeExpr(t) \o q
<1>9. Spells(EncodeNode(x), rest, r) /\ Spells(EncodeExpr(t), q, rest)
  <2> DEFINE w == EncodeNode(x)
             v == EncodeExpr(t)
  <2>1. Spells(w \o v, q, r) /\ w \in Seq(Byte) /\ v \in Seq(Byte)
    BY <1>5, <1>6, <1>8
  <2> HIDE DEF w, v
  <2>2. Spells(w, v \o q, r) /\ Spells(v, q, v \o q)
    BY <2>1, SpellsBoth
  <2> QED
    BY <2>2 DEF w, v
<1>10. r \in Seq(Byte)
  BY <1>9, SpellsParts
<1>11. ReadNode(r) = Read(x, rest)
  <2> HIDE DEF rest
  <2> QED
    BY <1>2, <1>9, ReadNodeRestores
<1>12. g[<<h[k], rest>>] = Read(t, q)
  BY <1>9 DEF RestTaken, t
<1> DEFINE p == <<h[k - 1], r>>
           d == ReadNode(r)
           u == <<p[1] - 1 + Arity(d.v.op), d.rest>>
<1>13. p \in Due /\ p[1] = h[k - 1] /\ p[2] = r
  BY <1>7, <1>10 DEF Due
<1> HIDE DEF rest, p
<1>14. d.err = "Ok" /\ d.v = x /\ d.rest = rest
  <2>1. d = Read(x, rest)
    BY <1>11
  <2> HIDE DEF d
  <2> QED
    BY <2>1, ReadFieldsOf
<1>15. u = <<h[k], rest>>
  BY <1>7, <1>13, <1>14
<1>16. NodesStep(g, p) = IF g[u].err = "Ok" THEN Read(<<d.v>> \o g[u].v, g[u].rest) ELSE g[u]
  <2> HIDE DEF u
  <2>1. p \in Due /\ p[1] # 0 /\ ReadNode(p[2]).err = "Ok"
    BY <1>7, <1>13, <1>14
  <2>2. u = <<p[1] - 1 + Arity(ReadNode(p[2]).v.op), ReadNode(p[2]).rest>>
    BY <1>13 DEF u
  <2>3. ReadNode(p[2]) = d
    BY <1>13
  <2> HIDE DEF d
  <2> QED
    BY <2>1, <2>2, <2>3, NodesStepGoes
<1> HIDE DEF d, u
<1> DEFINE w == g[u]
<1>17. w = Read(t, q)
  BY <1>12, <1>15
<1> HIDE DEF w
<1>18. w.err = "Ok" /\ w.v = t /\ w.rest = q
  BY <1>17, ReadFieldsOf
<1>19. NodesStep(g, p) = Read(<<x>> \o t, q)
  BY <1>14, <1>16, <1>18 DEF w
<1>20. g[p] = NodesStep(g, p)
  BY <1>13 DEF Taking
<1> QED
  BY <1>19, <1>20 DEF p

LEMMA DecodeExprRestores ==
  ASSUME NEW e \in WireExpr, NEW q, NEW b, Spells(EncodeExpr(e), q, b)
  PROVE  DecodeExpr(b) = Read(e, q)
<1>1. e \in Seq(WireNode) /\ Whole(e) /\ Len(e) \in Nat
  BY LenProperties DEF WireExpr
<1>2. PICK h : Dues(h, e)
  BY <1>1, WholeRecursion
<1>3. PICK g : Taking(g) /\ \A r : DecodeExpr(r) = g[<<1, r>>]
  BY DecodeExprRecursion DEF Taking
<1> DEFINE n == Len(e)
           P == {j \in 0 .. n : RestTaken(g, h, e, q, n - j)}
<1>4. n \in Nat
  BY <1>1
<1>5. 0 \in P
  <2>1. n - 0 = n
    BY <1>4
  <2>2. Behind(e, n) = << >>
    BY <1>1, BehindParts
  <2>3. EncodeExpr(<< >>) = << >>
    <3>1. DOMAIN << >> = {}
      OBVIOUS
    <3>2. [k \in DOMAIN << >> |-> EncodeNode(<< >>[k])] = << >>
      BY <3>1
    <3> QED
      BY <3>2, FlattenEmpty DEF EncodeExpr, WriteEach
  <2>4. ASSUME NEW r, Spells(<< >>, q, r) PROVE g[<<h[n], r>>] = Read(<< >>, q)
    <3>1. r = q /\ r \in Seq(Byte)
      BY <2>4, SpellsParts, ConcatEmptySeq DEF Spells
    <3> DEFINE p == <<0, r>>
    <3>2. p \in Due /\ p[1] = 0 /\ p[2] = r
      BY <3>1 DEF Due
    <3> HIDE DEF p
    <3>3. NodesStep(g, p) = Read(<< >>, p[2])
      BY <3>2, NodesStepIs
    <3>4. g[p] = Read(<< >>, r)
      BY <1>3, <3>2, <3>3 DEF Taking
    <3>5. h[n] = 0
      BY <1>2 DEF Dues
    <3> QED
      BY <3>1, <3>4, <3>5 DEF p
  <2>5. RestTaken(g, h, e, q, n)
    BY <2>2, <2>3, <2>4 DEF RestTaken
  <2> QED
    BY <1>4, <2>1, <2>5
<1>6. ASSUME NEW j \in 1 .. n, j - 1 \in P PROVE j \in P
  <2> DEFINE k == n - (j - 1)
  <2>1. k \in 1 .. n /\ k - 1 = n - j /\ j \in 0 .. n
    BY <1>4
  <2>2. RestTaken(g, h, e, q, k)
    BY <1>6
  <2> HIDE DEF k
  <2>3. RestTaken(g, h, e, q, k - 1)
    BY <1>1, <1>2, <1>3, <2>1, <2>2, NodeTaken DEF n
  <2> QED
    BY <2>1, <2>3
<1>7. n \in P
  <2> HIDE DEF P
  <2>1. \A j \in 0 .. n : j \in P
    BY <1>4, <1>5, <1>6, NatInduct
  <2> QED
    BY <1>4, <2>1
<1>8. RestTaken(g, h, e, q, 0)
  <2>1. n - n = 0
    BY <1>4
  <2> QED
    BY <1>7, <2>1
<1>9. Behind(e, 0) = e
  BY <1>1, BehindParts
<1>10. h[0] = 1
  BY <1>2 DEF Dues
<1> QED
  BY <1>3, <1>8, <1>9, <1>10 DEF RestTaken

LEMMA ExprWritten ==
  ASSUME NEW e \in WireExpr
  PROVE  EncodeExpr(e) \in Seq(Byte)
BY NodeWordsTyped DEF WireExpr

-----------------------------------------------------------------------------
(* Bindings that are written.                                              *)

FieldsFit(tys, args) ==
  /\ tys \in Seq(Type \cup {"ValueType"}) /\ args \in Seq(Int) /\ Len(args) = Len(tys)
  /\ \A k \in 1 .. Len(tys) : args[k] \in IF tys[k] = "ValueType" THEN 0 .. 13 ELSE Carried(tys[k])

FieldReader(ty) == [r \in Seq(Byte) |-> IF ty = "ValueType" THEN ReadTag(14, r) ELSE ReadNumber(ty, r)]

LEMMA FieldRestored ==
  ASSUME NEW ty \in Type \cup {"ValueType"}, NEW a \in IF ty = "ValueType" THEN 0 .. 13 ELSE Carried(ty)
  PROVE  /\ \A r \in Seq(Byte) : FieldReader(ty)[r] \in Reading(Int)
         /\ Restoring(FieldReader(ty), EncodeArg(ty, a), a)
<1>1. \A r \in Seq(Byte) : FieldReader(ty)[r] = IF ty = "ValueType" THEN ReadTag(14, r) ELSE ReadNumber(ty, r)
  BY DEF FieldReader
<1> DEFINE reader == FieldReader(ty)
<1> HIDE DEF reader
<1>2. CASE ty = "ValueType"
  <2>1. EncodeArg(ty, a) = <<a>> /\ a \in 0 .. 14 - 1 /\ 14 \in Nat
    BY <1>2, ValueTypeTag
  <2>2. a \in Byte
    BY <2>1, WireAssumption DEF Byte
  <2>3. <<a>> \in Seq(Byte)
    BY <2>2, OneByte
  <2>4. \A r \in Seq(Byte) : reader[r] = ReadTag(14, r)
    BY <1>1, <1>2 DEF reader
  <2>5. ASSUME NEW r \in Seq(Byte) PROVE reader[r] \in Reading(Int)
    <3>1. ReadTag(14, r) \in Reading(0 .. 14 - 1)
      BY <2>1, ReadTagTyped
    <3>2. 0 .. 14 - 1 \subseteq Int
      OBVIOUS
    <3> QED
      BY <2>4, <3>1, <3>2, ReadingMore
  <2>6. ASSUME NEW q \in Seq(Byte), NEW b \in Seq(Byte), Spells(<<a>>, q, b) PROVE reader[b] = Read(a, q)
    BY <2>1, <2>2, <2>4, <2>6, ReadTagRestores
  <2>7. Restoring(reader, <<a>>, a)
    BY <2>3, <2>6 DEF Restoring
  <2> QED
    BY <2>1, <2>5, <2>7 DEF reader
<1>3. CASE ty # "ValueType"
  <2>1. EncodeArg(ty, a) = Write(ty, a) /\ a \in Carried(ty) /\ ty \in Type
    BY <1>3 DEF EncodeArg
  <2>2. Write(ty, a) \in Seq(Byte)
    BY <2>1, WriteTyped
  <2>3. \A r \in Seq(Byte) : reader[r] = ReadNumber(ty, r)
    BY <1>1, <1>3 DEF reader
  <2>4. ASSUME NEW r \in Seq(Byte) PROVE reader[r] \in Reading(Int)
    <3>1. ReadNumber(ty, r) \in Reading(Values(ty)) /\ Values(ty) \subseteq Int
      BY <2>1, ReadNumberTyped, ValuesAreIntegers
    <3> QED
      BY <2>3, <3>1, ReadingMore
  <2>5. ASSUME NEW q \in Seq(Byte), NEW b \in Seq(Byte), Spells(Write(ty, a), q, b) PROVE reader[b] = Read(a, q)
    BY <2>1, <2>3, <2>5, ReadNumberRestores
  <2>6. Restoring(reader, Write(ty, a), a)
    BY <2>2, <2>5 DEF Restoring
  <2> QED
    BY <2>1, <2>4, <2>6 DEF reader
<1> QED
  BY <1>2, <1>3

\* Lists of words.
LEMMA WordsTyped ==
  ASSUME NEW n \in Nat, NEW ws, ws = [k \in 1 .. n |-> ws[k]], \A k \in 1 .. n : ws[k] \in Seq(Byte)
  PROVE  ws \in Seq(Seq(Byte)) /\ Len(ws) = n /\ FlattenSeq(ws) \in Seq(Byte)
<1>1. ws \in [1 .. n -> Seq(Byte)]
  OBVIOUS
<1>2. ws \in Seq(Seq(Byte)) /\ Len(ws) = n
  BY <1>1, SeqDef, LenProperties
<1> QED
  BY <1>2, FlattenTyped

LEMMA ReadFieldsRestores ==
  ASSUME NEW tys, NEW args, FieldsFit(tys, args)
  PROVE  /\ FlattenSeq(FieldWords(tys, args)) \in Seq(Byte)
         /\ \A q, b : Spells(FlattenSeq(FieldWords(tys, args)), q, b) => ReadFields(tys, b) = Read(args, q)
<1> DEFINE readers == [k \in DOMAIN tys |-> [r \in Seq(Byte) |->
                         IF tys[k] = "ValueType" THEN ReadTag(14, r) ELSE ReadNumber(tys[k], r)]]
           n == Len(tys)
           ws == FieldWords(tys, args)
<1>1. n \in Nat /\ DOMAIN tys = 1 .. n /\ \A k \in 1 .. n : tys[k] \in Type \cup {"ValueType"}
  BY LenProperties, ElementOfSeq DEF FieldsFit
<1>2. Len(readers) = n
  BY <1>1, LenProperties
<1>3. args \in Seq(Int) /\ Len(args) = n
      /\ \A k \in 1 .. n : args[k] \in IF tys[k] = "ValueType" THEN 0 .. 13 ELSE Carried(tys[k])
  BY DEF FieldsFit
<1> HIDE DEF n
<1>4. \A k \in 1 .. n : readers[k] = FieldReader(tys[k])
  BY <1>1, Zenon DEF FieldReader
<1>5. ws = [k \in 1 .. n |-> EncodeArg(tys[k], args[k])]
  BY <1>1, Zenon DEF FieldWords
<1>6. \A b : ReadFields(tys, b) = ReadEach(readers, b)
  BY DEF ReadFields
<1> HIDE DEF readers, ws
<1>7. ws = [k \in 1 .. n |-> ws[k]] /\ \A k \in 1 .. n : ws[k] = EncodeArg(tys[k], args[k])
  BY <1>5
<1>8. ASSUME NEW k \in 1 .. n
      PROVE  (\A r \in Seq(Byte) : readers[k][r] \in Reading(Int)) /\ Restoring(readers[k], ws[k], args[k])
  BY <1>1, <1>3, <1>4, <1>7, FieldRestored
<1>9. \A k \in 1 .. n : ws[k] \in Seq(Byte)
  BY <1>8 DEF Restoring
<1>10. ws \in Seq(Seq(Byte)) /\ Len(ws) = n /\ FlattenSeq(ws) \in Seq(Byte)
  BY <1>1, <1>7, <1>9, WordsTyped
<1>11. ASSUME NEW q, NEW b, Spells(FlattenSeq(ws), q, b) PROVE ReadEach(readers, b) = Read(args, q)
  <2>1. Row(Int, readers, ws, args)
    BY <1>1, <1>2, <1>3, <1>8, <1>10 DEF Row
  <2> QED
    BY <1>11, <2>1, ReadEachRestores
<1> QED
  BY <1>6, <1>10, <1>11 DEF ws

\* A word w behind a tag.
LEMMA BehindTag ==
  ASSUME NEW t \in Byte, NEW w \in Seq(Byte)
  PROVE  /\ <<t>> \o w \in Seq(Byte) /\ <<t>> \o w # << >>
         /\ \A q, b : Spells(<<t>> \o w, q, b) => Spells(<<t>>, w \o q, b) /\ Spells(w, q, w \o q)
<1> DEFINE one == <<t>>
<1>1. one \in Seq(Byte) /\ Len(one) = 1
  BY OneByte
<1> HIDE DEF one
<1>2. one \o w \in Seq(Byte) /\ Len(one \o w) = Len(one) + Len(w)
  BY <1>1, ConcatProperties
<1>3. Len(w) \in Nat /\ Len(<< >>) = 0
  OBVIOUS
<1> DEFINE l == Len(one \o w)
<1>4. l >= 1
  BY <1>1, <1>2, <1>3
<1> HIDE DEF l
<1>5. one \o w # << >>
  BY <1>3, <1>4 DEF l
<1>6. \A q, b : Spells(one \o w, q, b) => Spells(one, w \o q, b) /\ Spells(w, q, w \o q)
  BY <1>1, SpellsBoth
<1> QED
  BY <1>2, <1>5, <1>6 DEF one

LEMMA BindingCases ==
  ASSUME NEW x \in WireBinding
  PROVE  /\ x = [tag |-> x.tag, args |-> x.args, expr |-> x.expr] /\ x.tag \in 0 .. 67 /\ x.tag \in Byte
         /\ x.tag = 2 => x.args = << >> /\ x.expr \in WireExpr
         /\ x.tag # 2 => x.expr = NoExpr /\ FieldsFit(BindingFields(x.tag), x.args)
<1>1. x = [tag |-> x.tag, args |-> x.args, expr |-> x.expr]
  BY DEF WireBinding
<1>2. x.tag \in 0 .. 67 /\ x.args \in Seq(Int) /\ x.expr \in Seq(WireNode)
  BY DEF WireBinding
<1>3. x.tag \in Byte
  <2>1. Base \in Nat /\ Base > 68
    BY WireAssumption
  <2>2. \A k \in 0 .. 67 : k \in 0 .. Base - 1
    BY <2>1
  <2> QED
    BY <1>2, <2>2 DEF Byte
<1>4. x.tag = 2 => x.args = << >> /\ x.expr \in WireExpr
  BY <1>2 DEF WireBinding, WireExpr
<1> DEFINE tys == BindingFields(x.tag)
<1>5. x.tag # 2 =>
        /\ x.expr = NoExpr /\ Len(x.args) = Len(tys)
        /\ \A k \in DOMAIN tys : x.args[k] \in IF tys[k] = "ValueType" THEN 0 .. 13 ELSE Carried(tys[k])
  BY DEF WireBinding
<1>6. tys \in Seq(Type \cup {"ValueType"})
  BY BindingFieldsTyped
<1> HIDE DEF tys
<1>7. DOMAIN tys = 1 .. Len(tys)
  BY <1>6, LenProperties
<1>8. x.tag # 2 => x.expr = NoExpr /\ FieldsFit(tys, x.args)
  BY <1>2, <1>5, <1>6, <1>7 DEF FieldsFit
<1> QED
  BY <1>1, <1>2, <1>3, <1>4, <1>8 DEF tys

LEMMA BindingTail ==
  ASSUME NEW x \in WireBinding
  PROVE  LET w == IF x.tag = 2 THEN EncodeExpr(x.expr) ELSE FlattenSeq(FieldWords(BindingFields(x.tag), x.args)) IN
         EncodeBinding(x) = <<x.tag>> \o w /\ w \in Seq(Byte)
<1> DEFINE w == IF x.tag = 2 THEN EncodeExpr(x.expr) ELSE FlattenSeq(FieldWords(BindingFields(x.tag), x.args))
<1>1. EncodeBinding(x) = <<x.tag>> \o w
  <2>1. x = [tag |-> x.tag, args |-> x.args, expr |-> x.expr] /\ x.tag \in 0 .. 67
    BY BindingCases
  <2>2. EncodeBinding([tag |-> x.tag, args |-> x.args, expr |-> x.expr])
          = <<x.tag>> \o IF x.tag = 2 THEN EncodeExpr(x.expr) ELSE FlattenSeq(FieldWords(BindingFields(x.tag), x.args))
    BY <2>1, EncodeBindingIs
  <2> QED
    BY <2>1, <2>2, Zenon
<1>2. w \in Seq(Byte)
  BY BindingCases, ExprWritten, ReadFieldsRestores
<1> QED
  BY <1>1, <1>2

LEMMA DecodeBindingRestores ==
  ASSUME NEW x \in WireBinding, NEW q, NEW b, Spells(EncodeBinding(x), q, b)
  PROVE  DecodeBinding(b) = Read(x, q)
<1> DEFINE t == ReadTag(68, b)
           e == DecodeExpr(t.rest)
           a == ReadFields(BindingFields(t.v), t.rest)
           eval(y) == [tag |-> 2, args |-> << >>, expr |-> y]
           load(y) == [tag |-> t.v, args |-> y, expr |-> NoExpr]
           w == IF x.tag = 2 THEN EncodeExpr(x.expr) ELSE FlattenSeq(FieldWords(BindingFields(x.tag), x.args))
           r == w \o q
<1>1. DecodeBinding(b)
        = IF t.err # "Ok" THEN t
          ELSE IF t.v = 2 THEN IF e.err = "Ok" THEN Read(eval(e.v), e.rest) ELSE e
          ELSE IF a.err = "Ok" THEN Read(load(a.v), a.rest) ELSE a
  BY DecodeBindingIs, Zenon
<1>2. EncodeBinding(x) = <<x.tag>> \o w /\ w \in Seq(Byte) /\ x.tag \in Byte /\ x.tag \in 0 .. 68 - 1 /\ 68 \in Nat
  BY BindingTail, BindingCases
<1>3. Spells(<<x.tag>>, r, b) /\ Spells(w, q, r)
  <2> HIDE DEF w
  <2>1. Spells(<<x.tag>> \o w, q, b)
    BY <1>2
  <2> QED
    BY <1>2, <2>1, BehindTag
<1>4. t = Read(x.tag, r)
  <2> HIDE DEF r
  <2> QED
    BY <1>2, <1>3, ReadTagRestores
<1>5. t.err = "Ok" /\ t.v = x.tag /\ t.rest = r
  <2> HIDE DEF t, r
  <2> QED
    BY <1>4, ReadFieldsOf
<1> HIDE DEF t, r
<1>6. CASE x.tag = 2
  <2>1. x.expr \in WireExpr /\ Spells(EncodeExpr(x.expr), q, r)
    BY <1>3, <1>6, BindingCases
  <2>2. e = Read(x.expr, q)
    BY <1>5, <2>1, DecodeExprRestores
  <2> HIDE DEF e, a, load
  <2>3. e.err = "Ok" /\ e.v = x.expr /\ e.rest = q
    BY <2>2, ReadFieldsOf
  <2>4. eval(e.v) = x
    BY <1>6, <2>3, BindingCases
  <2> QED
    BY <1>1, <1>5, <1>6, <2>3, <2>4
<1>7. CASE x.tag # 2
  <2> DEFINE tys == BindingFields(x.tag)
  <2>1. FieldsFit(tys, x.args) /\ Spells(FlattenSeq(FieldWords(tys, x.args)), q, r)
    BY <1>3, <1>7, BindingCases
  <2>2. a = ReadFields(tys, r)
    BY <1>5
  <2> HIDE DEF e, a, eval, tys
  <2>3. a = Read(x.args, q)
    BY <2>1, <2>2, ReadFieldsRestores
  <2>4. a.err = "Ok" /\ a.v = x.args /\ a.rest = q
    BY <2>3, ReadFieldsOf
  <2>5. load(a.v) = x
    BY <1>5, <1>7, <2>4, BindingCases
  <2> QED
    BY <1>1, <1>5, <1>7, <2>4, <2>5
<1> QED
  BY <1>6, <1>7

LEMMA BindingWritten ==
  ASSUME NEW x \in WireBinding
  PROVE  EncodeBinding(x) \in Seq(Byte)
BY BindingTail, BindingCases, BehindTag

-----------------------------------------------------------------------------
(* Steps that are written.                                                 *)

LEMMA SmallTags == 0 .. 67 \subseteq Byte
<1>1. Base \in Nat /\ Base > 68
  BY WireAssumption
<1> QED
  BY <1>1 DEF Byte

\* A tag that is there only if there are alternatives.
ChoiceWord(n, t) == IF n > 1 THEN <<t>> ELSE << >>
ReadChoice(n, b) == IF n > 1 THEN ReadTag(n, b) ELSE Read(0, b)

LEMMA ReadChoiceRestores ==
  ASSUME NEW n \in 1 .. 67, NEW t \in 0 .. n - 1
  PROVE  /\ ChoiceWord(n, t) \in Seq(Byte)
         /\ \A q, b : Spells(ChoiceWord(n, t), q, b) => ReadChoice(n, b) = Read(t, q)
<1>1. t \in 0 .. 67 /\ n \in Nat
  OBVIOUS
<1>2. t \in Byte
  BY <1>1, SmallTags
<1>3. CASE n > 1
  <2>1. ChoiceWord(n, t) = <<t>> /\ <<t>> \in Seq(Byte) /\ \A b : ReadChoice(n, b) = ReadTag(n, b)
    BY <1>2, <1>3, OneByte DEF ChoiceWord, ReadChoice
  <2> QED
    BY <1>1, <1>2, <2>1, ReadTagRestores
<1>4. CASE ~ (n > 1)
  <2>1. ChoiceWord(n, t) = << >> /\ t = 0 /\ \A b : ReadChoice(n, b) = Read(0, b)
    BY <1>4 DEF ChoiceWord, ReadChoice
  <2>2. << >> \in Seq(Byte)
    OBVIOUS
  <2>3. ASSUME NEW q, NEW b, Spells(<< >>, q, b) PROVE b = q
    BY <2>3, ConcatEmptySeq DEF Spells
  <2> QED
    BY <2>1, <2>2, <2>3
<1> QED
  BY <1>3, <1>4

\* What is behind a field's tag.
KindWord(kind, v) == CASE kind = "none" -> << >> [] kind = "frame" -> <<v>> [] OTHER -> Write(kind, v)
KindFits(kind, v) == v \in CASE kind = "none" -> {0} [] kind = "frame" -> Byte [] OTHER -> Carried(kind)
ReadKind(kind, b) ==
  CASE kind = "none" -> Read(0, b) [] kind = "frame" -> ReadByte(b) [] OTHER -> ReadNumber(kind, b)

LEMMA ReadKindRestores ==
  ASSUME NEW kind \in Kinds, NEW v, KindFits(kind, v)
  PROVE  /\ KindWord(kind, v) \in Seq(Byte)
         /\ \A q, b : Spells(KindWord(kind, v), q, b) => ReadKind(kind, b) = Read(v, q)
<1>1. CASE kind = "none"
  <2>1. KindWord(kind, v) = << >> /\ v = 0 /\ \A b : ReadKind(kind, b) = Read(0, b)
    BY <1>1 DEF KindWord, KindFits, ReadKind
  <2>2. << >> \in Seq(Byte)
    OBVIOUS
  <2>3. ASSUME NEW q, NEW b, Spells(<< >>, q, b) PROVE b = q
    BY <2>3, ConcatEmptySeq DEF Spells
  <2> QED
    BY <2>1, <2>2, <2>3
<1>2. CASE kind = "frame"
  <2>1. KindWord(kind, v) = <<v>> /\ v \in Byte /\ \A b : ReadKind(kind, b) = ReadByte(b)
    BY <1>2 DEF KindWord, KindFits, ReadKind
  <2>2. <<v>> \in Seq(Byte)
    BY <2>1, OneByte
  <2> QED
    BY <2>1, <2>2, ReadByteRestores
<1>3. CASE kind \notin {"none", "frame"}
  <2>1. KindWord(kind, v) = Write(kind, v) /\ v \in Carried(kind) /\ \A b : ReadKind(kind, b) = ReadNumber(kind, b)
    BY <1>3 DEF KindWord, KindFits, ReadKind
  <2>2. kind \in Type
    BY <1>3 DEF Kinds
  <2> QED
    BY <2>1, <2>2, WriteTyped, ReadNumberRestores
<1> QED
  BY <1>1, <1>2, <1>3

LEMMA WireFieldCases ==
  ASSUME NEW f \in PatchFields, NEW x \in WireField(f)
  PROVE  /\ x = [tag |-> x.tag, v |-> x.v] /\ Len(f.kinds) \in 1 .. 67 /\ x.tag \in 0 .. Len(f.kinds) - 1
         /\ f.kinds[x.tag + 1] \in Kinds /\ KindFits(f.kinds[x.tag + 1], x.v) /\ x \in FieldValues
<1>1. f.kinds \in Seq(Kinds) /\ f.kinds # << >> /\ Len(f.kinds) <= 3
  BY DEF PatchFields, KindLists
<1> DEFINE n == Len(f.kinds)
<1>2. n \in 1 .. 67
  <2>1. n \in Nat \ {0} /\ n <= 3
    BY <1>1, LenProperties, EmptySeq
  <2> HIDE DEF n
  <2> QED
    BY <2>1
<1>3. x \in [tag : 0 .. n - 1, v : Int] /\ KindFits(f.kinds[x.tag + 1], x.v)
  BY Zenon DEF WireField, KindFits
<1> HIDE DEF n
<1>4. x = [tag |-> x.tag, v |-> x.v] /\ x.tag \in 0 .. n - 1 /\ x.v \in Int
  BY <1>3
<1>5. x.tag \in Nat /\ x.tag + 1 \in 1 .. n
  BY <1>2, <1>4
<1>6. f.kinds[x.tag + 1] \in Kinds
  BY <1>1, <1>5, ElementOfSeq DEF n
<1>7. x \in FieldValues
  BY <1>4, <1>5 DEF FieldValues
<1> QED
  BY <1>2, <1>3, <1>4, <1>6, <1>7 DEF n

LEMMA PatchWordOf ==
  ASSUME NEW f \in PatchFields, NEW x \in WireField(f)
  PROVE  PatchWord(f, x) = ChoiceWord(Len(f.kinds), x.tag) \o KindWord(f.kinds[x.tag + 1], x.v)
<1>1. x = [tag |-> x.tag, v |-> x.v] /\ x.tag \in 0 .. Len(f.kinds) - 1
  BY WireFieldCases
<1>2. PatchWord(f, [tag |-> x.tag, v |-> x.v])
        = ChoiceWord(Len(f.kinds), x.tag) \o KindWord(f.kinds[x.tag + 1], x.v)
  BY <1>1, PatchWordIs, Zenon DEF ChoiceWord, KindWord
<1> QED
  BY <1>1, <1>2, Zenon

LEMMA ReadFieldIs ==
  ASSUME NEW f, NEW b
  PROVE  LET t == ReadChoice(Len(f.kinds), b)
             d == ReadKind(f.kinds[t.v + 1], t.rest)
         IN DecodeField(f, b) =
              IF t.err # "Ok" THEN t ELSE IF d.err = "Ok" THEN Read([tag |-> t.v, v |-> d.v], d.rest) ELSE d
BY DecodeFieldIs, Zenon DEF ReadChoice, ReadKind

LEMMA DecodeFieldRestores ==
  ASSUME NEW f \in PatchFields, NEW x \in WireField(f)
  PROVE  /\ PatchWord(f, x) \in Seq(Byte)
         /\ \A q, b : Spells(PatchWord(f, x), q, b) => DecodeField(f, b) = Read(x, q)
<1> DEFINE n == Len(f.kinds)
           kind == f.kinds[x.tag + 1]
           w == ChoiceWord(n, x.tag)
           u == KindWord(kind, x.v)
<1>1. /\ x = [tag |-> x.tag, v |-> x.v] /\ n \in 1 .. 67 /\ x.tag \in 0 .. n - 1
      /\ kind \in Kinds /\ KindFits(kind, x.v)
  BY WireFieldCases
<1>2. PatchWord(f, x) = w \o u
  BY PatchWordOf
<1>3. w \in Seq(Byte) /\ u \in Seq(Byte)
  BY <1>1, ReadChoiceRestores, ReadKindRestores
<1>4. w \o u \in Seq(Byte)
  <2> HIDE DEF w, u
  <2> QED
    BY <1>3, ConcatProperties
<1>5. ASSUME NEW q, NEW b, Spells(w \o u, q, b) PROVE DecodeField(f, b) = Read(x, q)
  <2> DEFINE r == u \o q
             t == ReadChoice(n, b)
             d == ReadKind(f.kinds[t.v + 1], t.rest)
             value == [tag |-> t.v, v |-> d.v]
  <2>1. Spells(w, r, b) /\ Spells(u, q, r)
    <3> HIDE DEF w, u
    <3> QED
      BY <1>3, <1>5, SpellsBoth
  <2> HIDE DEF r
  <2>2. t = Read(x.tag, r)
    BY <1>1, <2>1, ReadChoiceRestores
  <2>3. DecodeField(f, b) = IF t.err # "Ok" THEN t ELSE IF d.err = "Ok" THEN Read(value, d.rest) ELSE d
    BY ReadFieldIs, Zenon
  <2> HIDE DEF t, w
  <2>4. t.err = "Ok" /\ t.v = x.tag /\ t.rest = r
    BY <2>2, ReadFieldsOf
  <2>5. d = ReadKind(kind, r)
    BY <2>4
  <2> HIDE DEF d
  <2>6. d = Read(x.v, q)
    <3> HIDE DEF kind
    <3> QED
      BY <1>1, <2>1, <2>5, ReadKindRestores DEF u
  <2>7. d.err = "Ok" /\ d.v = x.v /\ d.rest = q
    BY <2>6, ReadFieldsOf
  <2>8. value = x
    BY <1>1, <2>4, <2>7
  <2> QED
    BY <2>3, <2>4, <2>7, <2>8
<1> QED
  BY <1>2, <1>4, <1>5

FieldsOfPatch(fs, vals) ==
  /\ fs \in Seq(PatchFields) /\ vals \in Seq(FieldValues) /\ Len(vals) = Len(fs)
  /\ \A k \in 1 .. Len(fs) : vals[k] \in WireField(fs[k])
PatchWords(fs, vals) == [k \in DOMAIN fs |-> PatchWord(fs[k], vals[k])]
PatchReaders(fs) == [k \in DOMAIN fs |-> [r \in Seq(Byte) |-> DecodeField(fs[k], r)]]

LEMMA ReadPatchFields ==
  ASSUME NEW fs, NEW vals, FieldsOfPatch(fs, vals)
  PROVE  /\ FlattenSeq(PatchWords(fs, vals)) \in Seq(Byte)
         /\ \A q, b : Spells(FlattenSeq(PatchWords(fs, vals)), q, b) => ReadEach(PatchReaders(fs), b) = Read(vals, q)
<1> DEFINE readers == PatchReaders(fs)
           ws == PatchWords(fs, vals)
           n == Len(fs)
<1>1. fs \in Seq(PatchFields) /\ vals \in Seq(FieldValues) /\ Len(vals) = n
      /\ \A k \in 1 .. n : vals[k] \in WireField(fs[k])
  BY DEF FieldsOfPatch
<1>2. n \in Nat /\ DOMAIN fs = 1 .. n /\ \A k \in 1 .. n : fs[k] \in PatchFields
  BY <1>1, LenProperties, ElementOfSeq
<1> HIDE DEF n
<1>3. Len(readers) = n /\ \A k \in 1 .. n : \A r \in Seq(Byte) : readers[k][r] = DecodeField(fs[k], r)
  BY <1>2, LenProperties DEF PatchReaders
<1>4. ws = [k \in 1 .. n |-> ws[k]] /\ \A k \in 1 .. n : ws[k] = PatchWord(fs[k], vals[k])
  BY <1>2 DEF PatchWords
<1> HIDE DEF readers, ws
<1>5. ASSUME NEW k \in 1 .. n
      PROVE  (\A r \in Seq(Byte) : readers[k][r] \in Reading(FieldValues)) /\ Restoring(readers[k], ws[k], vals[k])
  <2>1. fs[k] \in PatchFields /\ vals[k] \in WireField(fs[k]) /\ ws[k] = PatchWord(fs[k], vals[k])
    BY <1>1, <1>2, <1>4
  <2>2. \A r \in Seq(Byte) : readers[k][r] = DecodeField(fs[k], r)
    BY <1>3
  <2>3. \A r \in Seq(Byte) : readers[k][r] \in Reading(FieldValues)
    BY <2>1, <2>2, DecodeFieldTyped
  <2>4. ws[k] \in Seq(Byte)
    BY <2>1, DecodeFieldRestores
  <2>5. ASSUME NEW q \in Seq(Byte), NEW b \in Seq(Byte), Spells(ws[k], q, b) PROVE readers[k][b] = Read(vals[k], q)
    BY <2>1, <2>2, <2>5, DecodeFieldRestores
  <2> QED
    BY <2>3, <2>4, <2>5 DEF Restoring
<1>6. \A k \in 1 .. n : ws[k] \in Seq(Byte)
  BY <1>5 DEF Restoring
<1>7. ws \in Seq(Seq(Byte)) /\ Len(ws) = n /\ FlattenSeq(ws) \in Seq(Byte)
  BY <1>2, <1>4, <1>6, WordsTyped
<1>8. ASSUME NEW q, NEW b, Spells(FlattenSeq(ws), q, b) PROVE ReadEach(readers, b) = Read(vals, q)
  <2>1. Row(FieldValues, readers, ws, vals)
    BY <1>1, <1>2, <1>3, <1>5, <1>7 DEF Row
  <2> QED
    BY <1>8, <2>1, ReadEachRestores
<1> QED
  BY <1>7, <1>8 DEF ws, readers

AlternativesAt(variant) == Payload[PatchVariants[variant + 1]]

LEMMA WirePatchCases ==
  ASSUME NEW x \in WirePatch
  PROVE  /\ x = [variant |-> x.variant, alt |-> x.alt, vals |-> x.vals] /\ x.variant \in 0 .. 34 - 1
         /\ Len(AlternativesAt(x.variant)) \in 1 .. 67 /\ x.alt \in 0 .. Len(AlternativesAt(x.variant)) - 1
         /\ FieldsOfPatch(AlternativesAt(x.variant)[x.alt + 1], x.vals)
<1> DEFINE alts == AlternativesAt(x.variant)
           fs == alts[x.alt + 1]
<1>1. x = [variant |-> x.variant, alt |-> x.alt, vals |-> x.vals]
  BY DEF WirePatch
<1>2. x.variant \in 0 .. 34 - 1 /\ x.alt \in Nat /\ x.vals \in Seq(FieldValues)
  BY PatchVariantsTyped DEF WirePatch, FieldValues
<1>3. x.alt < Len(alts) /\ Len(x.vals) = Len(fs) /\ \A k \in DOMAIN fs : x.vals[k] \in WireField(fs[k])
  BY Zenon DEF WirePatch, AlternativesAt
<1>4. alts \in Seq(Seq(PatchFields)) /\ Len(alts) \in 1 .. 67
  <2>1. x.variant + 1 \in 1 .. Len(PatchVariants)
    <3>1. \A v \in 0 .. 34 - 1 : v + 1 \in 1 .. 34
      OBVIOUS
    <3> QED
      BY <1>2, <3>1, PatchVariantsTyped
  <2>2. alts \in Alternatives
    BY <2>1, PatchVariantsTyped, ElementOfSeq, PayloadTyped DEF AlternativesAt
  <2> HIDE DEF alts
  <2>3. alts \in Seq(Seq(PatchFields)) /\ Len(alts) \in Nat \ {0} /\ Len(alts) <= 7
    BY <2>2, LenProperties, EmptySeq DEF Alternatives
  <2>4. \A l \in Nat \ {0} : l <= 7 => l \in 1 .. 67
    OBVIOUS
  <2> QED
    BY <2>3, <2>4
<1> HIDE DEF alts
<1>5. x.alt \in 0 .. Len(alts) - 1 /\ x.alt + 1 \in 1 .. Len(alts)
  BY <1>2, <1>3, <1>4
<1>6. fs \in Seq(PatchFields)
  BY <1>4, <1>5, ElementOfSeq
<1> HIDE DEF fs
<1>7. DOMAIN fs = 1 .. Len(fs)
  BY <1>6, LenProperties
<1>8. FieldsOfPatch(fs, x.vals)
  BY <1>2, <1>3, <1>6, <1>7 DEF FieldsOfPatch
<1> QED
  BY <1>1, <1>2, <1>4, <1>5, <1>8 DEF alts, fs

PatchTail(x) ==
  ChoiceWord(Len(AlternativesAt(x.variant)), x.alt)
    \o FlattenSeq(PatchWords(AlternativesAt(x.variant)[x.alt + 1], x.vals))

LEMMA ThreeWords ==
  ASSUME NEW t \in Byte, NEW w \in Seq(Byte), NEW u \in Seq(Byte)
  PROVE  <<t>> \o w \o u = <<t>> \o (w \o u) /\ w \o u \in Seq(Byte)
<1> DEFINE one == <<t>>
<1>1. one \in Seq(Byte)
  BY OneByte
<1> HIDE DEF one
<1>2. one \o w \o u = one \o (w \o u) /\ w \o u \in Seq(Byte)
  BY <1>1, Regrouped, ConcatProperties
<1> QED
  BY <1>2 DEF one

LEMMA PatchWritten ==
  ASSUME NEW x \in WirePatch
  PROVE  EncodePatch(x) = <<x.variant>> \o PatchTail(x) /\ PatchTail(x) \in Seq(Byte) /\ x.variant \in Byte
<1> DEFINE alts == AlternativesAt(x.variant)
           w == ChoiceWord(Len(alts), x.alt)
           u == FlattenSeq(PatchWords(alts[x.alt + 1], x.vals))
<1>1. x.variant \in Byte
  <2>1. x.variant \in 0 .. 67
    BY WirePatchCases
  <2> QED
    BY <2>1, SmallTags
<1>2. w \in Seq(Byte) /\ u \in Seq(Byte)
  BY WirePatchCases, ReadChoiceRestores, ReadPatchFields
<1>3. EncodePatch(x) = <<x.variant>> \o w \o u
  <2> DEFINE fs == alts[x.alt + 1]
             y == [variant |-> x.variant, alt |-> x.alt, vals |-> x.vals]
  <2>1. /\ x = y /\ x.variant \in 0 .. 34 - 1
        /\ x.alt \in 0 .. Len(alts) - 1 /\ FieldsOfPatch(fs, x.vals)
    BY WirePatchCases
  <2>2. x.variant \in 0 .. 33
    BY <2>1
  <2>3. DOMAIN fs = 1 .. Len(fs)
    BY <2>1, LenProperties DEF FieldsOfPatch
  <2>4. EncodePatch(y) = <<x.variant>> \o w \o u
    BY <2>1, <2>2, <2>3, EncodePatchIs, Zenon DEF AlternativesAt, ChoiceWord, PatchWords
  <2> QED
    BY <2>1, <2>4, Zenon
<1>4. PatchTail(x) = w \o u
  BY DEF PatchTail
<1> HIDE DEF w, u
<1> QED
  BY <1>1, <1>2, <1>3, <1>4, ThreeWords

LEMMA ReadPatchIs ==
  ASSUME NEW b
  PROVE  LET t == ReadTag(Len(PatchVariants), b)
             a == ReadChoice(Len(AlternativesAt(t.v)), t.rest)
             d == ReadEach(PatchReaders(AlternativesAt(t.v)[a.v + 1]), a.rest)
         IN DecodePatch(b) =
              IF t.err # "Ok" THEN t ELSE IF a.err # "Ok" THEN a
              ELSE IF d.err = "Ok" THEN Read([variant |-> t.v, alt |-> a.v, vals |-> d.v], d.rest) ELSE d
BY DecodePatchIs, Zenon DEF ReadChoice, PatchReaders, AlternativesAt

LEMMA DecodePatchRestores ==
  ASSUME NEW x \in WirePatch, NEW q, NEW b, Spells(EncodePatch(x), q, b)
  PROVE  DecodePatch(b) = Read(x, q)
<1> DEFINE alts == AlternativesAt(x.variant)
           fs == alts[x.alt + 1]
           w == ChoiceWord(Len(alts), x.alt)
           u == FlattenSeq(PatchWords(fs, x.vals))
           z == w \o u
           r == z \o q
           s == u \o q
           t == ReadTag(Len(PatchVariants), b)
           a == ReadChoice(Len(AlternativesAt(t.v)), t.rest)
           d == ReadEach(PatchReaders(AlternativesAt(t.v)[a.v + 1]), a.rest)
           patch == [variant |-> t.v, alt |-> a.v, vals |-> d.v]
<1>1. DecodePatch(b) = IF t.err # "Ok" THEN t ELSE IF a.err # "Ok" THEN a
                       ELSE IF d.err = "Ok" THEN Read(patch, d.rest) ELSE d
  BY ReadPatchIs, Zenon
<1>2. /\ x = [variant |-> x.variant, alt |-> x.alt, vals |-> x.vals] /\ x.variant \in 0 .. 34 - 1
      /\ Len(alts) \in 1 .. 67 /\ x.alt \in 0 .. Len(alts) - 1 /\ FieldsOfPatch(fs, x.vals)
  BY WirePatchCases
<1>3. EncodePatch(x) = <<x.variant>> \o z /\ z \in Seq(Byte) /\ x.variant \in Byte
  BY PatchWritten DEF PatchTail
<1>4. w \in Seq(Byte) /\ u \in Seq(Byte)
  BY <1>2, ReadChoiceRestores, ReadPatchFields
<1>5. Spells(<<x.variant>>, r, b) /\ Spells(z, q, r)
  <2> HIDE DEF z
  <2>1. Spells(<<x.variant>> \o z, q, b)
    BY <1>3
  <2> QED
    BY <1>3, <2>1, BehindTag
<1> HIDE DEF r
<1>6. Spells(w, s, r) /\ Spells(u, q, s)
  <2> HIDE DEF w, u
  <2> QED
    BY <1>4, <1>5, SpellsBoth
<1> HIDE DEF s, w, z
<1>7. t = Read(x.variant, r)
  <2>1. Len(PatchVariants) = 34 /\ 34 \in Nat
    BY PatchVariantsTyped
  <2>2. ReadTag(34, b) = Read(x.variant, r)
    BY <1>2, <1>3, <1>5, <2>1, ReadTagRestores
  <2> QED
    BY <2>1, <2>2
<1> HIDE DEF t
<1>8. t.err = "Ok" /\ t.v = x.variant /\ t.rest = r
  BY <1>7, ReadFieldsOf
<1>9. a = ReadChoice(Len(alts), r)
  BY <1>8
<1> HIDE DEF a
<1>10. a = Read(x.alt, s)
  <2> HIDE DEF alts
  <2> QED
    BY <1>2, <1>6, <1>9, ReadChoiceRestores DEF w
<1>11. a.err = "Ok" /\ a.v = x.alt /\ a.rest = s
  BY <1>10, ReadFieldsOf
<1>12. d = ReadEach(PatchReaders(fs), s)
  BY <1>8, <1>11
<1> HIDE DEF d, fs
<1>13. d = Read(x.vals, q)
  BY <1>2, <1>6, <1>12, ReadPatchFields
<1>14. d.err = "Ok" /\ d.v = x.vals /\ d.rest = q
  BY <1>13, ReadFieldsOf
<1>15. patch = x
  BY <1>2, <1>8, <1>11, <1>14
<1> QED
  BY <1>1, <1>8, <1>11, <1>14, <1>15

-----------------------------------------------------------------------------
(* Lists of one kind that are written.                                     *)

\* A list of words, each of which one reader takes for its element.
Lists(reader, ws, vs) ==
  /\ ws = [k \in 1 .. Len(vs) |-> ws[k]]
  /\ \A k \in 1 .. Len(vs) : Restoring(reader, ws[k], vs[k])

LEMMA ReadManyRestores ==
  ASSUME NEW S, NEW reader, NEW ws, NEW vs \in Seq(S), NEW n, n = Len(vs), Lists(reader, ws, vs),
         \A r \in Seq(Byte) : reader[r] \in Reading(S)
  PROVE  /\ FlattenSeq(ws) \in Seq(Byte)
         /\ \A q, b : Spells(FlattenSeq(ws), q, b) => ReadEach([k \in 1 .. n |-> reader], b) = Read(vs, q)
<1> DEFINE readers == [k \in 1 .. n |-> reader]
<1>1. n \in Nat
  BY LenProperties
<1>2. Len(readers) = n /\ \A k \in 1 .. n : readers[k] = reader
  BY <1>1, LenProperties
<1> HIDE DEF readers
<1>3. ws = [k \in 1 .. n |-> ws[k]] /\ \A k \in 1 .. n : Restoring(reader, ws[k], vs[k])
  BY DEF Lists
<1>4. \A k \in 1 .. n : ws[k] \in Seq(Byte)
  BY <1>3 DEF Restoring
<1>5. ws \in Seq(Seq(Byte)) /\ Len(ws) = n /\ FlattenSeq(ws) \in Seq(Byte)
  BY <1>1, <1>3, <1>4, WordsTyped
<1>6. ASSUME NEW q, NEW b, Spells(FlattenSeq(ws), q, b) PROVE ReadEach(readers, b) = Read(vs, q)
  <2>1. Row(S, readers, ws, vs)
    BY <1>1, <1>2, <1>3, <1>5 DEF Row
  <2> QED
    BY <1>6, <2>1, ReadEachRestores
<1> QED
  BY <1>5, <1>6 DEF readers

LEMMA HeadBytes ==
  ASSUME NEW x \in Byte, NEW y \in Byte, NEW z \in Byte, NEW p, NEW b, Spells(<<x, y, z>>, p, b)
  PROVE  \E r, q : Spells(<<x>>, r, b) /\ Spells(<<y>>, q, r) /\ Spells(<<z>>, p, q)
<1> DEFINE q == <<z>> \o p
           r == <<y>> \o q
           a == <<x>> \o r
<1>1. p \in Seq(Byte) /\ <<x, y, z>> \o p = b
  BY DEF Spells
<1>2. <<x>> \in Seq(Byte) /\ <<y>> \in Seq(Byte) /\ <<z>> \in Seq(Byte)
  BY OneByte
<1>3. Spells(<<z>>, p, q) /\ q \in Seq(Byte)
  <2> DEFINE one == <<z>>
  <2>1. one \in Seq(Byte)
    BY <1>2
  <2> HIDE DEF one
  <2>2. one \o p \in Seq(Byte)
    BY <1>1, <2>1, ConcatProperties
  <2>3. Spells(one, p, one \o p)
    BY <1>1, <2>1 DEF Spells
  <2> QED
    BY <2>2, <2>3 DEF one
<1> HIDE DEF q
<1>4. Spells(<<y>>, q, r) /\ r \in Seq(Byte)
  <2> DEFINE one == <<y>>
  <2>1. one \in Seq(Byte)
    BY <1>2
  <2> HIDE DEF one
  <2>2. one \o q \in Seq(Byte)
    BY <1>3, <2>1, ConcatProperties
  <2>3. Spells(one, q, one \o q)
    BY <1>3, <2>1 DEF Spells
  <2> QED
    BY <2>2, <2>3 DEF one
<1> HIDE DEF r
<1>5. Spells(<<x>>, r, a)
  <2> DEFINE one == <<x>>
  <2>1. one \in Seq(Byte)
    BY <1>2
  <2> HIDE DEF one
  <2>3. Spells(one, r, one \o r)
    BY <1>4, <2>1 DEF Spells
  <2> QED
    BY <2>3 DEF one
<1> HIDE DEF a
<1>6. Spells(<<x, y, z>>, p, a)
  BY <1>3, <1>4, <1>5, SpellsThree
<1>7. a = b
  <2> DEFINE w == <<x, y, z>>
  <2> HIDE DEF w
  <2>1. w \o p = b /\ w \o p = a
    BY <1>1, <1>6 DEF w, Spells
  <2> QED
    BY <2>1
<1> QED
  BY <1>3, <1>4, <1>5, <1>7

Overlaid == [offset : Carried("U16"), index : Byte]
OverlayWord(o) == Write("U16", o.offset) \o <<o.index>>

LEMMA DecodeOverlayRestores ==
  ASSUME NEW o \in Overlaid
  PROVE  /\ OverlayWord(o) \in Seq(Byte)
         /\ \A q, b : Spells(OverlayWord(o), q, b) => DecodeOverlay(b) = Read(o, q)
<1> DEFINE w == Write("U16", o.offset)
           u == <<o.index>>
<1>1. "U16" \in Type
  BY DEF Type, Ordered, Int_, Unsigned
<1>2. o = [offset |-> o.offset, index |-> o.index] /\ o.offset \in Carried("U16") /\ o.index \in Byte
  BY DEF Overlaid
<1>3. w \in Seq(Byte) /\ u \in Seq(Byte)
  BY <1>1, <1>2, WriteTyped, OneByte
<1>4. w \o u \in Seq(Byte)
  <2> HIDE DEF w, u
  <2> QED
    BY <1>3, ConcatProperties
<1>5. ASSUME NEW q, NEW b, Spells(w \o u, q, b) PROVE DecodeOverlay(b) = Read(o, q)
  <2> DEFINE r == u \o q
             t == ReadU16(b)
             i == ReadByte(t.rest)
             p == [offset |-> t.v, index |-> i.v]
  <2>1. DecodeOverlay(b) = IF t.err # "Ok" THEN t ELSE IF i.err = "Ok" THEN Read(p, i.rest) ELSE i
    BY DEF DecodeOverlay, Then
  <2>2. Spells(w, r, b) /\ Spells(u, q, r)
    <3> HIDE DEF w, u
    <3> QED
      BY <1>3, <1>5, SpellsBoth
  <2> HIDE DEF r
  <2>3. t = Read(o.offset, r)
    <3>1. ReadNumber("U16", b) = Read(o.offset, r)
      BY <1>1, <1>2, <2>2, ReadNumberRestores
    <3> QED
      BY <3>1 DEF ReadU16
  <2> HIDE DEF t, w
  <2>4. t.err = "Ok" /\ t.v = o.offset /\ t.rest = r
    BY <2>3, ReadFieldsOf
  <2>5. i = Read(o.index, q)
    BY <1>2, <2>2, <2>4, ReadByteRestores
  <2> HIDE DEF i, u
  <2>6. i.err = "Ok" /\ i.v = o.index /\ i.rest = q
    BY <2>5, ReadFieldsOf
  <2>7. p = o
    BY <1>2, <2>4, <2>6
  <2> QED
    BY <2>1, <2>4, <2>6, <2>7
<1> QED
  BY <1>4, <1>5 DEF OverlayWord

LEMMA CountRestores ==
  ASSUME NEW n \in Carried("U16")
  PROVE  /\ Write("U16", n) \in Seq(Byte)
         /\ \A q, b : Spells(Write("U16", n), q, b) => ReadU16(b) = Read(n, q)
<1>1. "U16" \in Type
  BY DEF Type, Ordered, Int_, Unsigned
<1> QED
  BY <1>1, WriteTyped, ReadNumberRestores DEF ReadU16

LEMMA ReadDataRestores ==
  ASSUME NEW d, NEW q, NEW b, Spells(d, q, b)
  PROVE  ReadData(Len(d), b) = Read(d, q)
<1>1. Len(d) \in 0 .. Len(b) /\ Leading(b, Len(d)) = d /\ Behind(b, Len(d)) = q /\ b \in Seq(Byte)
  BY SpellsParts
<1>2. ~ (Len(b) < Len(d))
  <2>1. Len(b) \in Nat
    BY <1>1, LenProperties
  <2> QED
    BY <1>1, <2>1
<1> QED
  BY <1>1, <1>2 DEF ReadData

LEMMA ReadOverlaysRestores ==
  ASSUME NEW ps \in Seq(Overlaid)
  PROVE  /\ FlattenSeq(OverlayWords(ps)) \in Seq(Byte)
         /\ \A q, b : Spells(FlattenSeq(OverlayWords(ps)), q, b) => ReadMany(DecodeOverlay, Len(ps), b) = Read(ps, q)
<1> DEFINE reader == [r \in Seq(Byte) |-> DecodeOverlay(r)]
           ws == OverlayWords(ps)
           n == Len(ps)
<1>1. n \in Nat /\ DOMAIN ps = 1 .. n /\ \A k \in 1 .. n : ps[k] \in Overlaid
  BY LenProperties, ElementOfSeq
<1> HIDE DEF n
<1>2. ws = [k \in 1 .. n |-> ws[k]] /\ \A k \in 1 .. n : ws[k] = OverlayWord(ps[k])
  BY <1>1 DEF OverlayWords, OverlayWord
<1>3. \A r \in Seq(Byte) : reader[r] = DecodeOverlay(r)
  OBVIOUS
<1>4. \A b : ReadMany(DecodeOverlay, n, b) = ReadEach([k \in 1 .. n |-> reader], b)
  BY DEF ReadMany, Reader
<1> HIDE DEF reader, ws
<1>5. ASSUME NEW k \in 1 .. n PROVE Restoring(reader, ws[k], ps[k])
  <2>1. ws[k] \in Seq(Byte)
    BY <1>1, <1>2, DecodeOverlayRestores
  <2>2. ASSUME NEW q \in Seq(Byte), NEW b \in Seq(Byte), Spells(ws[k], q, b) PROVE reader[b] = Read(ps[k], q)
    BY <1>1, <1>2, <1>3, <2>2, DecodeOverlayRestores
  <2> QED
    BY <2>1, <2>2 DEF Restoring
<1>6. Lists(reader, ws, ps)
  BY <1>2, <1>5 DEF Lists, n
<1>7. \A r \in Seq(Byte) : reader[r] \in Reading(Overlays)
  BY <1>3, DecodeOverlayTyped
<1>8. ps \in Seq(Overlays)
  <2>1. Overlaid \subseteq Overlays
    <3>1. Carried("U16") \subseteq Nat
      <4>1. "U16" \in Unsigned /\ "U16" \notin Float
        BY DEF Unsigned, Float
      <4>2. Values("U16") = 0 .. Modulus["U16"] - 1 /\ Modulus["U16"] \in Nat \ {0}
        BY <4>1, UnsignedBounds
      <4> QED
        BY <4>1, <4>2 DEF Carried
    <3> QED
      BY <3>1 DEF Overlaid, Overlays
  <2> QED
    BY <2>1, SeqMonotonic
<1>9. /\ FlattenSeq(ws) \in Seq(Byte)
      /\ \A q, b : Spells(FlattenSeq(ws), q, b) => ReadEach([k \in 1 .. n |-> reader], b) = Read(ps, q)
  <2>1. n = Len(ps)
    BY DEF n
  <2> QED
    BY <1>6, <1>7, <1>8, <2>1, ReadManyRestores
<1> QED
  BY <1>4, <1>9 DEF ws, n

\* The parts of a step behind its first three bytes.
ReadLong(r) == IF ReadU16(r).err = "Ok" THEN ReadData(ReadU16(r).v, ReadU16(r).rest) ELSE ReadU16(r)
ReadOverlays(r) ==
  IF ReadU16(r).err = "Ok" THEN ReadMany(DecodeOverlay, ReadU16(r).v, ReadU16(r).rest) ELSE ReadU16(r)
ReadTail(kind, start, len, r) ==
  IF kind = 2
  THEN IF DecodePatch(r).err = "Ok"
       THEN Read(StepOf(kind, start, len, << >>, << >>, DecodePatch(r).v), DecodePatch(r).rest) ELSE DecodePatch(r)
  ELSE LET d == ReadLong(r)
           o == ReadOverlays(d.rest)
       IN IF d.err # "Ok" THEN d
          ELSE IF kind = 0 THEN Read(StepOf(kind, start, len, d.v, << >>, NoPatch), d.rest)
          ELSE IF o.err = "Ok" THEN Read(StepOf(kind, start, len, d.v, o.v, NoPatch), o.rest) ELSE o

LEMMA ReadStepIs ==
  ASSUME NEW b
  PROVE  LET t == ReadTag(3, b)
             s == ReadByte(t.rest)
             l == ReadByte(s.rest)
         IN DecodeStep(b) =
              IF t.err # "Ok" THEN t ELSE IF s.err # "Ok" THEN s ELSE IF l.err # "Ok" THEN l
              ELSE ReadTail(t.v, s.v, l.v, l.rest)
BY DecodeStepIs, Zenon DEF ReadTail, ReadLong, ReadOverlays

LEMMA ReadLongRestores ==
  ASSUME NEW data \in Seq(Byte), Len(data) \in Carried("U16"), NEW u \in Seq(Byte)
  PROVE  /\ Write("U16", Len(data)) \o data \o u \in Seq(Byte)
         /\ \A q, r : Spells(Write("U16", Len(data)) \o data \o u, q, r) =>
              ReadLong(r) = Read(data, u \o q) /\ Spells(u, q, u \o q)
<1> DEFINE w == Write("U16", Len(data))
           wd == w \o data
<1>1. w \in Seq(Byte)
  BY CountRestores
<1>2. wd \in Seq(Byte)
  <2> HIDE DEF w
  <2> QED
    BY <1>1, ConcatProperties
<1>3. wd \o u \in Seq(Byte)
  <2> HIDE DEF wd
  <2> QED
    BY <1>2, ConcatProperties
<1>4. ASSUME NEW q, NEW r, Spells(wd \o u, q, r) PROVE ReadLong(r) = Read(data, u \o q) /\ Spells(u, q, u \o q)
  <2> DEFINE z == u \o q
             y == data \o z
             c == ReadU16(r)
  <2>1. Spells(wd, z, r) /\ Spells(u, q, z)
    <3> HIDE DEF wd
    <3> QED
      BY <1>2, <1>4, SpellsBoth
  <2> HIDE DEF z
  <2>2. Spells(w, y, r) /\ Spells(data, z, y)
    <3> HIDE DEF w
    <3> QED
      BY <1>1, <2>1, SpellsBoth
  <2> HIDE DEF y
  <2>3. c = Read(Len(data), y)
    BY <2>2, CountRestores
  <2>4. ReadLong(r) = IF c.err = "Ok" THEN ReadData(c.v, c.rest) ELSE c
    BY DEF ReadLong
  <2> HIDE DEF c
  <2>5. c.err = "Ok" /\ c.v = Len(data) /\ c.rest = y
    BY <2>3, ReadFieldsOf
  <2>6. ReadData(Len(data), y) = Read(data, z)
    BY <2>2, ReadDataRestores
  <2> QED
    BY <2>1, <2>4, <2>5, <2>6 DEF z
<1> QED
  BY <1>3, <1>4

LEMMA ReadOverlayListRestores ==
  ASSUME NEW ps \in Seq(Overlaid), Len(ps) \in Carried("U16")
  PROVE  /\ Write("U16", Len(ps)) \o FlattenSeq(OverlayWords(ps)) \in Seq(Byte)
         /\ \A q, r : Spells(Write("U16", Len(ps)) \o FlattenSeq(OverlayWords(ps)), q, r) => ReadOverlays(r) = Read(ps, q)
<1> DEFINE w == Write("U16", Len(ps))
           u == FlattenSeq(OverlayWords(ps))
<1>1. w \in Seq(Byte) /\ u \in Seq(Byte)
  BY CountRestores, ReadOverlaysRestores
<1>2. w \o u \in Seq(Byte)
  <2> HIDE DEF w, u
  <2> QED
    BY <1>1, ConcatProperties
<1>3. ASSUME NEW q, NEW r, Spells(w \o u, q, r) PROVE ReadOverlays(r) = Read(ps, q)
  <2> DEFINE z == u \o q
             c == ReadU16(r)
  <2>1. Spells(w, z, r) /\ Spells(u, q, z)
    <3> HIDE DEF w, u
    <3> QED
      BY <1>1, <1>3, SpellsBoth
  <2> HIDE DEF z
  <2>2. c = Read(Len(ps), z)
    BY <2>1, CountRestores
  <2>3. ReadOverlays(r) = IF c.err = "Ok" THEN ReadMany(DecodeOverlay, c.v, c.rest) ELSE c
    BY DEF ReadOverlays
  <2> HIDE DEF c
  <2>4. c.err = "Ok" /\ c.v = Len(ps) /\ c.rest = z
    BY <2>2, ReadFieldsOf
  <2>5. ReadMany(DecodeOverlay, Len(ps), z) = Read(ps, q)
    BY <2>1, ReadOverlaysRestores
  <2>6. ReadMany(DecodeOverlay, c.v, c.rest) = ReadMany(DecodeOverlay, Len(ps), z)
    BY <2>4
  <2> QED
    BY <2>3, <2>4, <2>5, <2>6
<1> QED
  BY <1>2, <1>3

LEMMA StructuredTail ==
  ASSUME NEW p \in WirePatch
  PROVE  /\ StepTail(2, << >>, << >>, p) \in Seq(Byte)
         /\ \A start, len, q, r : Spells(StepTail(2, << >>, << >>, p), q, r) =>
              ReadTail(2, start, len, r) = Read(StepOf(2, start, len, << >>, << >>, p), q)
<1>1. StepTail(2, << >>, << >>, p) = EncodePatch(p)
  BY DEF StepTail
<1>2. EncodePatch(p) \in Seq(Byte)
  BY PatchWritten, BehindTag
<1>3. ASSUME NEW start, NEW len, NEW q, NEW r, Spells(EncodePatch(p), q, r)
      PROVE  ReadTail(2, start, len, r) = Read(StepOf(2, start, len, << >>, << >>, p), q)
  <2> DEFINE d == DecodePatch(r)
  <2>1. d = Read(p, q)
    BY <1>3, DecodePatchRestores
  <2>2. ReadTail(2, start, len, r) = IF d.err = "Ok" THEN Read(StepOf(2, start, len, << >>, << >>, d.v), d.rest) ELSE d
    BY DEF ReadTail
  <2> HIDE DEF d
  <2>3. d.err = "Ok" /\ d.v = p /\ d.rest = q
    BY <2>1, ReadFieldsOf
  <2> QED
    BY <2>2, <2>3
<1> QED
  BY <1>1, <1>2, <1>3

LEMMA StaticTail ==
  ASSUME NEW data \in Seq(Byte), Len(data) \in Carried("U16")
  PROVE  /\ StepTail(0, data, << >>, NoPatch) \in Seq(Byte)
         /\ \A start, len, q, r : Spells(StepTail(0, data, << >>, NoPatch), q, r) =>
              ReadTail(0, start, len, r) = Read(StepOf(0, start, len, data, << >>, NoPatch), q)
<1> DEFINE u == << >>
           w == Write("U16", Len(data)) \o data \o u
<1>1. u \in Seq(Byte)
  OBVIOUS
<1>2. StepTail(0, data, << >>, NoPatch) = w
  BY DEF StepTail
<1>3. w \in Seq(Byte)
  <2> HIDE DEF u
  <2> QED
    BY <1>1, ReadLongRestores
<1>4. ASSUME NEW start, NEW len, NEW q, NEW r, Spells(w, q, r)
      PROVE  ReadTail(0, start, len, r) = Read(StepOf(0, start, len, data, << >>, NoPatch), q)
  <2> DEFINE d == ReadLong(r)
  <2>1. d = Read(data, u \o q)
    <3> HIDE DEF u, d
    <3> QED
      BY <1>1, <1>4, ReadLongRestores DEF d
  <2>2. u \o q = q
    BY <1>4, ConcatEmptySeq DEF Spells
  <2>3. ReadTail(0, start, len, r)
          = IF d.err # "Ok" THEN d ELSE Read(StepOf(0, start, len, d.v, << >>, NoPatch), d.rest)
    BY DEF ReadTail
  <2> HIDE DEF d
  <2>4. d.err = "Ok" /\ d.v = data /\ d.rest = q
    BY <2>1, <2>2, ReadFieldsOf
  <2> QED
    BY <2>3, <2>4
<1> QED
  BY <1>2, <1>3, <1>4

LEMMA PatchedTail ==
  ASSUME NEW data \in Seq(Byte), Len(data) \in Carried("U16"), NEW ps \in Seq(Overlaid), Len(ps) \in Carried("U16")
  PROVE  /\ StepTail(1, data, ps, NoPatch) \in Seq(Byte)
         /\ \A start, len, q, r : Spells(StepTail(1, data, ps, NoPatch), q, r) =>
              ReadTail(1, start, len, r) = Read(StepOf(1, start, len, data, ps, NoPatch), q)
<1> DEFINE u == Write("U16", Len(ps)) \o FlattenSeq(OverlayWords(ps))
           w == Write("U16", Len(data)) \o data \o u
<1>1. u \in Seq(Byte)
  BY ReadOverlayListRestores
<1>2. StepTail(1, data, ps, NoPatch) = w
  BY DEF StepTail
<1>3. w \in Seq(Byte)
  <2> HIDE DEF u
  <2> QED
    BY <1>1, ReadLongRestores
<1>4. ASSUME NEW start, NEW len, NEW q, NEW r, Spells(w, q, r)
      PROVE  ReadTail(1, start, len, r) = Read(StepOf(1, start, len, data, ps, NoPatch), q)
  <2> DEFINE d == ReadLong(r)
             o == ReadOverlays(d.rest)
             z == u \o q
  <2>1. d = Read(data, z) /\ Spells(u, q, z)
    <3> HIDE DEF u, d
    <3> QED
      BY <1>1, <1>4, ReadLongRestores DEF d
  <2> HIDE DEF z
  <2>2. ReadTail(1, start, len, r)
          = IF d.err # "Ok" THEN d
            ELSE IF o.err = "Ok" THEN Read(StepOf(1, start, len, d.v, o.v, NoPatch), o.rest) ELSE o
    BY DEF ReadTail
  <2> HIDE DEF d
  <2>3. d.err = "Ok" /\ d.v = data /\ d.rest = z
    BY <2>1, ReadFieldsOf
  <2>4. o = Read(ps, q)
    BY <2>1, <2>3, ReadOverlayListRestores
  <2> HIDE DEF o
  <2>5. o.err = "Ok" /\ o.v = ps /\ o.rest = q
    BY <2>4, ReadFieldsOf
  <2> QED
    BY <2>2, <2>3, <2>5
<1> QED
  BY <1>2, <1>3, <1>4

TailOf(x) == StepTail(x.kind, x.data, x.patches, x.patch)

LEMMA WireStepCases ==
  ASSUME NEW x \in WireStep
  PROVE  /\ x = StepOf(x.kind, x.start, x.len, x.data, x.patches, x.patch)
         /\ x.kind \in 0 .. 2 /\ x.start \in Byte /\ x.len \in Byte /\ x.data \in Seq(Byte) /\ x.patches \in Seq(Overlaid)
         /\ Len(x.data) \in Carried("U16") /\ Len(x.patches) \in Carried("U16")
         /\ x.kind # 1 => x.patches = << >>
         /\ x.kind = 2 => x.data = << >> /\ x.patch \in WirePatch
         /\ x.kind # 2 => x.patch = NoPatch
<1>1. x \in [kind : 0 .. 2, start : Byte, len : Byte, data : Seq(Byte),
             patches : Seq(Overlaid), patch : WirePatch \cup {NoPatch}]
  BY Zenon DEF WireStep, Overlaid
<1>2. /\ Len(x.data) \in Carried("U16") /\ Len(x.patches) \in Carried("U16")
      /\ x.kind # 1 => x.patches = << >>
      /\ IF x.kind = 2 THEN x.data = << >> /\ x.patch \in WirePatch ELSE x.patch = NoPatch
  BY Zenon DEF WireStep
<1>3. x = StepOf(x.kind, x.start, x.len, x.data, x.patches, x.patch)
  BY <1>1 DEF StepOf
<1> QED
  BY <1>1, <1>2, <1>3

LEMMA TailRestores ==
  ASSUME NEW x \in WireStep
  PROVE  /\ TailOf(x) \in Seq(Byte)
         /\ \A q, r : Spells(TailOf(x), q, r) => ReadTail(x.kind, x.start, x.len, r) = Read(x, q)
<1>1. /\ x = StepOf(x.kind, x.start, x.len, x.data, x.patches, x.patch)
      /\ x.data \in Seq(Byte) /\ x.patches \in Seq(Overlaid)
      /\ Len(x.data) \in Carried("U16") /\ Len(x.patches) \in Carried("U16")
      /\ x.kind # 1 => x.patches = << >>
      /\ x.kind = 2 => x.data = << >> /\ x.patch \in WirePatch
      /\ x.kind # 2 => x.patch = NoPatch
  BY WireStepCases
<1>2. CASE x.kind = 0
  <2>1. TailOf(x) = StepTail(0, x.data, << >>, NoPatch) /\ x = StepOf(0, x.start, x.len, x.data, << >>, NoPatch)
    BY <1>1, <1>2 DEF TailOf
  <2> QED
    BY <1>1, <1>2, <2>1, StaticTail
<1>3. CASE x.kind = 1
  <2>1. TailOf(x) = StepTail(1, x.data, x.patches, NoPatch) /\ x = StepOf(1, x.start, x.len, x.data, x.patches, NoPatch)
    BY <1>1, <1>3 DEF TailOf
  <2> QED
    BY <1>1, <1>3, <2>1, PatchedTail
<1>4. CASE x.kind = 2
  <2>1. TailOf(x) = StepTail(2, << >>, << >>, x.patch) /\ x = StepOf(2, x.start, x.len, << >>, << >>, x.patch)
    BY <1>1, <1>4 DEF TailOf
  <2> QED
    BY <1>1, <1>4, <2>1, StructuredTail
<1>5. x.kind = 0 \/ x.kind = 1 \/ x.kind = 2
  BY WireStepCases
<1> QED
  BY <1>2, <1>3, <1>4, <1>5

LEMMA StepWritten ==
  ASSUME NEW x \in WireStep
  PROVE  EncodeStep(x) = <<x.kind, x.start, x.len>> \o TailOf(x) /\ EncodeStep(x) \in Seq(Byte)
<1>1. EncodeStep(x) = <<x.kind, x.start, x.len>> \o TailOf(x)
  <2>1. x = StepOf(x.kind, x.start, x.len, x.data, x.patches, x.patch)
    BY WireStepCases
  <2>2. EncodeStep(StepOf(x.kind, x.start, x.len, x.data, x.patches, x.patch))
            = <<x.kind, x.start, x.len>> \o StepTail(x.kind, x.data, x.patches, x.patch)
    <3> DEFINE k == x.kind
    <3>1. k \in 0 .. 2
      BY WireStepCases
    <3> HIDE DEF k
    <3>2. ASSUME NEW a, NEW l, NEW d, NEW o, NEW p
          PROVE  EncodeStep(StepOf(k, a, l, d, o, p)) = <<k, a, l>> \o StepTail(k, d, o, p)
      BY <3>1, EncodeStepIs
    <3> QED
      BY <3>2 DEF k
  <2>3. TailOf(x) = StepTail(x.kind, x.data, x.patches, x.patch)
    BY DEF TailOf
  <2> QED
    BY <2>1, <2>2, <2>3
<1>2. x.kind \in Byte /\ x.start \in Byte /\ x.len \in Byte
  <2>1. x.kind \in 0 .. 67
    BY WireStepCases
  <2> QED
    BY <2>1, SmallTags, WireStepCases
<1>3. <<x.kind, x.start, x.len>> \in Seq(Byte)
  BY <1>2
<1>4. TailOf(x) \in Seq(Byte)
  BY TailRestores
<1> DEFINE w == <<x.kind, x.start, x.len>>
<1>5. w \o TailOf(x) \in Seq(Byte)
  <2>1. w \in Seq(Byte)
    BY <1>3
  <2> HIDE DEF w
  <2> QED
    BY <1>4, <2>1, ConcatProperties
<1> QED
  BY <1>1, <1>5

LEMMA DecodeStepRestores ==
  ASSUME NEW x \in WireStep, NEW q, NEW b, Spells(EncodeStep(x), q, b)
  PROVE  DecodeStep(b) = Read(x, q)
<1> DEFINE t == ReadTag(3, b)
           s == ReadByte(t.rest)
           l == ReadByte(s.rest)
           p == TailOf(x) \o q
<1>1. DecodeStep(b) = IF t.err # "Ok" THEN t ELSE IF s.err # "Ok" THEN s ELSE IF l.err # "Ok" THEN l
                      ELSE ReadTail(t.v, s.v, l.v, l.rest)
  BY ReadStepIs, Zenon
<1>2. x.kind \in 0 .. 3 - 1 /\ 3 \in Nat /\ x.start \in Byte /\ x.len \in Byte
  BY WireStepCases
<1>3. x.kind \in Byte
  <2>1. x.kind \in 0 .. 67
    BY <1>2
  <2> QED
    BY <2>1, SmallTags
<1>4. Spells(<<x.kind, x.start, x.len>>, p, b) /\ Spells(TailOf(x), q, p)
  <2> DEFINE w == <<x.kind, x.start, x.len>>
  <2>1. Spells(w \o TailOf(x), q, b)
    BY StepWritten
  <2>2. w \in Seq(Byte) /\ TailOf(x) \in Seq(Byte)
    BY <1>2, <1>3, TailRestores
  <2> HIDE DEF w
  <2>3. Spells(w, TailOf(x) \o q, b) /\ Spells(TailOf(x), q, TailOf(x) \o q)
    BY <2>1, <2>2, SpellsBoth
  <2> QED
    BY <2>3 DEF w
<1> HIDE DEF p
<1>5. PICK r1, r2 : Spells(<<x.kind>>, r1, b) /\ Spells(<<x.start>>, r2, r1) /\ Spells(<<x.len>>, p, r2)
  BY <1>2, <1>3, <1>4, HeadBytes
<1>6. t = Read(x.kind, r1)
  BY <1>2, <1>3, <1>5, ReadTagRestores
<1> HIDE DEF t
<1>7. t.err = "Ok" /\ t.v = x.kind /\ t.rest = r1
  BY <1>6, ReadFieldsOf
<1>8. s = Read(x.start, r2)
  BY <1>2, <1>5, <1>7, ReadByteRestores
<1> HIDE DEF s
<1>9. s.err = "Ok" /\ s.v = x.start /\ s.rest = r2
  BY <1>8, ReadFieldsOf
<1>10. l = Read(x.len, p)
  BY <1>2, <1>5, <1>9, ReadByteRestores
<1> HIDE DEF l
<1>11. l.err = "Ok" /\ l.v = x.len /\ l.rest = p
  BY <1>10, ReadFieldsOf
<1>12. ReadTail(x.kind, x.start, x.len, p) = Read(x, q)
  BY <1>4, TailRestores
<1> QED
  BY <1>1, <1>7, <1>9, <1>11, <1>12

-----------------------------------------------------------------------------
(* Arms and instructions that are written.                                 *)

LEMMA WireStepIsStep == WireStep \subseteq Steps
<1> SUFFICES ASSUME NEW x \in WireStep PROVE x \in Steps
  OBVIOUS
<1> DEFINE b == EncodeStep(x)
<1>1. b \in Seq(Byte)
  BY StepWritten
<1>2. Spells(b, << >>, b)
  <2> HIDE DEF b
  <2> QED
    BY <1>1, ConcatEmptySeq DEF Spells
<1>3. DecodeStep(b) = Read(x, << >>)
  <2> HIDE DEF Spells
  <2> QED
    BY <1>2, DecodeStepRestores
<1>4. DecodeStep(b).err = "Ok" /\ DecodeStep(b).v = x
  BY <1>3, ReadFieldsOf
<1>5. DecodeStep(b) \in Reading(Steps)
  BY <1>1, DecodeStepTyped
<1> QED
  BY <1>4, <1>5, ReadingCases

LEMMA ReadStepsRestores ==
  ASSUME NEW xs \in Seq(WireStep)
  PROVE  /\ FlattenSeq(StepWords(xs)) \in Seq(Byte)
         /\ \A q, b : Spells(FlattenSeq(StepWords(xs)), q, b) => ReadMany(DecodeStep, Len(xs), b) = Read(xs, q)
<1> DEFINE reader == [r \in Seq(Byte) |-> DecodeStep(r)]
           ws == StepWords(xs)
           n == Len(xs)
<1>1. n \in Nat /\ DOMAIN xs = 1 .. n /\ \A k \in 1 .. n : xs[k] \in WireStep
  BY LenProperties, ElementOfSeq
<1> HIDE DEF n
<1>2. ws = [k \in 1 .. n |-> ws[k]] /\ \A k \in 1 .. n : ws[k] = EncodeStep(xs[k])
  BY <1>1 DEF StepWords
<1>3. \A r \in Seq(Byte) : reader[r] = DecodeStep(r)
  OBVIOUS
<1>4. \A b : ReadMany(DecodeStep, n, b) = ReadEach([k \in 1 .. n |-> reader], b)
  BY DEF ReadMany, Reader
<1> HIDE DEF reader, ws
<1>5. ASSUME NEW k \in 1 .. n PROVE Restoring(reader, ws[k], xs[k])
  <2>1. ws[k] \in Seq(Byte)
    BY <1>1, <1>2, StepWritten
  <2>2. ASSUME NEW q \in Seq(Byte), NEW b \in Seq(Byte), Spells(ws[k], q, b) PROVE reader[b] = Read(xs[k], q)
    BY <1>1, <1>2, <1>3, <2>2, DecodeStepRestores
  <2> QED
    BY <2>1, <2>2 DEF Restoring
<1>6. Lists(reader, ws, xs)
  BY <1>2, <1>5 DEF Lists, n
<1>7. \A r \in Seq(Byte) : reader[r] \in Reading(Steps)
  BY <1>3, DecodeStepTyped
<1>8. xs \in Seq(Steps)
  BY WireStepIsStep, SeqMonotonic
<1>9. /\ FlattenSeq(ws) \in Seq(Byte)
      /\ \A q, b : Spells(FlattenSeq(ws), q, b) => ReadEach([k \in 1 .. n |-> reader], b) = Read(xs, q)
  <2>1. n = Len(xs)
    BY DEF n
  <2> QED
    BY <1>6, <1>7, <1>8, <2>1, ReadManyRestores
<1> QED
  BY <1>4, <1>9 DEF ws, n

\* A reader into S that reads what W writes for the members of T.
Rereads(reader, S, T, W) ==
  /\ \A r \in Seq(Byte) : reader[r] \in Reading(S)
  /\ \A x \in T : Restoring(reader, W[x], x)

LEMMA RereadMember ==
  ASSUME NEW S, NEW T, NEW reader, NEW W, Rereads(reader, S, T, W), NEW x \in T
  PROVE  x \in S
<1> DEFINE b == W[x]
<1>1. b \in Seq(Byte) /\ \A q, c \in Seq(Byte) : Spells(b, q, c) => reader[c] = Read(x, q)
  BY DEF Rereads, Restoring
<1>2. reader[b] \in Reading(S)
  BY <1>1 DEF Rereads
<1> HIDE DEF b
<1>3. << >> \in Seq(Byte) /\ Spells(b, << >>, b)
  BY <1>1, EmptySeq, ConcatEmptySeq DEF Spells
<1>4. reader[b] = Read(x, << >>)
  <2> HIDE DEF Spells
  <2> QED
    BY <1>1, <1>3
<1> QED
  BY <1>2, <1>4, ReadingCases, ReadFieldsOf

Writes(ws, W, vs) == ws = [k \in DOMAIN vs |-> W[vs[k]]]

LEMMA RereadsMany ==
  ASSUME NEW S, NEW T, NEW reader, NEW W, Rereads(reader, S, T, W), NEW vs \in Seq(T),
         NEW ws, Writes(ws, W, vs)
  PROVE  /\ FlattenSeq(ws) \in Seq(Byte)
         /\ \A q, b : Spells(FlattenSeq(ws), q, b) => ReadEach([k \in 1 .. Len(vs) |-> reader], b) = Read(vs, q)
<1>1. Len(vs) \in Nat /\ DOMAIN vs = 1 .. Len(vs) /\ \A k \in 1 .. Len(vs) : vs[k] \in T
  BY LenProperties, ElementOfSeq
<1>2. T \subseteq S
  BY RereadMember
<1>3. vs \in Seq(S)
  BY <1>2, SeqMonotonic
<1>4. Lists(reader, ws, vs)
  BY <1>1 DEF Lists, Rereads, Writes
<1>5. \A r \in Seq(Byte) : reader[r] \in Reading(S)
  BY DEF Rereads
<1> DEFINE n == Len(vs)
<1>6. n = Len(vs)
  OBVIOUS
<1> HIDE DEF n
<1>7. /\ FlattenSeq(ws) \in Seq(Byte)
      /\ \A q, b : Spells(FlattenSeq(ws), q, b) => ReadEach([k \in 1 .. n |-> reader], b) = Read(vs, q)
  BY <1>3, <1>4, <1>5, <1>6, ReadManyRestores
<1> QED
  BY <1>7 DEF n

\* A list behind its count.
LEMMA RereadsCounted ==
  ASSUME NEW S, NEW T, NEW reader, NEW W, Rereads(reader, S, T, W), NEW vs \in Seq(T), Len(vs) \in Byte,
         NEW ws, Writes(ws, W, vs)
  PROVE  /\ <<Len(vs)>> \o FlattenSeq(ws) \in Seq(Byte)
         /\ \A q, b : Spells(<<Len(vs)>> \o FlattenSeq(ws), q, b) =>
              LET c == ReadByte(b) IN
              /\ c.err = "Ok"
              /\ ReadEach([k \in 1 .. c.v |-> reader], c.rest) = Read(vs, q)
<1> DEFINE w == FlattenSeq(ws)
           n == Len(vs)
<1>1. /\ w \in Seq(Byte)
      /\ \A q, b : Spells(w, q, b) => ReadEach([k \in 1 .. n |-> reader], b) = Read(vs, q)
  BY RereadsMany
<1>2. n \in Byte
  OBVIOUS
<1> HIDE DEF w, n
<1>3. /\ <<n>> \o w \in Seq(Byte)
      /\ \A q, b : Spells(<<n>> \o w, q, b) => Spells(<<n>>, w \o q, b) /\ Spells(w, q, w \o q)
  BY <1>1, <1>2, BehindTag
<1>4. ASSUME NEW q, NEW b, Spells(<<n>> \o w, q, b)
      PROVE  LET c == ReadByte(b) IN
             /\ c.err = "Ok"
             /\ ReadEach([k \in 1 .. c.v |-> reader], c.rest) = Read(vs, q)
  <2> DEFINE c == ReadByte(b)
             r == w \o q
  <2>1. Spells(<<n>>, r, b) /\ Spells(w, q, r)
    BY <1>3, <1>4
  <2> HIDE DEF r
  <2>2. c = Read(n, r)
    BY <1>2, <2>1, ReadByteRestores
  <2> HIDE DEF c
  <2>3. c.err = "Ok" /\ c.v = n /\ c.rest = r
    BY <2>2, ReadFieldsOf
  <2>4. ReadEach([k \in 1 .. n |-> reader], r) = Read(vs, q)
    BY <1>1, <2>1
  <2>5. c.err = "Ok" /\ ReadEach([k \in 1 .. c.v |-> reader], c.rest) = Read(vs, q)
    BY <2>3, <2>4
  <2> QED
    BY <2>5 DEF c
<1> QED
  BY <1>3, <1>4 DEF w, n

\* An arm, unless its writer refuses it.
SentArms == {arm \in WireArm : arm.kind = "cpi" => Len(arm.steps) \in 1 .. MaxSteps}

LEMMA ArmRestores ==
  ASSUME NEW x \in SentArms
  PROVE  /\ EncodeArm(x) \in Seq(Byte)
         /\ \A q, b : Spells(EncodeArm(x), q, b) => DecodeArm(b) = Read(x, q)
<1>1. /\ x = [kind |-> x.kind, steps |-> x.steps] /\ x.kind \in {"skip", "revert", "cpi"} /\ x.steps \in Seq(WireStep)
      /\ x.kind # "cpi" => x.steps = << >>
      /\ x.kind = "cpi" => Len(x.steps) \in 1 .. MaxSteps
  BY DEF SentArms, WireArm
<1>2. Base \in Nat /\ Base > 68
  BY WireAssumption
<1> DEFINE tag == IF x.kind = "skip" THEN 0 ELSE IF x.kind = "revert" THEN RevertTag ELSE Len(x.steps)
           w == IF x.kind = "cpi" THEN FlattenSeq(StepWords(x.steps)) ELSE << >>
<1>3. tag \in Byte /\ ArmKind(tag) = x.kind
  BY <1>1, <1>2 DEF Byte, ArmKind, RevertTag, MaxSteps
<1>4. tag \in Nat /\ (x.kind = "cpi" => tag = Len(x.steps))
  BY <1>1, <1>3, ByteIsNat
<1>5. EncodeArm(x) = <<tag>> \o w
  <2>1. \A i : <<i>> \o << >> = <<i>>
    OBVIOUS
  <2>2. WriteEach(EncodeStep, x.steps) = FlattenSeq(StepWords(x.steps))
    BY DEF WriteEach, StepWords
  <2> QED
    BY <1>1, <2>1, <2>2 DEF EncodeArm, SdkArm, RevertTag
<1>6. w \in Seq(Byte)
  <2>1. FlattenSeq(StepWords(x.steps)) \in Seq(Byte)
    BY <1>1, ReadStepsRestores
  <2> QED
    BY <2>1, EmptySeq
<1>7. ASSUME NEW r, NEW q, Spells(w, q, r), x.kind = "cpi" PROVE ReadMany(DecodeStep, tag, r) = Read(x.steps, q)
  <2>1. Spells(FlattenSeq(StepWords(x.steps)), q, r) /\ tag = Len(x.steps)
    BY <1>4, <1>7
  <2> QED
    BY <1>1, <2>1, ReadStepsRestores
<1>8. ASSUME NEW r, NEW q, Spells(w, q, r), x.kind # "cpi" PROVE r = q
  BY <1>8, EmptySeq, ConcatEmptySeq DEF Spells
<1> HIDE DEF tag, w
<1>9. /\ <<tag>> \o w \in Seq(Byte)
      /\ \A q, b : Spells(<<tag>> \o w, q, b) => Spells(<<tag>>, w \o q, b) /\ Spells(w, q, w \o q)
  BY <1>3, <1>6, BehindTag
<1>10. ASSUME NEW q, NEW b, Spells(<<tag>> \o w, q, b) PROVE DecodeArm(b) = Read(x, q)
  <2> DEFINE t == ReadByte(b)
             d == ReadMany(DecodeStep, t.v, t.rest)
             r == w \o q
  <2>1. DecodeArm(b) =
              IF t.err # "Ok" THEN t
              ELSE IF ArmKind(t.v) # "cpi" THEN Read([kind |-> ArmKind(t.v), steps |-> << >>], t.rest)
              ELSE IF d.err = "Ok" THEN Read([kind |-> "cpi", steps |-> d.v], d.rest) ELSE d
    BY DecodeArmIs, Zenon
  <2>2. Spells(<<tag>>, r, b) /\ Spells(w, q, r)
    BY <1>9, <1>10
  <2> HIDE DEF r
  <2>3. t = Read(tag, r)
    BY <1>3, <2>2, ReadByteRestores
  <2> HIDE DEF t
  <2>4. t.err = "Ok" /\ t.v = tag /\ t.rest = r
    BY <2>3, ReadFieldsOf
  <2>5. CASE x.kind = "cpi"
    <3>1. d = Read(x.steps, q)
      BY <1>7, <2>2, <2>4, <2>5
    <3> HIDE DEF d
    <3>2. d.err = "Ok" /\ d.v = x.steps /\ d.rest = q
      BY <3>1, ReadFieldsOf
    <3> QED
      BY <1>1, <1>3, <2>1, <2>4, <2>5, <3>2
  <2>6. CASE x.kind # "cpi"
    <3>1. r = q
      BY <1>8, <2>2, <2>6
    <3> HIDE DEF d
    <3> QED
      BY <1>1, <1>3, <2>1, <2>4, <2>6, <3>1
  <2> QED
    BY <2>5, <2>6
<1> QED
  BY <1>5, <1>9, <1>10

LEMMA BindingsReread ==
  Rereads([q \in Seq(Byte) |-> DecodeBinding(q)], WireBindings, WireBinding, [x \in WireBinding |-> EncodeBinding(x)])
<1> DEFINE reader == [q \in Seq(Byte) |-> DecodeBinding(q)]
           W == [x \in WireBinding |-> EncodeBinding(x)]
<1>1. (\A r \in Seq(Byte) : reader[r] = DecodeBinding(r)) /\ (\A x \in WireBinding : W[x] = EncodeBinding(x))
  OBVIOUS
<1> HIDE DEF reader, W
<1>2. \A r \in Seq(Byte) : reader[r] \in Reading(WireBindings)
  BY <1>1, DecodeBindingTyped
<1>3. ASSUME NEW x \in WireBinding PROVE Restoring(reader, W[x], x)
  <2>1. W[x] = EncodeBinding(x) /\ EncodeBinding(x) \in Seq(Byte)
    BY <1>1, BindingWritten
  <2>2. ASSUME NEW q \in Seq(Byte), NEW b \in Seq(Byte), Spells(EncodeBinding(x), q, b) PROVE reader[b] = Read(x, q)
    BY <1>1, <2>2, DecodeBindingRestores
  <2> QED
    BY <2>1, <2>2 DEF Restoring
<1> QED
  BY <1>2, <1>3 DEF Rereads, reader, W

LEMMA ExprsReread ==
  Rereads([q \in Seq(Byte) |-> DecodeExpr(q)], Terms_(1), WireExpr, [x \in WireExpr |-> EncodeExpr(x)])
<1> DEFINE reader == [q \in Seq(Byte) |-> DecodeExpr(q)]
           W == [x \in WireExpr |-> EncodeExpr(x)]
<1>1. (\A r \in Seq(Byte) : reader[r] = DecodeExpr(r)) /\ (\A x \in WireExpr : W[x] = EncodeExpr(x))
  OBVIOUS
<1> HIDE DEF reader, W
<1>2. \A r \in Seq(Byte) : reader[r] \in Reading(Terms_(1))
  BY <1>1, DecodeExprTyped
<1>3. ASSUME NEW x \in WireExpr PROVE Restoring(reader, W[x], x)
  <2>1. W[x] = EncodeExpr(x) /\ EncodeExpr(x) \in Seq(Byte)
    BY <1>1, ExprWritten
  <2>2. ASSUME NEW q \in Seq(Byte), NEW b \in Seq(Byte), Spells(EncodeExpr(x), q, b) PROVE reader[b] = Read(x, q)
    BY <1>1, <2>2, DecodeExprRestores
  <2> QED
    BY <2>1, <2>2 DEF Restoring
<1> QED
  BY <1>2, <1>3 DEF Rereads, reader, W

LEMMA ArmsReread ==
  Rereads([q \in Seq(Byte) |-> DecodeArm(q)], Arms, SentArms, [x \in SentArms |-> EncodeArm(x)])
<1> DEFINE reader == [q \in Seq(Byte) |-> DecodeArm(q)]
           W == [x \in SentArms |-> EncodeArm(x)]
<1>1. (\A r \in Seq(Byte) : reader[r] = DecodeArm(r)) /\ (\A x \in SentArms : W[x] = EncodeArm(x))
  OBVIOUS
<1> HIDE DEF reader, W
<1>2. \A r \in Seq(Byte) : reader[r] \in Reading(Arms)
  BY <1>1, DecodeArmTyped
<1>3. ASSUME NEW x \in SentArms PROVE Restoring(reader, W[x], x)
  <2>1. W[x] = EncodeArm(x) /\ EncodeArm(x) \in Seq(Byte)
    BY <1>1, ArmRestores
  <2>2. ASSUME NEW q \in Seq(Byte), NEW b \in Seq(Byte), Spells(EncodeArm(x), q, b) PROVE reader[b] = Read(x, q)
    BY <1>1, <2>2, ArmRestores
  <2> QED
    BY <2>1, <2>2 DEF Restoring
<1> QED
  BY <1>2, <1>3 DEF Rereads, reader, W

-----------------------------------------------------------------------------
(* Instructions that are written.                                          *)

\* The reader of a body reads what its writer writes.
BodyRestored(s) ==
  /\ EncodeBody(s) \in Seq(Byte)
  /\ \A q, b : Spells(EncodeBody(s), q, b) => DecodeBody(s.ix, b) = Read(s, q)

LEMMA LetRestored ==
  ASSUME NEW bs \in Seq(WireBinding), Len(bs) \in Byte
  PROVE  BodyRestored(Statement("let", << >>, bs, << >>))
<1> DEFINE s == Statement("let", << >>, bs, << >>)
           reader == [q \in Seq(Byte) |-> DecodeBinding(q)]
           W == [x \in WireBinding |-> EncodeBinding(x)]
           ws == BindingWords(bs)
           w == <<Len(bs)>> \o FlattenSeq(ws)
<1>1. \A b : LET d == ReadList(ReadByte, DecodeBinding, b) IN
             DecodeBody("let", b) = IF d.err = "Ok" THEN Read(Statement("let", << >>, d.v, << >>), d.rest) ELSE d
  BY DEF DecodeBody, Then
<1>2. \A b : ReadList(ReadByte, DecodeBinding, b) =
               LET c == ReadByte(b) IN
               IF c.err = "Ok" THEN ReadEach([k \in 1 .. c.v |-> reader], c.rest) ELSE c
  BY DEF ReadList, ReadMany, Reader, Then
<1>3. Writes(ws, W, bs)
  <2>1. \A k \in DOMAIN bs : bs[k] \in WireBinding
    BY LenProperties, ElementOfSeq
  <2> QED
    BY <2>1 DEF Writes, BindingWords
<1>4. Rereads(reader, WireBindings, WireBinding, W)
  BY BindingsReread
<1>5. s.ix = "let" /\ s.bindings = bs
  BY DEF Statement
<1>6. EncodeBody(s) = w
  <2> HIDE DEF s
  <2> QED
    BY <1>5 DEF EncodeBody
<1> HIDE DEF reader, W, ws
<1>7. /\ w \in Seq(Byte)
      /\ \A q, b : Spells(w, q, b) =>
           LET c == ReadByte(b) IN
           /\ c.err = "Ok"
           /\ ReadEach([k \in 1 .. c.v |-> reader], c.rest) = Read(bs, q)
  BY <1>3, <1>4, RereadsCounted
<1> HIDE DEF w
<1>8. ASSUME NEW q, NEW b, Spells(w, q, b) PROVE DecodeBody("let", b) = Read(s, q)
  <2> DEFINE d == ReadList(ReadByte, DecodeBinding, b)
  <2>1. d = Read(bs, q)
    BY <1>2, <1>7, <1>8
  <2>2. DecodeBody("let", b) = IF d.err = "Ok" THEN Read(Statement("let", << >>, d.v, << >>), d.rest) ELSE d
    BY <1>1
  <2> HIDE DEF d
  <2> QED
    BY <2>1, <2>2, ReadFieldsOf
<1> HIDE DEF s
<1> QED
  BY <1>5, <1>6, <1>7, <1>8 DEF BodyRestored, s

LEMMA MultiRestored ==
  ASSUME NEW es \in Seq(WireExpr), Len(es) \in Byte
  PROVE  BodyRestored(Statement("assert_multi", es, << >>, << >>))
<1> DEFINE s == Statement("assert_multi", es, << >>, << >>)
           reader == [q \in Seq(Byte) |-> DecodeExpr(q)]
           W == [x \in WireExpr |-> EncodeExpr(x)]
           ws == ExprWords(es)
           w == <<Len(es)>> \o FlattenSeq(ws)
<1>1. \A b : LET d == ReadList(ReadByte, DecodeExpr, b) IN
             DecodeBody("assert_multi", b)
               = IF d.err = "Ok" THEN Read(Statement("assert_multi", d.v, << >>, << >>), d.rest) ELSE d
  BY DEF DecodeBody, Then
<1>2. \A b : ReadList(ReadByte, DecodeExpr, b) =
               LET c == ReadByte(b) IN
               IF c.err = "Ok" THEN ReadEach([k \in 1 .. c.v |-> reader], c.rest) ELSE c
  BY DEF ReadList, ReadMany, Reader, Then
<1>3. Writes(ws, W, es)
  <2>1. \A k \in DOMAIN es : es[k] \in WireExpr
    BY LenProperties, ElementOfSeq
  <2> QED
    BY <2>1 DEF Writes, ExprWords
<1>4. Rereads(reader, Terms_(1), WireExpr, W)
  BY ExprsReread
<1>5. s.ix = "assert_multi" /\ s.conds = es
  BY DEF Statement
<1>6. EncodeBody(s) = w
  <2> HIDE DEF s
  <2> QED
    BY <1>5 DEF EncodeBody
<1> HIDE DEF reader, W, ws
<1>7. /\ w \in Seq(Byte)
      /\ \A q, b : Spells(w, q, b) =>
           LET c == ReadByte(b) IN
           /\ c.err = "Ok"
           /\ ReadEach([k \in 1 .. c.v |-> reader], c.rest) = Read(es, q)
  BY <1>3, <1>4, RereadsCounted
<1> HIDE DEF w
<1>8. ASSUME NEW q, NEW b, Spells(w, q, b) PROVE DecodeBody("assert_multi", b) = Read(s, q)
  <2> DEFINE d == ReadList(ReadByte, DecodeExpr, b)
  <2>1. d = Read(es, q)
    BY <1>2, <1>7, <1>8
  <2>2. DecodeBody("assert_multi", b)
          = IF d.err = "Ok" THEN Read(Statement("assert_multi", d.v, << >>, << >>), d.rest) ELSE d
    BY <1>1
  <2> HIDE DEF d
  <2> QED
    BY <2>1, <2>2, ReadFieldsOf
<1> HIDE DEF s
<1> QED
  BY <1>5, <1>6, <1>7, <1>8 DEF BodyRestored, s

LEMMA AssertRestored ==
  ASSUME NEW e \in WireExpr
  PROVE  BodyRestored(Statement("assert", <<e>>, << >>, << >>))
<1> DEFINE s == Statement("assert", <<e>>, << >>, << >>)
           S(x) == Statement("assert", <<x>>, << >>, << >>)
<1>1. \A b : LET d == DecodeExpr(b) IN
             DecodeBody("assert", b) = IF d.err = "Ok" THEN Read(S(d.v), d.rest) ELSE d
  BY DEF DecodeBody, Then
<1>2. s.ix = "assert" /\ s.conds[1] = e
  BY DEF Statement
<1>3. s = S(e)
  OBVIOUS
<1> HIDE DEF s, S
<1>4. EncodeBody(s) = EncodeExpr(e)
  BY <1>2 DEF EncodeBody
<1>5. ASSUME NEW q, NEW b, Spells(EncodeExpr(e), q, b) PROVE DecodeBody("assert", b) = Read(s, q)
  <2> DEFINE d == DecodeExpr(b)
  <2>1. d = Read(e, q)
    BY <1>5, DecodeExprRestores
  <2>2. DecodeBody("assert", b) = IF d.err = "Ok" THEN Read(S(d.v), d.rest) ELSE d
    BY <1>1
  <2> HIDE DEF d
  <2> QED
    BY <1>3, <2>1, <2>2, ReadFieldsOf
<1> QED
  BY <1>2, <1>4, <1>5, ExprWritten DEF BodyRestored, s

LEMMA CpiRestored ==
  ASSUME NEW x \in WireStep
  PROVE  BodyRestored(Statement("patched_cpi", << >>, << >>, OneStep(x)))
<1> DEFINE s == Statement("patched_cpi", << >>, << >>, OneStep(x))
           S(y) == Statement("patched_cpi", << >>, << >>, OneStep(y))
<1>1. \A b : LET d == DecodeStep(b) IN
             DecodeBody("patched_cpi", b) = IF d.err = "Ok" THEN Read(S(d.v), d.rest) ELSE d
  BY DEF DecodeBody, Then
<1>2. s.ix = "patched_cpi" /\ s.arms[1].steps[1] = x
  BY DEF Statement, OneStep
<1>3. s = S(x)
  OBVIOUS
<1> HIDE DEF s, S
<1>4. EncodeBody(s) = EncodeStep(x)
  BY <1>2 DEF EncodeBody
<1>5. ASSUME NEW q, NEW b, Spells(EncodeStep(x), q, b) PROVE DecodeBody("patched_cpi", b) = Read(s, q)
  <2> DEFINE d == DecodeStep(b)
  <2>1. d = Read(x, q)
    BY <1>5, DecodeStepRestores
  <2>2. DecodeBody("patched_cpi", b) = IF d.err = "Ok" THEN Read(S(d.v), d.rest) ELSE d
    BY <1>1
  <2> HIDE DEF d
  <2> QED
    BY <1>3, <2>1, <2>2, ReadFieldsOf
<1> QED
  BY <1>2, <1>4, <1>5, StepWritten DEF BodyRestored, s

LEMMA IfRestored ==
  ASSUME NEW e \in WireExpr, NEW arms \in Seq(SentArms)
  PROVE  Len(arms) = 2 => BodyRestored(Statement("if_else", <<e>>, << >>, arms))
<1> DEFINE s == Statement("if_else", <<e>>, << >>, arms)
           S(x, as) == Statement("if_else", <<x>>, << >>, as)
           Two(r) == ReadMany(DecodeArm, 2, r)
           reader == [q \in Seq(Byte) |-> DecodeArm(q)]
           W == [x \in SentArms |-> EncodeArm(x)]
           ws == ArmWords(arms)
           v == EncodeExpr(e)
           w == FlattenSeq(ws)
<1>1. \A b : LET c == DecodeExpr(b)
                 d == Two(c.rest)
             IN DecodeBody("if_else", b)
                  = IF c.err # "Ok" THEN c ELSE IF d.err = "Ok" THEN Read(S(c.v, d.v), d.rest) ELSE d
  <2> SUFFICES ASSUME NEW b
               PROVE  LET c == DecodeExpr(b)
                          d == Two(c.rest)
                      IN DecodeBody("if_else", b)
                           = IF c.err # "Ok" THEN c ELSE IF d.err = "Ok" THEN Read(S(c.v, d.v), d.rest) ELSE d
    OBVIOUS
  <2> DEFINE c == DecodeExpr(b)
             d == Two(c.rest)
  <2>1. DecodeBody("if_else", b) = Then(c, LAMBDA x, q : Then(Two(q), LAMBDA as, q2 : Read(S(x, as), q2)))
    BY DEF DecodeBody
  <2> HIDE DEF c, Two, S
  <2>2. DecodeBody("if_else", b)
          = IF c.err # "Ok" THEN c ELSE IF d.err = "Ok" THEN Read(S(c.v, d.v), d.rest) ELSE d
    BY <2>1 DEF Then
  <2> QED
    BY <2>2 DEF c
<1>2. s.ix = "if_else" /\ s.conds[1] = e /\ s.arms = arms
  BY DEF Statement
<1>3. s = S(e, arms)
  OBVIOUS
<1> HIDE DEF s, S
<1>4. EncodeBody(s) = v \o w
  BY <1>2 DEF EncodeBody
<1>5. Writes(ws, W, arms)
  <2>1. \A k \in DOMAIN arms : arms[k] \in SentArms
    BY LenProperties, ElementOfSeq
  <2> QED
    BY <2>1 DEF Writes, ArmWords
<1>6. Rereads(reader, Arms, SentArms, W)
  BY ArmsReread
<1>7. \A r : Two(r) = ReadEach([k \in 1 .. 2 |-> reader], r)
  BY DEF ReadMany, Reader
<1> HIDE DEF Two, reader, W, ws
<1>8. /\ FlattenSeq(ws) \in Seq(Byte)
      /\ \A q, b : Spells(FlattenSeq(ws), q, b) => ReadEach([k \in 1 .. Len(arms) |-> reader], b) = Read(arms, q)
  BY <1>5, <1>6, RereadsMany
<1> SUFFICES ASSUME Len(arms) = 2 PROVE BodyRestored(s)
  BY DEF s
<1>9. w \in Seq(Byte) /\ \A q, b : Spells(w, q, b) => Two(b) = Read(arms, q)
  BY <1>7, <1>8
<1>10. v \in Seq(Byte) /\ \A q, b : Spells(v, q, b) => DecodeExpr(b) = Read(e, q)
  BY ExprWritten, DecodeExprRestores
<1> HIDE DEF v, w
<1>11. v \o w \in Seq(Byte)
  BY <1>9, <1>10, ConcatProperties
<1>12. ASSUME NEW q, NEW b, Spells(v \o w, q, b) PROVE DecodeBody("if_else", b) = Read(s, q)
  <2> DEFINE c == DecodeExpr(b)
             d == Two(c.rest)
             p == w \o q
  <2>1. Spells(v, p, b) /\ Spells(w, q, p)
    BY <1>9, <1>10, <1>12, SpellsBoth
  <2> HIDE DEF p
  <2>2. c = Read(e, p)
    BY <1>10, <2>1
  <2>3. DecodeBody("if_else", b)
          = IF c.err # "Ok" THEN c ELSE IF d.err = "Ok" THEN Read(S(c.v, d.v), d.rest) ELSE d
    BY <1>1
  <2> HIDE DEF c
  <2>4. c.err = "Ok" /\ c.v = e /\ c.rest = p
    BY <2>2, ReadFieldsOf
  <2>5. d = Read(arms, q)
    BY <1>9, <2>1, <2>4
  <2> HIDE DEF d
  <2>6. d.err = "Ok" /\ d.v = arms /\ d.rest = q
    BY <2>5, ReadFieldsOf
  <2> QED
    BY <1>3, <2>3, <2>4, <2>6
<1> QED
  BY <1>2, <1>4, <1>11, <1>12 DEF BodyRestored, s

LEMMA CreateRestored ==
  ASSUME NEW args, FieldsFit(CreateArgs, args)
  PROVE  BodyRestored([Statement("create_frame", << >>, << >>, << >>) EXCEPT !.args = args])
<1> DEFINE S(x) == [Statement("create_frame", << >>, << >>, << >>) EXCEPT !.args = x]
           s == S(args)
           w == FlattenSeq(FieldWords(CreateArgs, args))
<1>1. \A b : LET d == ReadFields(CreateArgs, b) IN
             DecodeBody("create_frame", b) = IF d.err = "Ok" THEN Read(S(d.v), d.rest) ELSE d
  BY DEF DecodeBody, Then
<1>2. s.ix = "create_frame" /\ s.args = args
  BY DEF Statement
<1>3. s = S(args)
  OBVIOUS
<1> HIDE DEF s, S
<1>4. EncodeBody(s) = w
  BY <1>2 DEF EncodeBody
<1>5. w \in Seq(Byte) /\ \A q, b : Spells(w, q, b) => ReadFields(CreateArgs, b) = Read(args, q)
  BY ReadFieldsRestores
<1> HIDE DEF w
<1>6. ASSUME NEW q, NEW b, Spells(w, q, b) PROVE DecodeBody("create_frame", b) = Read(s, q)
  <2> DEFINE d == ReadFields(CreateArgs, b)
  <2>1. d = Read(args, q)
    BY <1>5, <1>6
  <2>2. DecodeBody("create_frame", b) = IF d.err = "Ok" THEN Read(S(d.v), d.rest) ELSE d
    BY <1>1
  <2> HIDE DEF d
  <2> QED
    BY <1>3, <2>1, <2>2, ReadFieldsOf
<1> QED
  BY <1>2, <1>4, <1>5, <1>6 DEF BodyRestored, s, S

LEMMA BareRestored ==
  ASSUME NEW ix \in {"close_frame", "reset_frame"}
  PROVE  BodyRestored(Statement(ix, << >>, << >>, << >>))
<1> DEFINE s == Statement(ix, << >>, << >>, << >>)
<1>1. s.ix = ix /\ EncodeBody(s) = << >>
  <2>1. s.ix = ix
    BY DEF Statement
  <2> HIDE DEF s
  <2> QED
    BY <2>1 DEF EncodeBody
<1>2. \A b : DecodeBody(ix, b) = Read(s, b)
  BY DEF DecodeBody
<1> HIDE DEF s
<1>3. ASSUME NEW q, NEW b, Spells(<< >>, q, b) PROVE b = q
  BY <1>3, ConcatEmptySeq DEF Spells
<1> QED
  BY <1>1, <1>2, <1>3, EmptySeq DEF BodyRestored, s

\* An instruction, behind its tag.
LEMMA InstructionRestored ==
  ASSUME NEW s, s.ix \in Names, BodyRestored(s)
  PROVE  /\ Encode(s) \in Seq(Byte) /\ Encode(s) # << >>
         /\ Decode(Encode(s)) = Read(s, << >>)
<1> DEFINE w == EncodeBody(s)
           b == Encode(s)
           t == SdkDiscriminators[s.ix]
           r == ReadTag(Len(Instructions), b)
<1>1. \E i \in 0 .. 7 : Instructions[i + 1] = s.ix
  <2>1. /\ Instructions[1] = "create_frame" /\ Instructions[2] = "close_frame" /\ Instructions[3] = "reset_frame"
        /\ Instructions[4] = "let" /\ Instructions[5] = "assert" /\ Instructions[6] = "assert_multi"
        /\ Instructions[7] = "patched_cpi" /\ Instructions[8] = "if_else"
    BY DEF Instructions
  <2>2. 0 + 1 = 1 /\ 1 + 1 = 2 /\ 2 + 1 = 3 /\ 3 + 1 = 4 /\ 4 + 1 = 5 /\ 5 + 1 = 6 /\ 6 + 1 = 7 /\ 7 + 1 = 8
    OBVIOUS
  <2> QED
    BY <2>1, <2>2 DEF Names
<1> PICK i \in 0 .. 7 : Instructions[i + 1] = s.ix
  BY <1>1
<1>2. t = i /\ Len(Instructions) = 8
  BY <1>1, InstructionTags, InstructionsAre
<1>3. t \in 0 .. 7 /\ t \in Byte
  <2>1. i \in 0 .. 67
    OBVIOUS
  <2> QED
    BY <1>2, <2>1, SmallTags
<1>4. t \in 0 .. 8 - 1 /\ 8 \in Nat
  BY <1>3
<1>5. b = <<t>> \o w
  BY EncodeIs
<1>6. w \in Seq(Byte) /\ \A q, c : Spells(w, q, c) => DecodeBody(s.ix, c) = Read(s, q)
  BY DEF BodyRestored
<1>7. Decode(b) = IF r.err = "Ok" THEN DecodeBody(Instructions[r.v + 1], r.rest) ELSE r
  BY DecodeIs, Zenon
<1>8. r = ReadTag(8, b) /\ Instructions[t + 1] = s.ix
  BY <1>1, <1>2
<1> HIDE DEF w, b, t, r
<1>9. /\ <<t>> \o w \in Seq(Byte) /\ <<t>> \o w # << >>
      /\ \A q, c : Spells(<<t>> \o w, q, c) => Spells(<<t>>, w \o q, c) /\ Spells(w, q, w \o q)
  BY <1>3, <1>6, BehindTag
<1>10. b \in Seq(Byte) /\ b # << >> /\ Spells(<<t>> \o w, << >>, b)
  BY <1>5, <1>9, EmptySeq, ConcatEmptySeq DEF Spells
<1>11. Spells(<<t>>, w \o << >>, b) /\ Spells(w, << >>, w \o << >>)
  BY <1>9, <1>10
<1> DEFINE c == w \o << >>
<1>12. Spells(<<t>>, c, b) /\ Spells(w, << >>, c)
  BY <1>11
<1> HIDE DEF c
<1>13. r = Read(t, c)
  BY <1>3, <1>4, <1>8, <1>12, ReadTagRestores
<1>14. r.err = "Ok" /\ r.v = t /\ r.rest = c
  BY <1>13, ReadFieldsOf
<1>15. DecodeBody(s.ix, c) = Read(s, << >>)
  BY <1>6, <1>12
<1>16. Decode(b) = Read(s, << >>)
  BY <1>7, <1>8, <1>14, <1>15
<1> QED
  BY <1>10, <1>16 DEF b

-----------------------------------------------------------------------------
(* What clients send.                                                      *)

LEMMA TrueIsWritten == True \in WireExpr
<1> DEFINE x == Node("Const", "Bool", 1)
           e == <<x>>
<1>1. "Bool" \in Type /\ "Bool" \notin Float /\ Values("Bool") = 0 .. 1
  BY OperatorsAssumption DEF Type, Float, Values, Low, High, Ordered, Int_, Signed, Unsigned, WideSigned
<1>2. x \in WireNode
  BY <1>1 DEF WireNode, Node, Carried
<1>3. e \in Seq(WireNode) /\ Len(e) = 1 /\ Arity(e[1].op) = 0
  <2>1. x.op = "Const"
    BY DEF Node
  <2>2. Arity(x.op) = 0
    BY <2>1 DEF Arity, UnaryOp, TernaryOp, MulDiv
  <2>3. e[1] = x /\ Len(e) = 1
    OBVIOUS
  <2> HIDE DEF x
  <2>4. e \in Seq(WireNode)
    BY <1>2
  <2> QED
    BY <2>2, <2>3, <2>4
<1> HIDE DEF e
<1>4. Whole(e)
  <2> DEFINE E(g) == g = [k \in 0 .. 1 |-> IF k = 0 THEN 1 ELSE g[k - 1] - 1 + Arity(e[k].op)]
             f == [k \in 0 .. 1 |-> IF k = 0 THEN 1 ELSE 0]
             g == CHOOSE h : E(h)
  <2>1. E(f)
    BY <1>3
  <2>2. E(g)
    BY <2>1
  <2>3. g[0] = 1 /\ g[1] = 0
    <3> HIDE DEF g
    <3>1. g[0] = 1 /\ g[1] = g[0] - 1 + Arity(e[1].op)
      BY <2>2
    <3> QED
      BY <1>3, <3>1
  <2>4. Whole(e) = (g[1] = 0 /\ \A k \in 0 .. 1 - 1 : g[k] > 0)
    BY <1>3 DEF Whole
  <2>5. \A k \in 0 .. 1 - 1 : k = 0
    OBVIOUS
  <2> HIDE DEF g
  <2>6. \A k \in 0 .. 1 - 1 : g[k] > 0
    BY <2>3, <2>5
  <2> QED
    BY <2>3, <2>4, <2>6
<1> QED
  BY <1>3, <1>4 DEF WireExpr, True, Const, e

LEMMA EvalIsWritten ==
  ASSUME NEW e \in WireExpr
  PROVE  EvalOf(e) \in WireBinding
BY DEF WireExpr, WireBinding, EvalOf

\* A list that the writer does not refuse.
LEMMA CountIsByte ==
  ASSUME NEW S, NEW s \in Seq(S), ~ (Len(s) >= Base)
  PROVE  Len(s) \in Byte
<1>1. Base \in Nat
  BY WireAssumption
<1> QED
  BY <1>1, LenProperties DEF Byte

LEMMA ArmsAreSent ==
  ASSUME NEW arms \in WireArm \X WireArm,
         ~ \E k \in DOMAIN arms : arms[k].kind = "cpi" /\ Len(arms[k].steps) \notin 1 .. SdkArm.maxSteps
  PROVE  arms \in Seq(SentArms) /\ Len(arms) = 2
<1>1. SdkArm.maxSteps = MaxSteps
  BY DEF SdkArm, MaxSteps
<1>2. DOMAIN arms = 1 .. 2 /\ arms[1] \in WireArm /\ arms[2] \in WireArm /\ arms = <<arms[1], arms[2]>>
  OBVIOUS
<1>3. \A k \in 1 .. 2 : k = 1 \/ k = 2
  OBVIOUS
<1>4. arms[1] \in SentArms /\ arms[2] \in SentArms
  BY <1>1, <1>2 DEF SentArms
<1> DEFINE a == arms[1]
           b == arms[2]
<1>5. a \in SentArms /\ b \in SentArms /\ arms = <<a, b>>
  BY <1>2, <1>4
<1> HIDE DEF a, b
<1> QED
  BY <1>5, ListsOf

\* What a client writes, the program reads.
LEMMA WrittenIsRead ==
  ASSUME NEW c \in Clients, NEW s \in Written(c), ~ Refuses(s)
  PROVE  /\ Encode(s) \in Seq(Byte) /\ Encode(s) # << >>
         /\ Decode(Encode(s)) = Read(s, << >>)
<1> DEFINE menu == Menu[c]
<1>1. /\ menu.exprs \subseteq WireExpr /\ menu.lets \subseteq Seq(WireBinding)
      /\ menu.steps \subseteq WireStep /\ menu.arms \subseteq WireArm \X WireArm
  BY StatementsAssumption
<1> HIDE DEF menu
<1>2. s.ix \in Names /\ BodyRestored(s)
  <2>1. \/ \E e \in menu.exprs : s = Statement("assert", <<e>>, << >>, << >>)
        \/ \E e \in menu.exprs : \E es \in {<<e>>, <<True, e>>, <<e, True>>} : s = Statement("assert_multi", es, << >>, << >>)
        \/ \E e \in menu.exprs : \E arms \in menu.arms : s = Statement("if_else", <<e>>, << >>, arms)
        \/ \E bs \in menu.lets : s = Statement("let", << >>, bs, << >>)
        \/ \E bs \in menu.lets : \E e \in menu.exprs : s = Statement("let", << >>, Append(bs, EvalOf(e)), << >>)
        \/ \E x \in menu.steps : s = Statement("patched_cpi", << >>, << >>, OneStep(x))
        \/ s = Statement("reset_frame", << >>, << >>, << >>)
    <3> DEFINE conds == {<<e>> : e \in menu.exprs}
               more == UNION {{<<True, e>>, <<e, True>>} : e \in menu.exprs}
               lets == menu.lets \cup {Append(bs, EvalOf(e)) : bs \in menu.lets, e \in menu.exprs}
    <3>1. \/ \E es \in conds : s = Statement("assert", es, << >>, << >>)
          \/ \E es \in conds \cup more : s = Statement("assert_multi", es, << >>, << >>)
          \/ \E es \in conds : \E arms \in menu.arms : s = Statement("if_else", es, << >>, arms)
          \/ \E bs \in lets : s = Statement("let", << >>, bs, << >>)
          \/ \E x \in menu.steps : s = Statement("patched_cpi", << >>, << >>, OneStep(x))
          \/ s = Statement("reset_frame", << >>, << >>, << >>)
      BY DEF Written, menu
    <3>2. \A es \in conds : \E e \in menu.exprs : es = <<e>>
      OBVIOUS
    <3>3. \A es \in more : \E e \in menu.exprs : es \in {<<True, e>>, <<e, True>>}
      OBVIOUS
    <3>4. \A bs \in lets : bs \in menu.lets \/ \E b \in menu.lets : \E e \in menu.exprs : bs = Append(b, EvalOf(e))
      OBVIOUS
    <3> HIDE DEF conds, more, lets
    <3>5. \A es \in conds \cup more : \E e \in menu.exprs : es \in {<<e>>, <<True, e>>, <<e, True>>}
      BY <3>2, <3>3
    <3> QED
      BY <3>1, <3>2, <3>4, <3>5, Zenon
  <2>2. ASSUME NEW e \in menu.exprs, s = Statement("assert", <<e>>, << >>, << >>) PROVE s.ix \in Names /\ BodyRestored(s)
    BY <1>1, <2>2, AssertRestored DEF Statement, Names
  <2>3. ASSUME NEW e \in menu.exprs, NEW es \in {<<e>>, <<True, e>>, <<e, True>>}, s = Statement("assert_multi", es, << >>, << >>)
        PROVE  s.ix \in Names /\ BodyRestored(s)
    <3>1. es \in Seq(WireExpr)
      <4>1. e \in WireExpr /\ True \in WireExpr
        BY <1>1, TrueIsWritten
      <4> DEFINE t == True
      <4>2. t \in WireExpr
        BY <4>1
      <4> HIDE DEF t
      <4>3. <<e>> \in Seq(WireExpr) /\ <<t, e>> \in Seq(WireExpr) /\ <<e, t>> \in Seq(WireExpr)
        BY <4>1, <4>2, ListsOf
      <4>4. es = <<e>> \/ es = <<t, e>> \/ es = <<e, t>>
        BY DEF t
      <4> QED
        BY <4>3, <4>4
    <3>2. s.ix = "assert_multi" /\ s.conds = es
      BY <2>3 DEF Statement
    <3>3. Len(es) \in Byte
      BY <3>1, <3>2, CountIsByte DEF Refuses
    <3> QED
      BY <2>3, <3>1, <3>2, <3>3, MultiRestored DEF Names
  <2>4. ASSUME NEW e \in menu.exprs, NEW arms \in menu.arms, s = Statement("if_else", <<e>>, << >>, arms)
        PROVE  s.ix \in Names /\ BodyRestored(s)
    <3>1. s.ix = "if_else" /\ s.arms = arms
      BY <2>4 DEF Statement
    <3>2. arms \in Seq(SentArms) /\ Len(arms) = 2
      BY <1>1, <3>1, ArmsAreSent DEF Refuses
    <3> QED
      BY <1>1, <2>4, <3>1, <3>2, IfRestored DEF Names
  <2>5. ASSUME NEW bs \in Seq(WireBinding), s = Statement("let", << >>, bs, << >>) PROVE s.ix \in Names /\ BodyRestored(s)
    <3>1. s.ix = "let" /\ s.bindings = bs
      BY <2>5 DEF Statement
    <3>2. Len(bs) \in Byte
      BY <3>1, CountIsByte DEF Refuses
    <3> QED
      BY <2>5, <3>1, <3>2, LetRestored DEF Names
  <2>6. ASSUME NEW bs \in menu.lets, NEW e \in menu.exprs PROVE Append(bs, EvalOf(e)) \in Seq(WireBinding)
    <3>1. bs \in Seq(WireBinding) /\ EvalOf(e) \in WireBinding
      BY <1>1, EvalIsWritten
    <3> QED
      BY <3>1, AppendProperties
  <2>7. ASSUME NEW x \in menu.steps, s = Statement("patched_cpi", << >>, << >>, OneStep(x)) PROVE s.ix \in Names /\ BodyRestored(s)
    BY <1>1, <2>7, CpiRestored DEF Statement, Names
  <2>8. ASSUME s = Statement("reset_frame", << >>, << >>, << >>) PROVE s.ix \in Names /\ BodyRestored(s)
    BY <2>8, BareRestored DEF Statement, Names
  <2> QED
    BY <1>1, <2>1, <2>2, <2>3, <2>4, <2>5, <2>6, <2>7, <2>8
<1> QED
  BY <1>2, InstructionRestored

\* What an SDK has sent is on the wire until the statement is over.
Told ==
  /\ client \in Clients
  /\ sent # Nothing => wire # << >> /\ Decode(wire) = Read(sent, << >>)

LEMMA ToldStep == Told /\ [Next]_vars => Told'
<1> SUFFICES ASSUME Told, [Next]_vars PROVE Told'
  OBVIOUS
<1>1. CASE Send
  <2>1. PICK s \in Written(client) : ~ Refuses(s) /\ sent' = s /\ wire' = Encode(s)
    BY <1>1 DEF Send
  <2>2. client \in Clients /\ client' = client
    BY <1>1 DEF Told, Send
  <2>3. Encode(s) # << >> /\ Decode(Encode(s)) = Read(s, << >>)
    BY <2>1, <2>2, WrittenIsRead
  <2> QED
    BY <2>1, <2>2, <2>3 DEF Told
<1>2. CASE Scribble
  <2>1. wire = << >> /\ UNCHANGED <<client, sent>>
    BY <1>2 DEF Scribble, Idle
  <2> QED
    BY <2>1 DEF Told
<1>3. CASE Return \/ Begin
  <2>1. client' = client /\ sent' = Nothing
    BY <1>3 DEF Return, Begin
  <2> QED
    BY <2>1 DEF Told
<1>4. CASE Receive \/ Bind \/ AssertOne \/ AssertMulti \/ IfElse \/ Invoke \/ ResetFrame \/ UNCHANGED vars
  <2>1. UNCHANGED <<client, sent, wire>>
    BY <1>4 DEF Receive, Bind, AssertOne, AssertMulti, IfElse, Invoke, ResetFrame, vars
  <2> QED
    BY <2>1 DEF Told
<1> QED
  BY <1>1, <1>2, <1>3, <1>4 DEF Next, Advance

\* What a client sends is what the program reads, to the last byte: the tags,
\* fields, widths and counts that the TypeScript SDK writes (codec.ts,
\* let-binding-variants.ts, expr-variants.ts, structured-cpi-patch.ts, types.ts,
\* if-else-arm.ts of sdk/src) mean to the program's readers (wire/*.rs) what they
\* mean to the SDK, for every width of a type and every statement it can write.
THEOREM TheSentIsDecoded == Spec => []SentIsDecoded
<1>1. Init => Told
  BY DEF Init, Told
<1>2. Told /\ [Next]_vars => Told'
  BY ToldStep
<1>3. Told => SentIsDecoded
  <2> SUFFICES ASSUME Told, sent # Nothing
               PROVE  LET d == Decode(wire) IN d.err = "Ok" /\ d.v = sent /\ d.rest = << >>
    BY DEF SentIsDecoded
  <2>1. Decode(wire) = Read(sent, << >>)
    BY DEF Told
  <2> QED
    BY <2>1, ReadFieldsOf
<1> QED
  BY <1>1, <1>2, <1>3, PTL DEF Spec

-----------------------------------------------------------------------------
(* How evaluation fails.                                                   *)

EvalErrors ==
  { "IntegerOverflow", "IntegerUnderflow", "DivisionByZero", "UnsupportedBinaryOp", "UnsupportedUnaryOp",
    "FloatUnordered", "LoadTypeMismatch", "ExprTypeMismatch", "InvalidExprOperand", "InvalidValueIndex",
    "CastOverflow", "TypeError", "panic" }
Evaluates(out) == out.err \in EvalErrors \cup {"Ok"}

LEMMA OutcomesEvaluate ==
  /\ \A v : Evaluates(Ok(v))
  /\ \A p : Evaluates(Truth(p))
  /\ \A err \in EvalErrors : Evaluates(Err(err))
  /\ \A ty, n : \A err \in EvalErrors : Evaluates(Fit(ty, n, err))
<1>1. \A v : Evaluates(Ok(v))
  BY DEF Evaluates, Ok
<1>2. \A err \in EvalErrors : Evaluates(Err(err))
  BY DEF Evaluates, Err
<1>3. \A p : Evaluates(Truth(p))
  BY <1>1 DEF Truth
<1> QED
  BY <1>1, <1>2, <1>3 DEF Fit

LEMMA ArithEvaluates ==
  ASSUME NEW op \in Arith, NEW ty, NEW a, NEW b
  PROVE  Evaluates(ApplyArith(op, ty, a, b))
<1>1. "UnsupportedBinaryOp" \in EvalErrors /\ "FloatUnordered" \in EvalErrors /\ "DivisionByZero" \in EvalErrors
      /\ "IntegerOverflow" \in EvalErrors /\ "IntegerUnderflow" \in EvalErrors
  BY DEF EvalErrors
<1>2. Evaluates(IntegerArith(op, ty, a, b))
  <2>1. CASE op = "Add"
    <3>1. IntegerArith(op, ty, a, b) = Fit(ty, a + b, "IntegerOverflow")
      BY <2>1 DEF IntegerArith
    <3> QED
      BY <1>1, <3>1, OutcomesEvaluate
  <2>2. CASE op = "Sub"
    <3>1. IntegerArith(op, ty, a, b) = Fit(ty, a - b, "IntegerUnderflow")
      BY <2>2 DEF IntegerArith
    <3> QED
      BY <1>1, <3>1, OutcomesEvaluate
  <2>3. CASE op = "Mul"
    <3>1. IntegerArith(op, ty, a, b) = Fit(ty, a * b, "IntegerOverflow")
      BY <2>3 DEF IntegerArith
    <3> QED
      BY <1>1, <3>1, OutcomesEvaluate
  <2>4. CASE op = "Div"
    <3>1. IntegerArith(op, ty, a, b) = IF b = 0 THEN Err("DivisionByZero") ELSE Fit(ty, Trunc(a, b), "DivisionByZero")
      BY <2>4 DEF IntegerArith
    <3> QED
      BY <1>1, <3>1, OutcomesEvaluate
  <2>5. CASE op \in {"Min", "Max"}
    <3>1. \E n : IntegerArith(op, ty, a, b) = Ok(n)
      BY <2>5 DEF IntegerArith
    <3> QED
      BY <3>1, OutcomesEvaluate
  <2> QED
    BY <2>1, <2>2, <2>3, <2>4, <2>5 DEF Arith
<1>3. Evaluates(FloatArith(op, a, b))
  <2>1. FloatArith(op, a, b) \in {Err("FloatUnordered"), Err("DivisionByZero")} \/ \E n : FloatArith(op, a, b) = Ok(n)
    BY DEF FloatArith
  <2> QED
    BY <1>1, <2>1, OutcomesEvaluate
<1> QED
  BY <1>1, <1>2, <1>3, OutcomesEvaluate DEF ApplyArith

LEMMA ApplyEvaluates ==
  ASSUME NEW n \in Nat, NEW op, NEW target, Applies(n, op, target), op # "Select", NEW ty, NEW v
  PROVE  Evaluates(Apply(op, target, ty, v))
<1>1. "UnsupportedBinaryOp" \in EvalErrors /\ "FloatUnordered" \in EvalErrors /\ "DivisionByZero" \in EvalErrors
      /\ "IntegerOverflow" \in EvalErrors /\ "InvalidExprOperand" \in EvalErrors /\ "CastOverflow" \in EvalErrors
      /\ "panic" \in EvalErrors
  BY DEF EvalErrors
<1> DEFINE out == Apply(op, target, ty, v)
<1> SUFFICES Evaluates(out)
  OBVIOUS
<1>2. CASE op \in {"Not", "And", "Or"}
  <2>1. \E p : out = Truth(p)
    BY <1>2, ApplyOperator
  <2> HIDE DEF out
  <2> QED
    BY <2>1, OutcomesEvaluate
<1>3. CASE op = "Neg"
  <2>1. out = ApplyNeg(ty, v[1])
    BY <1>3, ApplyOperator
  <2>2. \/ out = Fit(ty, - v[1], "IntegerOverflow") \/ out = Err("FloatUnordered") \/ \E a : out = Ok(a)
    BY <2>1 DEF ApplyNeg
  <2> HIDE DEF out
  <2> QED
    BY <1>1, <2>2, OutcomesEvaluate
<1>4. CASE op \in {"IsZero", "NonZero"}
  <2>1. out = Err("InvalidExprOperand") \/ \E p : out = Truth(p)
    BY <1>4, ApplyOperator DEF ApplyIsZero, ApplyNonZero
  <2> HIDE DEF out
  <2> QED
    BY <1>1, <2>1, OutcomesEvaluate
<1>5. CASE op = "As"
  <2>1. out = ApplyCast(target, ty, v[1])
    BY <1>5, ApplyOperator
  <2>2. \/ out \in {Err("InvalidExprOperand"), Err("CastOverflow")} \/ out = Fit(target, v[1], "CastOverflow")
        \/ \E a : out = Ok(a)
    BY <2>1 DEF ApplyCast
  <2> HIDE DEF out
  <2> QED
    BY <1>1, <2>2, OutcomesEvaluate
<1>6. CASE op \in Compare
  <2>1. out = ApplyCompare(op, ty, v[1], v[2])
    BY <1>6, ApplySorts
  <2>2. out \in {Err("UnsupportedBinaryOp"), Err("FloatUnordered")} \/ \E p : out = Truth(p)
    BY <2>1 DEF ApplyCompare
  <2> HIDE DEF out
  <2> QED
    BY <1>1, <2>2, OutcomesEvaluate
<1>7. CASE op \in Arith
  BY <1>7, ApplySorts, ArithEvaluates
<1>8. CASE op \in {"DivFloor", "DivCeil"}
  <2>1. out \in {ApplyDivFloor(ty, v[1], v[2]), ApplyDivCeil(ty, v[1], v[2])}
    BY <1>8, ApplyOperator
  <2>2. \A o : Evaluates(FloatDivRound(o, v[1], v[2]))
    BY <1>1, OutcomesEvaluate DEF FloatDivRound
  <2>3. Evaluates(ApplyDivFloor(ty, v[1], v[2]))
    BY <1>1, <2>2, OutcomesEvaluate DEF ApplyDivFloor
  <2>4. Evaluates(ApplyDivCeil(ty, v[1], v[2]))
    BY <1>1, <2>2, OutcomesEvaluate DEF ApplyDivCeil
  <2> HIDE DEF out
  <2> QED
    BY <2>1, <2>3, <2>4
<1>9. CASE op = "SaturatingSub"
  <2>1. out = Err("UnsupportedBinaryOp") \/ \E a : out = Ok(a)
    BY <1>9, ApplyOperator DEF SaturatingSub
  <2> HIDE DEF out
  <2> QED
    BY <1>1, <2>1, OutcomesEvaluate
<1>10. CASE op \in Bps \cup MulDiv
  <2>1. ASSUME NEW o, NEW ty2, NEW a, NEW b, NEW c PROVE Evaluates(ApplyMulDiv(o, ty2, a, b, c))
    BY <1>1, OutcomesEvaluate DEF ApplyMulDiv
  <2> QED
    BY <1>10, <2>1, ApplySorts
<1>11. CASE op = "Clamp"
  <2> DEFINE maxed == ApplyArith("Max", ty, v[1], v[2])
  <2>1. out = IF maxed.err # "Ok" THEN maxed ELSE ApplyArith("Min", ty, maxed.v, v[3])
    BY <1>11, ApplyOperator DEF ApplyClamp
  <2>2. Evaluates(maxed) /\ \A a : Evaluates(ApplyArith("Min", ty, a, v[3]))
    BY ArithEvaluates DEF Arith
  <2> HIDE DEF out, maxed
  <2> QED
    BY <2>1, <2>2
<1> QED
  BY <1>2, <1>3, <1>4, <1>5, <1>6, <1>7, <1>8, <1>9, <1>10, <1>11
  DEF Applies, UnaryOp, BinaryOp, TernaryOp, Numeric, Logic

LEMMA OperandTypesEvaluate ==
  ASSUME NEW n \in Nat, NEW op, NEW target, Applies(n, op, target), NEW dst, NEW t
  PROVE  OperandTypes(dst, op, target, t).err \in EvalErrors \cup {"Ok"}
<1> DEFINE r == OperandTypes(dst, op, target, t)
           E == EvalErrors \cup {"Ok"}
<1>1. CASE op \in {"Not", "Neg"}
  BY <1>1 DEF OperandTypes, IsTarget, BoolOp, Compare, Logic, Bps, Numeric, Arith, MulDiv, EvalErrors
<1>2. CASE op \in {"IsZero", "NonZero", "As"}
  BY <1>2 DEF OperandTypes, IsTarget, BoolOp, Compare, Logic, Bps, Numeric, Arith, MulDiv, EvalErrors
<1>3. CASE op \in Logic
  BY <1>3 DEF OperandTypes, IsTarget, BoolOp, Compare, Logic, Bps, Numeric, Arith, MulDiv, EvalErrors
<1>4. CASE op \in Compare
  BY <1>4 DEF OperandTypes, IsTarget, BoolOp, Compare, Logic, Bps, Numeric, Arith, MulDiv, EvalErrors
<1>5. CASE op \in Numeric
  BY <1>5 DEF OperandTypes, IsTarget, BoolOp, Compare, Logic, Bps, Numeric, Arith, MulDiv, EvalErrors
<1>6. CASE op \in Bps
  BY <1>6 DEF OperandTypes, IsTarget, BoolOp, Compare, Logic, Bps, Numeric, Arith, MulDiv, EvalErrors
<1>7. CASE op \in MulDiv
  BY <1>7 DEF OperandTypes, IsTarget, BoolOp, Compare, Logic, Bps, Numeric, Arith, MulDiv, EvalErrors
<1>8. CASE op = "Clamp"
  BY <1>8 DEF OperandTypes, IsTarget, BoolOp, Compare, Logic, Bps, Numeric, Arith, MulDiv, EvalErrors
<1>9. CASE op = "Select"
  BY <1>9 DEF OperandTypes, IsTarget, BoolOp, Compare, Logic, Bps, Numeric, Arith, MulDiv, EvalErrors
<1> QED
  BY <1>1, <1>2, <1>3, <1>4, <1>5, <1>6, <1>7, <1>8, <1>9
  DEF Applies, UnaryOp, BinaryOp, TernaryOp

-----------------------------------------------------------------------------
(* What an expression answers, and what it still answers when values have  *)
(* been appended to the Frame's.                                           *)

Behaves(x) == (\E m : Answers(x, m)) /\ \A ty \in Type : Evaluates(x.out[ty])

Keeps(x, y) ==
  /\ x.ty # "none" => y.ty = x.ty
  /\ \A ty \in Type : x.out[ty].err = "Ok" => y.out[ty] = x.out[ty]

LEMMA CombinedEvaluates ==
  ASSUME NEW n \in Nat, NEW op, NEW target, Applies(n, op, target), op # "Select", NEW ty, NEW outcomes,
         DOMAIN outcomes = 1 .. n, \A k \in 1 .. n : Evaluates(outcomes[k])
  PROVE  Evaluates(Combined(op, target, ty, outcomes))
<1> DEFINE failing == {k \in DOMAIN outcomes : outcomes[k].err # "Ok"}
           first == CHOOSE k \in failing : \A m \in failing : k <= m
           v == [k \in DOMAIN outcomes |-> outcomes[k].v]
<1>1. Combined(op, target, ty, outcomes) = IF failing # {} THEN outcomes[first] ELSE Apply(op, target, ty, v)
  BY DEF Combined
<1>2. Evaluates(Apply(op, target, ty, v))
  <2> HIDE DEF v
  <2> QED
    BY ApplyEvaluates
<1>3. failing # {} => first \in failing
  <2>1. failing \subseteq Nat
    OBVIOUS
  <2> HIDE DEF failing
  <2>2. failing # {} => \E k \in failing : \A m \in failing : k <= m
    BY <2>1, NatMin
  <2> QED
    BY <2>2
<1>4. failing # {} => Evaluates(outcomes[first])
  <2>1. failing \subseteq 1 .. n
    OBVIOUS
  <2> HIDE DEF first, failing
  <2> QED
    BY <1>3, <2>1
<1> HIDE DEF failing, first, v
<1> QED
  BY <1>1, <1>2, <1>4

LEMMA CompositeBehaves ==
  ASSUME NEW n \in Nat, NEW op, NEW target, Applies(n, op, target),
         NEW x, DOMAIN x = 1 .. n, \A k \in 1 .. n : Behaves(x[k])
  PROVE  Behaves(Composite(op, target, x))
<1> DEFINE m == [k \in 1 .. n |-> CHOOSE a : Answers(x[k], a)]
           t == Types(x)
<1>1. \A k \in 1 .. n : Answers(x[k], m[k])
  BY DEF Behaves
<1>2. DOMAIN m = 1 .. n
  OBVIOUS
<1>3. t \in [1 .. n -> Type \cup {"none"}]
  <2>1. \A k \in 1 .. n : x[k].ty \in Type \cup {"none"}
    <3> HIDE DEF m
    <3> QED
      BY <1>1 DEF Answers
  <2> QED
    BY <2>1 DEF Types
<1> HIDE DEF m, t
<1>4. \E a : Answers(Composite(op, target, x), a)
  BY <1>1, <1>2, CompositeAnswers
<1>5. ASSUME NEW dst \in Type PROVE Evaluates(Evaluated(dst, op, target, x))
  <2> DEFINE typing == OperandTypes(dst, op, target, t)
             outcomes == [k \in DOMAIN x |-> x[k].out[typing.tys[k]]]
  <2>1. Evaluated(dst, op, target, x) =
          IF typing.err # "Ok" THEN Err(typing.err)
          ELSE IF op = "Select" THEN Selected(outcomes) ELSE Combined(op, target, typing.tys[1], outcomes)
    BY DEF Evaluated, t
  <2>2. CASE typing.err # "Ok"
    <3>1. typing.err \in EvalErrors
      BY <2>2, OperandTypesEvaluate
    <3> HIDE DEF typing, outcomes
    <3> QED
      BY <2>1, <2>2, <3>1, OutcomesEvaluate
  <2>3. CASE typing.err = "Ok"
    <3>1. \A k \in 1 .. n : typing.tys[k] \in Type
      <4>1. \E tys \in [1 .. n -> Type] : typing = [err |-> "Ok", tys |-> tys]
        BY <1>3, <2>3, OperandTypesTyped
      <4> HIDE DEF typing
      <4> QED
        BY <4>1
    <3>2. DOMAIN outcomes = 1 .. n /\ \A k \in 1 .. n : Evaluates(outcomes[k])
      <4> HIDE DEF typing
      <4> QED
        BY <3>1 DEF Behaves
    <3> HIDE DEF typing, outcomes
    <3>3. CASE op = "Select"
      <4>1. n = 3
        BY <3>3 DEF Applies, UnaryOp, BinaryOp, Numeric, Arith, Compare, Logic, Bps
      <4>2. Evaluates(outcomes[1]) /\ Evaluates(outcomes[2]) /\ Evaluates(outcomes[3])
        BY <3>2, <4>1
      <4>3. Evaluates(Selected(outcomes))
        BY <4>2 DEF Selected, Taken
      <4> QED
        BY <2>1, <2>3, <3>3, <4>3
    <3>4. CASE op # "Select"
      <4>1. Evaluates(Combined(op, target, typing.tys[1], outcomes))
        BY <3>2, <3>4, CombinedEvaluates
      <4> QED
        BY <2>1, <2>3, <3>4, <4>1
    <3> QED
      BY <3>3, <3>4
  <2> QED
    BY <2>2, <2>3
<1>6. \A dst \in Type : Composite(op, target, x).out[dst] = Evaluated(dst, op, target, x)
  BY DEF Composite
<1> QED
  BY <1>4, <1>5, <1>6 DEF Behaves

\* Where x is evaluated, so is y.
LEMMA KeepsOk ==
  ASSUME NEW x, NEW y, NEW mx, NEW my, NEW ty \in Type,
         Keeps(x, y), Answers(x, mx), Answers(y, my), x.out[ty].err = "Ok"
  PROVE  mx = my /\ Fits(my) /\ my # None /\ my.ty = ty /\ x.ty = ty /\ y.ty = ty /\ y.out[ty] = x.out[ty]
<1>1. y.out[ty] = x.out[ty]
  BY DEF Keeps
<1>2. mx # None /\ Fits(mx) /\ mx.ty = ty /\ x.ty = ty /\ x.out[ty] = Ok(mx.v)
  BY AnswersOk
<1>3. my # None /\ Fits(my) /\ my.ty = ty /\ y.ty = ty /\ y.out[ty] = Ok(my.v)
  BY <1>1, AnswersOk
<1>4. mx.v = my.v
  <2>1. Ok(mx.v) = Ok(my.v)
    BY <1>1, <1>2, <1>3
  <2>2. \A a : Ok(a).v = a
    BY DEF Ok
  <2>3. Ok(mx.v).v = mx.v /\ Ok(my.v).v = my.v
    BY <2>2
  <2> QED
    BY <2>1, <2>3
<1>5. mx = [ty |-> mx.ty, v |-> mx.v] /\ my = [ty |-> my.ty, v |-> my.v]
  BY <1>2, <1>3, FittingIsTyped
<1> QED
  BY <1>1, <1>2, <1>3, <1>4, <1>5

\* What evaluates one of them, evaluates the other.
LEMMA KeepsValue ==
  ASSUME NEW x, NEW y, NEW mx, NEW my, Keeps(x, y), Answers(x, mx), Answers(y, my), Fits(mx), mx.ty = x.ty
  PROVE  mx = my /\ my # None /\ y.ty = x.ty
<1>1. mx # None /\ mx = [ty |-> mx.ty, v |-> mx.v]
  BY FittingIsTyped
<1>2. mx.ty \in Type /\ x.out[mx.ty] = Ok(mx.v)
  BY <1>1, AnswersAt
<1>3. x.out[mx.ty].err = "Ok"
  BY <1>2 DEF Ok
<1>4. y.out[mx.ty] = x.out[mx.ty]
  BY <1>2, <1>3 DEF Keeps
<1>5. my # None /\ Fits(my) /\ my.ty = mx.ty /\ y.ty = mx.ty /\ y.out[mx.ty] = Ok(my.v)
  BY <1>2, <1>3, <1>4, AnswersOk
<1>6. mx.v = my.v
  BY <1>2, <1>4, <1>5 DEF Ok
<1>7. my = [ty |-> my.ty, v |-> my.v]
  BY <1>5, FittingIsTyped
<1> QED
  BY <1>1, <1>5, <1>6, <1>7

LEMMA CompositeKeeps ==
  ASSUME NEW n \in Nat, NEW op, NEW target, Applies(n, op, target),
         NEW x, NEW y, DOMAIN x = 1 .. n, DOMAIN y = 1 .. n,
         \A k \in 1 .. n : Behaves(x[k]) /\ Behaves(y[k]) /\ Keeps(x[k], y[k])
  PROVE  Keeps(Composite(op, target, x), Composite(op, target, y))
<1> DEFINE mx == [k \in 1 .. n |-> CHOOSE a : Answers(x[k], a)]
           my == [k \in 1 .. n |-> CHOOSE a : Answers(y[k], a)]
           t == Types(x)
           u == Types(y)
<1>1. \A k \in 1 .. n : Answers(x[k], mx[k]) /\ Answers(y[k], my[k])
  BY DEF Behaves
<1>2. /\ t = [k \in 1 .. n |-> x[k].ty] /\ DOMAIN t = 1 .. n
      /\ u = [k \in 1 .. n |-> y[k].ty] /\ DOMAIN u = 1 .. n
  BY DEF Types
<1>3. \A k \in 1 .. n : t[k] # "none" => u[k] = t[k]
  BY <1>2 DEF Keeps
<1>4. n \in 1 .. 3 /\ (op \in BinaryOp => n = 2) /\ (op \in TernaryOp => n = 3)
  BY DEF Applies, UnaryOp, BinaryOp, TernaryOp, Numeric, Arith, Compare, Logic, Bps, MulDiv
<1> HIDE DEF mx, my, t, u
<1>5. Inferred(op, target, t) # "none" => Inferred(op, target, u) = Inferred(op, target, t)
  <2>1. t[1] # "none" => u[1] = t[1]
    BY <1>3, <1>4
  <2>2. CASE op \in BoolOp \cup Bps \cup {"As"}
    BY <2>2, InferredIs
  <2>3. CASE op = "Neg"
    <3>1. "none" \notin Negatable
      BY DEF Negatable, Signed, WideSigned, Float
    <3> QED
      BY <2>1, <2>3, <3>1, InferredIs
  <2>4. CASE op \in Numeric \cup MulDiv \cup {"Clamp"}
    BY <2>1, <2>4, InferredIs
  <2>5. CASE op = "Select"
    <3>1. (t[2] # "none" => u[2] = t[2]) /\ (t[3] # "none" => u[3] = t[3])
      BY <1>3, <1>4, <2>5 DEF TernaryOp
    <3> QED
      BY <2>5, <3>1, InferredIs
  <2> QED
    BY <2>2, <2>3, <2>4, <2>5 DEF Applies, UnaryOp, BinaryOp, TernaryOp, BoolOp
<1>6. ASSUME NEW dst \in Type, Evaluated(dst, op, target, x).err = "Ok", op # "Select"
      PROVE  Evaluated(dst, op, target, y) = Evaluated(dst, op, target, x)
  <2>1. /\ \A k \in 1 .. n : Fits(mx[k]) /\ mx[k].ty = x[k].ty
        /\ OperandTypes(dst, op, target, t) = [err |-> "Ok", tys |-> t]
        /\ Evaluated(dst, op, target, x) = Apply(op, target, x[1].ty, [k \in 1 .. n |-> mx[k].v])
    BY <1>1, <1>6, EvaluatedOk DEF t
  <2>2. ASSUME NEW k \in 1 .. n PROVE my[k] = mx[k] /\ my[k] # None /\ y[k].ty = x[k].ty
    <3>1. /\ Keeps(x[k], y[k]) /\ Answers(x[k], mx[k]) /\ Answers(y[k], my[k])
          /\ Fits(mx[k]) /\ mx[k].ty = x[k].ty
      BY <1>1, <2>1
    <3> DEFINE a == x[k]
               b == y[k]
               c == mx[k]
               d == my[k]
    <3>2. Keeps(a, b) /\ Answers(a, c) /\ Answers(b, d) /\ Fits(c) /\ c.ty = a.ty
      BY <3>1
    <3> HIDE DEF a, b, c, d
    <3>3. c = d /\ d # None /\ b.ty = a.ty
      BY <3>2, KeepsValue
    <3> QED
      BY <3>3 DEF a, b, c, d
  <2>3. u = t
    BY <1>2, <2>2
  <2>4. [k \in 1 .. n |-> my[k].v] = [k \in 1 .. n |-> mx[k].v]
    BY <2>2
  <2>5. Evaluated(dst, op, target, y) = Apply(op, target, y[1].ty, [k \in 1 .. n |-> my[k].v])
    <3>1. \A k \in 1 .. n : Answers(y[k], my[k]) /\ my[k] # None
      BY <1>1, <2>2
    <3>2. OperandTypes(dst, op, target, Types(y)) = [err |-> "Ok", tys |-> Types(y)]
      BY <2>1, <2>3 DEF u
    <3>3. n >= 1
      BY <1>4
    <3> QED
      BY <1>6, <3>1, <3>2, <3>3, EvaluatedAtTypes
  <2>6. y[1].ty = x[1].ty
    BY <1>4, <2>2
  <2> QED
    BY <2>1, <2>4, <2>5, <2>6
<1>7. ASSUME NEW dst \in Type, Evaluated(dst, op, target, x).err = "Ok", op = "Select"
      PROVE  Evaluated(dst, op, target, y) = Evaluated(dst, op, target, x)
  <2> DEFINE tx == OperandTypes(dst, op, target, t)
             ty_ == OperandTypes(dst, op, target, u)
             ox == [k \in DOMAIN x |-> x[k].out[tx.tys[k]]]
             oy == [k \in DOMAIN y |-> y[k].out[ty_.tys[k]]]
  <2>1. /\ Evaluated(dst, op, target, x) = IF tx.err # "Ok" THEN Err(tx.err) ELSE Selected(ox)
        /\ Evaluated(dst, op, target, y) = IF ty_.err # "Ok" THEN Err(ty_.err) ELSE Selected(oy)
    BY <1>7 DEF Evaluated, t, u
  <2>2. tx.err = "Ok"
    <3>1. tx.err # "Ok" => Err(tx.err).err # "Ok"
      BY DEF Err
    <3> HIDE DEF tx, ox, oy, ty_
    <3> QED
      BY <1>7, <2>1, <3>1
  <2>3. (\A k \in DOMAIN t : t[k] # "none") /\ tx = [err |-> "Ok", tys |-> t]
    BY <1>7, <2>2, OperandTypesIs
  <2>4. u = t
    BY <1>2, <1>3, <2>3
  <2>5. ty_ = tx /\ n = 3
    BY <1>4, <1>7, <2>4 DEF TernaryOp
  <2>6. t[1] \in Type /\ t[2] \in Type /\ t[3] \in Type
    <3>1. ASSUME NEW k \in 1 .. n PROVE t[k] \in Type
      <4>1. x[k].ty \in Type \cup {"none"}
        BY <1>1 DEF Answers
      <4> QED
        BY <1>2, <2>3, <4>1
    <3> QED
      BY <2>5, <3>1
  <2>7. /\ ox[1] = x[1].out[t[1]] /\ ox[2] = x[2].out[t[2]] /\ ox[3] = x[3].out[t[3]]
        /\ oy[1] = y[1].out[t[1]] /\ oy[2] = y[2].out[t[2]] /\ oy[3] = y[3].out[t[3]]
    BY <2>3, <2>5
  <2>8. \A k \in 1 .. 3 : ox[k].err = "Ok" => oy[k] = ox[k]
    <3> HIDE DEF ox, oy, tx, ty_
    <3>1. (ox[1].err = "Ok" => oy[1] = ox[1]) /\ (ox[2].err = "Ok" => oy[2] = ox[2])
          /\ (ox[3].err = "Ok" => oy[3] = ox[3])
      BY <2>5, <2>6, <2>7 DEF Keeps
    <3> QED
      BY <3>1
  <2> HIDE DEF ox, oy, tx, ty_
  <2>9. Selected(ox).err = "Ok"
    BY <1>7, <2>1, <2>2
  <2>10. Selected(oy) = Selected(ox)
    BY <2>8, <2>9 DEF Selected, Taken
  <2> QED
    BY <2>1, <2>2, <2>5, <2>10
<1>8. \A dst \in Type : /\ Composite(op, target, x).out[dst] = Evaluated(dst, op, target, x)
                        /\ Composite(op, target, y).out[dst] = Evaluated(dst, op, target, y)
  BY DEF Composite
<1>9. Composite(op, target, x).ty = Inferred(op, target, t) /\ Composite(op, target, y).ty = Inferred(op, target, u)
  BY DEF Composite, t, u
<1> QED
  BY <1>5, <1>6, <1>7, <1>8, <1>9 DEF Keeps

-----------------------------------------------------------------------------
(* From an expression's last node to its first.                            *)

\* The stacks on which an answer is found.
AnsweredBy(tp, e, f) ==
  /\ f[0] = << >>
  /\ \A k \in 1 .. Len(e) : f[k] = Joined(tp, e[Len(e) + 1 - k], f[k - 1])
  /\ Answer(tp, e) = f[Len(e)][1]

LEMMA AnswerRecursion ==
  ASSUME NEW tp, NEW e, Len(e) \in Nat
  PROVE  \E f : AnsweredBy(tp, e, f)
<1> DEFINE n == Len(e)
           E(g) == g = [k \in 0 .. n |-> IF k = 0 THEN << >> ELSE Joined(tp, e[n + 1 - k], g[k - 1])]
           after == CHOOSE g : E(g)
           Solves(f, m) == /\ f = [k \in 0 .. m |-> f[k]] /\ f[0] = << >>
                           /\ \A k \in 1 .. m : f[k] = Joined(tp, e[n + 1 - k], f[k - 1])
           P == {m \in 0 .. n : \E f : Solves(f, m)}
<1>1. Answer(tp, e) = after[n][1]
  BY DEF Answer
<1> HIDE DEF n
<1>2. n \in Nat
  BY DEF n
<1>3. 0 \in P
  <2> DEFINE f == [k \in 0 .. 0 |-> << >>]
  <2>1. Solves(f, 0)
    OBVIOUS
  <2> HIDE DEF f, Solves
  <2> QED
    BY <1>2, <2>1
<1>4. ASSUME NEW m \in 1 .. n, m - 1 \in P PROVE m \in P
  <2>1. PICK g : Solves(g, m - 1)
    BY <1>4
  <2> DEFINE next == Joined(tp, e[n + 1 - m], g[m - 1])
             f == [k \in 0 .. m |-> IF k = m THEN next ELSE g[k]]
  <2>2. m \in Nat /\ m - 1 \in Nat /\ 0 \in 0 .. m - 1 /\ m - 1 \in 0 .. m - 1
    BY <1>2
  <2>3. f[m] = next /\ f = [k \in 0 .. m |-> f[k]] /\ \A k \in 0 .. m - 1 : f[k] = g[k]
    <3> HIDE DEF next
    <3> QED
      BY <2>2
  <2> HIDE DEF f
  <2>4. f[0] = << >>
    BY <2>1, <2>2, <2>3
  <2>5. ASSUME NEW k \in 1 .. m PROVE f[k] = Joined(tp, e[n + 1 - k], f[k - 1])
    <3>1. CASE k = m
      BY <2>2, <2>3, <3>1
    <3>2. CASE k # m
      <4>1. k \in 1 .. m - 1 /\ k \in 0 .. m - 1 /\ k - 1 \in 0 .. m - 1
        BY <2>2, <3>2
      <4> QED
        BY <2>1, <2>3, <4>1
    <3> QED
      BY <3>1, <3>2
  <2>6. Solves(f, m)
    <3> HIDE DEF next
    <3> QED
      BY <2>3, <2>4, <2>5
  <2> HIDE DEF Solves
  <2> QED
    BY <2>6
<1>5. n \in P
  <2> HIDE DEF P
  <2>1. \A k \in 0 .. n : k \in P
    BY <1>2, <1>3, <1>4, NatInduct
  <2> QED
    BY <1>2, <2>1
<1>6. PICK f : Solves(f, n)
  BY <1>5
<1>7. E(f)
  <2>1. ASSUME NEW k \in 0 .. n PROVE f[k] = IF k = 0 THEN << >> ELSE Joined(tp, e[n + 1 - k], f[k - 1])
    <3>1. k # 0 => k \in 1 .. n
      BY <1>2
    <3> QED
      BY <1>6, <3>1
  <2> QED
    BY <1>6, <2>1, Zenon
<1>8. E(after)
  BY <1>7
<1> HIDE DEF after
<1>9. after[0] = << >> /\ \A k \in 1 .. n : after[k] = Joined(tp, e[n + 1 - k], after[k - 1])
  <2>1. \A k \in 0 .. n : after[k] = IF k = 0 THEN << >> ELSE Joined(tp, e[n + 1 - k], after[k - 1])
    BY <1>8
  <2>2. 0 \in 0 .. n /\ \A k \in 1 .. n : k \in 0 .. n /\ k # 0
    BY <1>2
  <2> HIDE DEF E
  <2> QED
    BY <2>1, <2>2
<1> QED
  BY <1>1, <1>9 DEF n, AnsweredBy

\* And a text.
WrittenBy(e, f) ==
  /\ f[0] = << >>
  /\ \A k \in 1 .. Len(e) : f[k] = TextOnto(e[Len(e) + 1 - k], f[k - 1])
  /\ Text(e) = f[Len(e)][1].text

LEMMA TextRecursion ==
  ASSUME NEW e, Len(e) \in Nat
  PROVE  \E f : WrittenBy(e, f)
<1> DEFINE n == Len(e)
           E(g) == g = [k \in 0 .. n |-> IF k = 0 THEN << >> ELSE TextOnto(e[n + 1 - k], g[k - 1])]
           after == CHOOSE g : E(g)
           Solves(f, m) == /\ f = [k \in 0 .. m |-> f[k]] /\ f[0] = << >>
                           /\ \A k \in 1 .. m : f[k] = TextOnto(e[n + 1 - k], f[k - 1])
           P == {m \in 0 .. n : \E f : Solves(f, m)}
<1>1. Text(e) = after[n][1].text
  BY DEF Text
<1> HIDE DEF n
<1>2. n \in Nat
  BY DEF n
<1>3. 0 \in P
  <2> DEFINE f == [k \in 0 .. 0 |-> << >>]
  <2>1. Solves(f, 0)
    OBVIOUS
  <2> HIDE DEF f, Solves
  <2> QED
    BY <1>2, <2>1
<1>4. ASSUME NEW m \in 1 .. n, m - 1 \in P PROVE m \in P
  <2>1. PICK g : Solves(g, m - 1)
    BY <1>4
  <2> DEFINE next == TextOnto(e[n + 1 - m], g[m - 1])
             f == [k \in 0 .. m |-> IF k = m THEN next ELSE g[k]]
  <2>2. m \in Nat /\ m - 1 \in Nat /\ 0 \in 0 .. m - 1 /\ m - 1 \in 0 .. m - 1
    BY <1>2
  <2>3. f[m] = next /\ f = [k \in 0 .. m |-> f[k]] /\ \A k \in 0 .. m - 1 : f[k] = g[k]
    <3> HIDE DEF next
    <3> QED
      BY <2>2
  <2> HIDE DEF f
  <2>4. f[0] = << >>
    BY <2>1, <2>2, <2>3
  <2>5. ASSUME NEW k \in 1 .. m PROVE f[k] = TextOnto(e[n + 1 - k], f[k - 1])
    <3>1. CASE k = m
      BY <2>2, <2>3, <3>1
    <3>2. CASE k # m
      <4>1. k \in 1 .. m - 1 /\ k \in 0 .. m - 1 /\ k - 1 \in 0 .. m - 1
        BY <2>2, <3>2
      <4> QED
        BY <2>1, <2>3, <4>1
    <3> QED
      BY <3>1, <3>2
  <2>6. Solves(f, m)
    <3> HIDE DEF next
    <3> QED
      BY <2>3, <2>4, <2>5
  <2> HIDE DEF Solves
  <2> QED
    BY <2>6
<1>5. n \in P
  <2> HIDE DEF P
  <2>1. \A k \in 0 .. n : k \in P
    BY <1>2, <1>3, <1>4, NatInduct
  <2> QED
    BY <1>2, <2>1
<1>6. PICK f : Solves(f, n)
  BY <1>5
<1>7. E(f)
  <2>1. ASSUME NEW k \in 0 .. n PROVE f[k] = IF k = 0 THEN << >> ELSE TextOnto(e[n + 1 - k], f[k - 1])
    <3>1. k # 0 => k \in 1 .. n
      BY <1>2
    <3> QED
      BY <1>6, <3>1
  <2> QED
    BY <1>6, <2>1, Zenon
<1>8. E(after)
  BY <1>7
<1> HIDE DEF after
<1>9. after[0] = << >> /\ \A k \in 1 .. n : after[k] = TextOnto(e[n + 1 - k], after[k - 1])
  <2>1. \A k \in 0 .. n : after[k] = IF k = 0 THEN << >> ELSE TextOnto(e[n + 1 - k], after[k - 1])
    BY <1>8
  <2>2. 0 \in 0 .. n /\ \A k \in 1 .. n : k \in 0 .. n /\ k # 0
    BY <1>2
  <2> HIDE DEF E
  <2> QED
    BY <2>1, <2>2
<1> QED
  BY <1>1, <1>9 DEF n, WrittenBy

\* s is a sequence of m elements.
Stack(s, m) == s = [k \in 1 .. m |-> s[k]]

\* One takes the place of the first a.
OnTop(r, x, s, m, a) ==
  /\ Stack(r, m - a + 1) /\ r[1] = x
  /\ \A j \in 2 .. m - a + 1 : j + a - 1 \in 1 .. m /\ r[j] = s[j + a - 1]

LEMMA Replaced ==
  ASSUME NEW m \in Nat, NEW s, NEW a \in 0 .. m, NEW x, Stack(s, m)
  PROVE  OnTop(<<x>> \o Behind(s, a), x, s, m, a)
<1> DEFINE S == {s[k] : k \in 1 .. m} \cup {x}
           t == Behind(s, a)
           r == <<x>> \o t
<1>1. s \in Seq(S) /\ Len(s) = m
  <2>1. s \in [1 .. m -> S]
    <3>1. \A k \in 1 .. m : s[k] \in S
      OBVIOUS
    <3> HIDE DEF S
    <3> QED
      BY <3>1 DEF Stack
  <2> HIDE DEF S
  <2> QED
    BY <2>1, SeqDef, LenProperties
<1>2. x \in S
  OBVIOUS
<1> HIDE DEF S
<1>3. t \in Seq(S) /\ Len(t) = m - a /\ \A k \in 1 .. m - a : t[k] = s[k + a]
  BY <1>1, BehindProperties
<1> HIDE DEF t
<1>4. r \in Seq(S) /\ Len(r) = m - a + 1 /\ r[1] = x /\ \A j \in 1 .. m - a : r[j + 1] = t[j]
  <2>1. Len(t) + 1 = m - a + 1
    BY <1>3
  <2> QED
    BY <1>2, <1>3, <2>1, PrependProperties
<1> HIDE DEF r
<1>5. Stack(r, m - a + 1)
  <2>1. r \in [1 .. Len(r) -> S]
    BY <1>4, LenProperties, SeqDef
  <2> QED
    BY <1>4, <2>1 DEF Stack
<1>6. ASSUME NEW j \in 2 .. m - a + 1 PROVE j + a - 1 \in 1 .. m /\ r[j] = s[j + a - 1]
  <2>1. j - 1 \in 1 .. m - a /\ (j - 1) + 1 = j /\ (j - 1) + a = j + a - 1 /\ j + a - 1 \in 1 .. m
    OBVIOUS
  <2> QED
    BY <1>3, <1>4, <2>1
<1> QED
  BY <1>4, <1>5, <1>6 DEF OnTop, r, t

LEMMA LeadingIs ==
  ASSUME NEW m \in Nat, NEW s, NEW a \in 0 .. m
  PROVE  DOMAIN Leading(s, a) = 1 .. a /\ \A k \in 1 .. a : k \in 1 .. m /\ Leading(s, a)[k] = s[k]
<1>1. Leading(s, a) = [k \in 1 .. a |-> s[k]]
  BY DEF Leading
<1>2. \A k \in 1 .. a : k \in 1 .. m
  OBVIOUS
<1> QED
  BY <1>1, <1>2

\* Values of the Frame, and more of them.
Tape(tp) == tp \in Seq(TypedValue) /\ \A k \in 1 .. Len(tp) : Fits(tp[k])
Extends(tp, tq) == Len(tp) <= Len(tq) /\ \A k \in 1 .. Len(tp) : tq[k] = tp[k]

Alike(x, y) == Behaves(x) /\ Behaves(y) /\ Keeps(x, y)

LEMMA ConstantAlike ==
  ASSUME NEW m, Fits(m)
  PROVE  Alike(Constant(m.ty, m.v), Constant(m.ty, m.v))
<1>1. Answers(Constant(m.ty, m.v), m)
  BY ConstantAnswers
<1>2. ASSUME NEW dst \in Type PROVE Evaluates(Constant(m.ty, m.v).out[dst])
  <2>1. Constant(m.ty, m.v).out[dst] = IF m.ty = dst THEN Ok(m.v) ELSE Err("LoadTypeMismatch")
    BY DEF Constant
  <2>2. Evaluates(Err("LoadTypeMismatch")) /\ Evaluates(Ok(m.v))
    BY OutcomesEvaluate DEF EvalErrors
  <2> QED
    BY <2>1, <2>2
<1> QED
  BY <1>1, <1>2 DEF Alike, Behaves, Keeps

LEMMA ValueAtAlike ==
  ASSUME NEW tp, NEW tq, NEW i \in Nat, Tape(tp), Tape(tq), Extends(tp, tq)
  PROVE  Alike(ValueAt(tp, i), ValueAt(tq, i))
<1> DEFINE none == [ty |-> "none", out |-> [dst \in Type |-> Err("InvalidValueIndex")]]
<1>1. Len(tp) \in Nat /\ Len(tq) \in Nat
  BY LenProperties DEF Tape
<1>2. Behaves(none) /\ none.ty = "none" /\ \A dst \in Type : none.out[dst].err # "Ok"
  <2>1. none.ty = "none" /\ \A dst \in Type : none.out[dst] = Err("InvalidValueIndex")
    OBVIOUS
  <2>2. Evaluates(Err("InvalidValueIndex")) /\ Err("InvalidValueIndex").err # "Ok"
    BY OutcomesEvaluate DEF EvalErrors, Err
  <2> HIDE DEF none
  <2>3. Answers(none, None)
    BY <2>1, <2>2, AnswersNothing
  <2> QED
    BY <2>1, <2>2, <2>3 DEF Behaves
<1>3. CASE i < Len(tp)
  <2>1. i + 1 \in 1 .. Len(tp) /\ i < Len(tq)
    BY <1>1, <1>3 DEF Extends
  <2>2. Fits(tp[i + 1]) /\ tq[i + 1] = tp[i + 1]
    BY <2>1 DEF Tape, Extends
  <2>3. /\ ValueAt(tp, i) = Constant(tp[i + 1].ty, tp[i + 1].v)
        /\ ValueAt(tq, i) = Constant(tp[i + 1].ty, tp[i + 1].v)
    BY <1>3, <2>1, <2>2 DEF ValueAt
  <2> QED
    BY <2>2, <2>3, ConstantAlike
<1>4. CASE ~ (i < Len(tp))
  <2>1. ValueAt(tp, i) = none
    BY <1>4 DEF ValueAt
  <2>2. Behaves(ValueAt(tq, i))
    <3>1. CASE i < Len(tq)
      <4>1. i + 1 \in 1 .. Len(tq)
        BY <1>1, <3>1
      <4>2. Fits(tq[i + 1]) /\ ValueAt(tq, i) = Constant(tq[i + 1].ty, tq[i + 1].v)
        BY <3>1, <4>1 DEF Tape, ValueAt
      <4> QED
        BY <4>2, ConstantAlike DEF Alike
    <3>2. CASE ~ (i < Len(tq))
      <4>1. ValueAt(tq, i) = none
        BY <3>2 DEF ValueAt
      <4> QED
        BY <1>2, <4>1
    <3> QED
      BY <3>1, <3>2
  <2> HIDE DEF none
  <2> QED
    BY <1>2, <2>1, <2>2 DEF Alike, Keeps
<1> QED
  BY <1>3, <1>4

\* A stack of expressions that still answer what they did.
Stacks(s, t, m) == Stack(s, m) /\ Stack(t, m) /\ \A k \in 1 .. m : Alike(s[k], t[k])

LEMMA JoinedAlike ==
  ASSUME NEW tp, NEW tq, Tape(tp), Tape(tq), Extends(tp, tq), NEW m \in Nat, NEW s, NEW t, Stacks(s, t, m),
         NEW x \in Nodes, Arity(x.op) <= m
  PROVE  Stacks(Joined(tp, x, s), Joined(tq, x, t), m - Arity(x.op) + 1)
<1> DEFINE a == Arity(x.op)
           Node_(tape_, u) == CASE x.op = "Const" -> Constant(x.ty, x.v)
                                [] x.op = "Value" -> ValueAt(tape_, x.v)
                                [] OTHER -> Composite(x.op, x.ty, Leading(u, a))
           p == Node_(tp, s)
           q == Node_(tq, t)
           sp == <<p>> \o Behind(s, a)
           tp_ == <<q>> \o Behind(t, a)
<1>1. Joined(tp, x, s) = sp /\ Joined(tq, x, t) = tp_
  BY DEF Joined
<1>2. a \in 0 .. m /\ a \in Nat
  BY ArityTyped
<1>3. Stack(s, m) /\ Stack(t, m) /\ \A k \in 1 .. m : Alike(s[k], t[k])
  BY DEF Stacks
<1>4. Alike(p, q)
  <2>1. CASE x.op = "Const"
    <3> DEFINE v == [ty |-> x.ty, v |-> x.v]
    <3>1. p = Constant(v.ty, v.v) /\ q = Constant(v.ty, v.v)
      BY <2>1
    <3>2. Fits(v)
      BY <2>1 DEF Nodes, Fits, TypedValue
    <3> QED
      BY <3>1, <3>2, ConstantAlike
  <2>2. CASE x.op = "Value"
    <3>1. p = ValueAt(tp, x.v) /\ q = ValueAt(tq, x.v) /\ x.v \in Nat
      BY <2>2 DEF Nodes
    <3> QED
      BY <3>1, ValueAtAlike
  <2>3. CASE x.op \notin {"Const", "Value"}
    <3> DEFINE u == Leading(s, a)
               w == Leading(t, a)
    <3>1. p = Composite(x.op, x.ty, u) /\ q = Composite(x.op, x.ty, w)
      BY <2>3
    <3>2. Applies(a, x.op, x.ty)
      BY <2>3 DEF Nodes
    <3>3. DOMAIN u = 1 .. a /\ \A k \in 1 .. a : k \in 1 .. m /\ u[k] = s[k]
      BY <1>2, LeadingIs
    <3>4. DOMAIN w = 1 .. a /\ \A k \in 1 .. a : k \in 1 .. m /\ w[k] = t[k]
      BY <1>2, LeadingIs
    <3>5. \A k \in 1 .. a : Alike(u[k], w[k])
      BY <1>3, <3>3, <3>4
    <3> HIDE DEF p, q, u, w, a
    <3>6. \A k \in 1 .. a : Behaves(u[k]) /\ Behaves(w[k]) /\ Keeps(u[k], w[k])
      BY <3>5 DEF Alike
    <3>7. Behaves(p) /\ Behaves(q)
      BY <1>2, <3>1, <3>2, <3>3, <3>4, <3>6, CompositeBehaves
    <3>8. Keeps(p, q)
      BY <1>2, <3>1, <3>2, <3>3, <3>4, <3>6, CompositeKeeps
    <3> QED
      BY <3>7, <3>8 DEF Alike
  <2> QED
    BY <2>1, <2>2, <2>3
<1> HIDE DEF a, p, q
<1>5. OnTop(sp, p, s, m, a) /\ OnTop(tp_, q, t, m, a)
  BY <1>2, <1>3, Replaced
<1> HIDE DEF sp, tp_
<1>6. ASSUME NEW j \in 1 .. m - a + 1 PROVE Alike(sp[j], tp_[j])
  <2>1. CASE j = 1
    BY <1>4, <1>5, <2>1 DEF OnTop
  <2>2. CASE j # 1
    <3>1. j \in 2 .. m - a + 1
      BY <2>2
    <3> QED
      BY <1>3, <1>5, <3>1 DEF OnTop
  <2> QED
    BY <2>1, <2>2
<1> QED
  BY <1>1, <1>5, <1>6 DEF Stacks, OnTop, a

\* An expression that the program has read answers, and answers the same when
\* the Frame has more values.
LEMMA AnswerAlike ==
  ASSUME NEW tp, NEW tq, Tape(tp), Tape(tq), Extends(tp, tq), NEW e \in Terms_(1)
  PROVE  Alike(Answer(tp, e), Answer(tq, e))
<1> DEFINE n == Len(e)
<1>1. e \in Seq(Nodes) /\ n \in Nat /\ \A k \in 1 .. n : n + 1 - k \in 1 .. n /\ e[n + 1 - k] \in Nodes
  <2>1. e \in Seq(Nodes) /\ n \in Nat
    BY LenProperties DEF Terms_
  <2>2. \A k \in 1 .. n : n + 1 - k \in 1 .. n
    BY <2>1
  <2> QED
    BY <2>1, <2>2, ElementOfSeq
<1>2. PICK h : /\ h[0] = 0 /\ h[n] = 1 /\ \A k \in 0 .. n : h[k] \in Nat
               /\ \A k \in 1 .. n :
                    LET a == Arity(e[n + 1 - k].op) IN a <= h[k - 1] /\ h[k] = h[k - 1] - a + 1
  BY DEF Terms_, Forest
<1>3. PICK f : f[0] = << >> /\ (\A k \in 1 .. n : f[k] = Joined(tp, e[n + 1 - k], f[k - 1])) /\ Answer(tp, e) = f[n][1]
  <2> PICK f : AnsweredBy(tp, e, f)
    BY <1>1, AnswerRecursion
  <2> QED
    BY DEF AnsweredBy
<1>4. PICK g : g[0] = << >> /\ (\A k \in 1 .. n : g[k] = Joined(tq, e[n + 1 - k], g[k - 1])) /\ Answer(tq, e) = g[n][1]
  <2> PICK g : AnsweredBy(tq, e, g)
    BY <1>1, AnswerRecursion
  <2> QED
    BY DEF AnsweredBy
<1> HIDE DEF n
<1> DEFINE P == {k \in 0 .. n : Stacks(f[k], g[k], h[k])}
<1>5. 0 \in P
  <2>1. Stack(<< >>, 0)
    BY DEF Stack
  <2>2. Stacks(<< >>, << >>, 0)
    BY <2>1 DEF Stacks
  <2> QED
    BY <1>1, <1>2, <1>3, <1>4, <2>2
<1>6. ASSUME NEW k \in 1 .. n, k - 1 \in P PROVE k \in P
  <2> DEFINE x == e[n + 1 - k]
             m == h[k - 1]
  <2>1. x \in Nodes /\ m \in Nat /\ Arity(x.op) <= m /\ h[k] = m - Arity(x.op) + 1
    <3>1. k - 1 \in 0 .. n
      BY <1>1
    <3> QED
      BY <1>1, <1>2, <3>1
  <2>2. Stacks(f[k - 1], g[k - 1], m) /\ f[k] = Joined(tp, x, f[k - 1]) /\ g[k] = Joined(tq, x, g[k - 1])
    BY <1>3, <1>4, <1>6
  <2> HIDE DEF x, m
  <2>3. Stacks(f[k], g[k], h[k])
    BY <2>1, <2>2, JoinedAlike
  <2> QED
    BY <1>1, <2>3
<1>7. n \in P
  <2> HIDE DEF P
  <2>1. \A k \in 0 .. n : k \in P
    BY <1>1, <1>5, <1>6, NatInduct
  <2> QED
    BY <1>1, <2>1
<1>8. Stacks(f[n], g[n], 1)
  BY <1>2, <1>7
<1> QED
  BY <1>3, <1>4, <1>8 DEF Stacks

\* What eval_bool answers: an error, true or false; more values change only an error.
LEMMA VerdictIs ==
  ASSUME NEW tp, NEW e \in Terms_(1), Tape(tp)
  PROVE  LET out == Eval(tp, "Bool", e) IN
         /\ Evaluates(out)
         /\ out.err = "Ok" => out.v \in 0 .. 1 /\ out = Truth(out.v = 1)
<1> DEFINE x == Answer(tp, e)
           out == x.out["Bool"]
<1>1. Extends(tp, tp)
  BY LenProperties DEF Extends, Tape
<1>2. Behaves(x)
  BY <1>1, AnswerAlike DEF Alike
<1>3. out = Eval(tp, "Bool", e)
  BY DEF Eval
<1>4. "Bool" \in Type
  BY DEF Type
<1> HIDE DEF x
<1>5. Evaluates(out)
  BY <1>2, <1>4 DEF Behaves
<1>6. ASSUME out.err = "Ok" PROVE out.v \in 0 .. 1 /\ out = Truth(out.v = 1)
  <2>1. PICK m : Answers(x, m)
    BY <1>2 DEF Behaves
  <2>2. Fits(m) /\ m.ty = "Bool" /\ x.out["Bool"] = Ok(m.v)
    BY <1>4, <1>6, <2>1, AnswersOk
  <2>3. m.v \in 0 .. 1
    <3>1. m.v \in Values("Bool")
      BY <2>2 DEF Fits
    <3>2. Values("Bool") = 0 .. 1
      BY OperatorsAssumption DEF Values, Low, High, Float, Signed, WideSigned
    <3> QED
      BY <3>1, <3>2
  <2>4. out = Ok(m.v) /\ out.v = m.v
    BY <2>2 DEF Ok
  <2>5. Truth(m.v = 1) = Ok(m.v)
    BY <2>3 DEF Truth
  <2> HIDE DEF out
  <2> QED
    BY <2>3, <2>4, <2>5
<1> HIDE DEF out
<1> QED
  BY <1>3, <1>5, <1>6

LEMMA VerdictKept ==
  ASSUME NEW tp, NEW tq, NEW e \in Terms_(1), Tape(tp), Tape(tq), Extends(tp, tq), Eval(tp, "Bool", e).err = "Ok"
  PROVE  Eval(tq, "Bool", e) = Eval(tp, "Bool", e)
<1>1. Keeps(Answer(tp, e), Answer(tq, e))
  BY AnswerAlike DEF Alike
<1>2. "Bool" \in Type
  BY DEF Type
<1> QED
  BY <1>1, <1>2 DEF Keeps, Eval

\* What a binding to an expression gets.
LEMMA BoundIs ==
  ASSUME NEW tp, NEW e \in Terms_(1), Tape(tp), Answer(tp, e).ty # "none"
  PROVE  LET x == Answer(tp, e)
             out == x.out[x.ty]
         IN /\ Evaluates(out)
            /\ out.err = "Ok" => Fits([ty |-> x.ty, v |-> out.v])
<1> DEFINE x == Answer(tp, e)
<1>1. Extends(tp, tp)
  BY LenProperties DEF Extends, Tape
<1>2. Behaves(x) /\ x.ty # "none"
  BY <1>1, AnswerAlike DEF Alike
<1> HIDE DEF x
<1>3. PICK m : Answers(x, m)
  BY <1>2 DEF Behaves
<1>4. x.ty \in Type
  BY <1>2, <1>3 DEF Answers
<1>5. Evaluates(x.out[x.ty])
  BY <1>2, <1>4 DEF Behaves
<1>6. ASSUME x.out[x.ty].err = "Ok" PROVE Fits([ty |-> x.ty, v |-> x.out[x.ty].v])
  <2>1. Fits(m) /\ m.ty = x.ty /\ x.out[x.ty] = Ok(m.v)
    BY <1>3, <1>4, <1>6, AnswersOk
  <2>2. x.out[x.ty].v = m.v /\ m = [ty |-> m.ty, v |-> m.v]
    BY <2>1, FittingIsTyped DEF Ok
  <2> QED
    BY <2>1, <2>2
<1> QED
  BY <1>5, <1>6 DEF x

-----------------------------------------------------------------------------
(* Texts.                                                                  *)

Clean(t) == t.aborts = {}

LEMMA CleanTexts ==
  /\ \A n : Clean(Words(n))
  /\ \A s, t : Clean(s) /\ Clean(t) => Clean(Before(s, t))
  /\ \A t : Clean(t) => Clean(Around(t))
<1>1. \A n : Clean(Words(n))
  BY DEF Clean, Words
<1>2. ASSUME NEW s, NEW t, Clean(s), Clean(t) PROVE Clean(Before(s, t))
  <2>1. Before(s, t).aborts = s.aborts \cup {s.len + p : p \in t.aborts}
    BY DEF Before
  <2> QED
    BY <1>2, <2>1 DEF Clean
<1>3. \A t : Clean(t) => Clean(Around(t))
  BY <1>1, <1>2 DEF Around
<1> QED
  BY <1>1, <1>2, <1>3

\* Only the least I64 and I128 break a text.
LEMMA NumberClean ==
  ASSUME NEW ty, NEW n, ~ Least(ty, n)
  PROVE  Clean(NumberText(ty, n))
<1>1. ~ Aborts(ty, n)
  BY DEF Aborts, Least
<1> QED
  BY <1>1, CleanTexts DEF NumberText

LEMMA PrintedClean ==
  ASSUME NEW x \in Nodes, NEW m \in Nat, NEW s, \A k \in 1 .. m : Clean(s[k].text),
         Arity(x.op) <= m, x.op = "Const" => ~ Least(x.ty, x.v)
  PROVE  Clean(Printed(x, s))
<1> DEFINE Wrapped(k) == IF s[k].leaf THEN s[k].text ELSE Around(s[k].text)
           not == Before(Words(1), s[1].text)
           as == Around(s[1].text)
           two == Before(Wrapped(1), Before(Words(3), Wrapped(2)))
           three == Before(Words(1), Before(Around(s[1].text), Before(s[2].text, Around(s[3].text))))
<1>1. Printed(x, s) =
        CASE x.op = "Value" -> Words(2)
          [] x.op = "Const" -> NumberText(x.ty, x.v)
          [] x.op \in {"Not", "Neg"} -> not
          [] x.op \in {"IsZero", "NonZero", "As"} -> as
          [] x.op \in BinaryOp -> two
          [] OTHER -> three
  BY DEF Printed
<1>2. ASSUME NEW k \in 1 .. m PROVE Clean(s[k].text) /\ Clean(Around(s[k].text)) /\ Clean(Wrapped(k))
  BY CleanTexts
<1>3. x.op \in UnaryOp \cup {"As"} => Clean(not) /\ Clean(as)
  <2>1. x.op \in UnaryOp \cup {"As"} => 1 \in 1 .. m
    BY ArityIs
  <2> QED
    BY <1>2, <2>1, CleanTexts
<1>4. x.op \in BinaryOp => Clean(two)
  <2>1. x.op \in BinaryOp => 1 \in 1 .. m /\ 2 \in 1 .. m
    BY ArityIs
  <2> HIDE DEF Wrapped
  <2> QED
    BY <1>2, <2>1, CleanTexts
<1>5. x.op \in TernaryOp => Clean(three)
  <2>1. x.op \in TernaryOp => 1 \in 1 .. m /\ 2 \in 1 .. m /\ 3 \in 1 .. m
    BY ArityIs
  <2> QED
    BY <1>2, <2>1, CleanTexts
<1>6. Clean(Words(2)) /\ (x.op = "Const" => Clean(NumberText(x.ty, x.v)))
  BY CleanTexts, NumberClean
<1>7. x.op \in UnaryOp \cup BinaryOp \cup TernaryOp \cup {"As", "Const", "Value"}
  BY DEF Nodes, Operation
<1> HIDE DEF not, as, two, three
<1> QED
  BY <1>1, <1>3, <1>4, <1>5, <1>6, <1>7 DEF UnaryOp

LEMMA TextClean ==
  ASSUME NEW e \in Terms_(1), \A k \in DOMAIN e : ~ Least(e[k].ty, e[k].v)
  PROVE  Clean(Text(e))
<1> DEFINE n == Len(e)
<1>1. /\ n \in Nat
      /\ \A k \in 1 .. n : n + 1 - k \in 1 .. n /\ e[n + 1 - k] \in Nodes
      /\ \A k \in 1 .. n : ~ Least(e[n + 1 - k].ty, e[n + 1 - k].v)
  <2>1. e \in Seq(Nodes) /\ n \in Nat /\ DOMAIN e = 1 .. n
    BY LenProperties DEF Terms_
  <2>2. \A k \in 1 .. n : n + 1 - k \in 1 .. n
    BY <2>1
  <2> QED
    BY <2>1, <2>2, ElementOfSeq
<1>2. PICK h : /\ h[0] = 0 /\ h[n] = 1 /\ \A k \in 0 .. n : h[k] \in Nat
               /\ \A k \in 1 .. n :
                    LET a == Arity(e[n + 1 - k].op) IN a <= h[k - 1] /\ h[k] = h[k - 1] - a + 1
  BY DEF Terms_, Forest
<1>3. PICK f : f[0] = << >> /\ (\A k \in 1 .. n : f[k] = TextOnto(e[n + 1 - k], f[k - 1])) /\ Text(e) = f[n][1].text
  <2> PICK f : WrittenBy(e, f)
    BY <1>1, TextRecursion
  <2> QED
    BY DEF WrittenBy
<1> HIDE DEF n
<1> DEFINE Good(s, m) == Stack(s, m) /\ \A k \in 1 .. m : Clean(s[k].text)
           P == {k \in 0 .. n : Good(f[k], h[k])}
<1>4. 0 \in P
  <2>1. Stack(<< >>, 0)
    BY DEF Stack
  <2> QED
    BY <1>1, <1>2, <1>3, <2>1
<1>5. ASSUME NEW k \in 1 .. n, k - 1 \in P PROVE k \in P
  <2> DEFINE x == e[n + 1 - k]
             m == h[k - 1]
             a == Arity(x.op)
             s == f[k - 1]
             top == [leaf |-> a = 0, text |-> Printed(x, s)]
             r == <<top>> \o Behind(s, a)
  <2>1. x \in Nodes /\ m \in Nat /\ a <= m /\ h[k] = m - a + 1 /\ ~ Least(x.ty, x.v)
    <3>1. k - 1 \in 0 .. n
      BY <1>1
    <3> QED
      BY <1>1, <1>2, <3>1
  <2>2. Stack(s, m) /\ \A j \in 1 .. m : Clean(s[j].text)
    BY <1>5
  <2>3. f[k] = r
    BY <1>3 DEF TextOnto
  <2>4. top.text = Printed(x, s)
    OBVIOUS
  <2> HIDE DEF x, m, s
  <2>5. Clean(top.text)
    <3>1. Clean(Printed(x, s))
      BY <2>1, <2>2, PrintedClean
    <3> QED
      BY <2>4, <3>1
  <2>6. a \in 0 .. m
    BY <2>1, ArityTyped
  <2> HIDE DEF top, a
  <2>7. OnTop(r, top, s, m, a)
    BY <2>1, <2>2, <2>6, Replaced
  <2> HIDE DEF r
  <2>8. ASSUME NEW j \in 1 .. m - a + 1 PROVE Clean(r[j].text)
    <3>1. CASE j = 1
      BY <2>5, <2>7, <3>1 DEF OnTop
    <3>2. CASE j # 1
      <4>1. j \in 2 .. m - a + 1
        BY <3>2
      <4> QED
        BY <2>2, <2>7, <4>1 DEF OnTop
    <3> QED
      BY <3>1, <3>2
  <2>9. Good(f[k], h[k])
    BY <2>1, <2>3, <2>7, <2>8 DEF OnTop
  <2> QED
    BY <1>1, <2>9
<1>6. n \in P
  <2> HIDE DEF P
  <2>1. \A k \in 0 .. n : k \in P
    BY <1>1, <1>4, <1>5, NatInduct
  <2> QED
    BY <1>1, <2>1
<1>7. Clean(f[n][1].text)
  BY <1>2, <1>6
<1> QED
  BY <1>3, <1>7

-----------------------------------------------------------------------------
(* Lines of the log.                                                       *)

LineKinds == {"let", "assert", "assert_multi", "if_else", "cpi", "reset_frame"}
Lines ==
  {l \in [ix : LineKinds, i : Nat, e : Terms_(1) \cup {NoExpr}, value : TypedValue \cup {Silent}, ok : BOOLEAN] :
     Verdict(l) => l.e \in Terms_(1)}

Session(lines) ==
  LET resets == {k \in DOMAIN lines : lines[k].ix = "reset_frame"} IN
  {k \in DOMAIN lines : \A r \in resets : r < k}

LineIsTrue(l, vs) ==
  /\ l.ix = "let" => l.i < Len(vs) /\ vs[l.i + 1] = l.value
  /\ Verdict(l) => Eval(vs, "Bool", l.e) = Truth(l.ok)

True_(lines, vs) == \A k \in Session(lines) : LineIsTrue(lines[k], vs)

FalseGuard(l) == l.ix \in {"assert", "assert_multi"} /\ ~ l.ok
FalseGuards(lines) == {k \in DOMAIN lines : FalseGuard(lines[k])}

LEMMA LineTyped ==
  ASSUME NEW ix \in LineKinds, NEW i \in Nat, NEW e \in Terms_(1) \cup {NoExpr},
         NEW value \in TypedValue \cup {Silent}, NEW ok \in BOOLEAN,
         ix \in {"assert", "assert_multi", "if_else"} => e \in Terms_(1)
  PROVE  Line(ix, i, e, value, ok) \in Lines
BY DEF Line, Lines, Verdict

\* A line more.
LEMMA LogGrows ==
  ASSUME NEW lines \in Seq(Lines), NEW l \in Lines
  PROVE  /\ Append(lines, l) \in Seq(Lines)
         /\ \A vs : True_(lines, vs) /\ LineIsTrue(l, vs) /\ l.ix # "reset_frame" => True_(Append(lines, l), vs)
         /\ \A vs : l.ix = "reset_frame" => True_(Append(lines, l), vs)
         /\ FalseGuards(lines) = {} /\ ~ FalseGuard(l) => FalseGuards(Append(lines, l)) = {}
         /\ FalseGuards(lines) = {} /\ FalseGuard(l) => FalseGuards(Append(lines, l)) = {Len(Append(lines, l))}
<1> DEFINE n == Len(lines)
           t == Append(lines, l)
<1>1. n \in Nat /\ DOMAIN lines = 1 .. n
  BY LenProperties
<1>2. t \in Seq(Lines) /\ Len(t) = n + 1 /\ t[n + 1] = l /\ \A k \in 1 .. n : t[k] = lines[k]
  BY AppendProperties
<1>3. DOMAIN t = 1 .. n + 1
  BY <1>2, LenProperties
<1> HIDE DEF n, t
<1>4. ASSUME NEW vs, True_(lines, vs), LineIsTrue(l, vs), l.ix # "reset_frame" PROVE True_(t, vs)
  <2>1. ASSUME NEW k \in Session(t) PROVE LineIsTrue(t[k], vs)
    <3>1. CASE k = n + 1
      BY <1>2, <1>4, <3>1
    <3>2. CASE k # n + 1
      <4>1. k \in 1 .. n
        BY <1>1, <1>3, <2>1, <3>2 DEF Session
      <4>2. k \in Session(lines)
        <5>1. ASSUME NEW r \in 1 .. n, lines[r].ix = "reset_frame" PROVE r < k
          <6>1. r \in 1 .. n + 1 /\ t[r].ix = "reset_frame"
            BY <1>1, <1>2, <5>1
          <6> QED
            BY <1>3, <2>1, <6>1 DEF Session
        <5> QED
          BY <1>1, <4>1, <5>1 DEF Session
      <4> QED
        BY <1>2, <1>4, <4>1, <4>2 DEF True_
    <3> QED
      BY <3>1, <3>2
  <2> QED
    BY <2>1 DEF True_
<1>5. ASSUME NEW vs, l.ix = "reset_frame" PROVE True_(t, vs)
  <2>1. ASSUME NEW k \in Session(t) PROVE FALSE
    <3>1. k \in 1 .. n + 1 /\ n + 1 \in 1 .. n + 1 /\ t[n + 1].ix = "reset_frame"
      BY <1>1, <1>2, <1>3, <1>5, <2>1 DEF Session
    <3>2. n + 1 < k
      BY <1>3, <2>1, <3>1 DEF Session
    <3> QED
      BY <1>1, <3>1, <3>2
  <2> QED
    BY <2>1 DEF True_
<1>6. ASSUME FalseGuards(lines) = {} PROVE \A k \in 1 .. n : ~ FalseGuard(t[k])
  BY <1>1, <1>2, <1>6 DEF FalseGuards
<1>7. ASSUME FalseGuards(lines) = {}, ~ FalseGuard(l) PROVE FalseGuards(t) = {}
  <2>1. ASSUME NEW k \in 1 .. n + 1 PROVE ~ FalseGuard(t[k])
    <3>1. k \in 1 .. n \/ k = n + 1
      BY <1>1
    <3> QED
      BY <1>2, <1>6, <1>7, <3>1
  <2> QED
    BY <1>3, <2>1 DEF FalseGuards
<1>8. ASSUME FalseGuards(lines) = {}, FalseGuard(l) PROVE FalseGuards(t) = {Len(t)}
  <2>1. ASSUME NEW k \in 1 .. n + 1 PROVE FalseGuard(t[k]) <=> k = n + 1
    <3>1. k \in 1 .. n \/ k = n + 1
      BY <1>1
    <3>2. k \in 1 .. n => k # n + 1
      BY <1>1
    <3> QED
      BY <1>2, <1>6, <1>8, <3>1, <3>2
  <2>2. n + 1 \in 1 .. n + 1
    BY <1>1
  <2> QED
    BY <1>2, <1>3, <2>1, <2>2 DEF FalseGuards
<1> QED
  BY <1>2, <1>4, <1>5, <1>7, <1>8 DEF t

\* More values leave the lines true.
LEMMA LogKept ==
  ASSUME NEW lines \in Seq(Lines), NEW vs, NEW ws, Tape(vs), Tape(ws), Extends(vs, ws), True_(lines, vs)
  PROVE  True_(lines, ws)
<1>1. ASSUME NEW k \in Session(lines) PROVE LineIsTrue(lines[k], ws)
  <2> DEFINE l == lines[k]
  <2>1. LineIsTrue(l, vs) /\ l \in Lines
    <3>1. k \in 1 .. Len(lines)
      BY LenProperties DEF Session
    <3> QED
      BY <3>1, ElementOfSeq DEF True_
  <2>2. Len(vs) \in Nat /\ Len(ws) \in Nat /\ Len(vs) <= Len(ws)
    BY LenProperties DEF Tape, Extends
  <2>3. l.i \in Nat /\ (Verdict(l) => l.e \in Terms_(1))
    BY <2>1 DEF Lines
  <2> HIDE DEF l
  <2>4. ASSUME l.ix = "let" PROVE l.i < Len(ws) /\ ws[l.i + 1] = l.value
    <3>1. l.i < Len(vs) /\ vs[l.i + 1] = l.value
      BY <2>1, <2>4 DEF LineIsTrue
    <3>2. l.i + 1 \in 1 .. Len(vs)
      BY <2>2, <2>3, <3>1
    <3> QED
      BY <2>2, <2>3, <3>1, <3>2 DEF Extends
  <2>5. ASSUME Verdict(l) PROVE Eval(ws, "Bool", l.e) = Truth(l.ok)
    <3>1. Eval(vs, "Bool", l.e) = Truth(l.ok) /\ l.e \in Terms_(1)
      BY <2>1, <2>3, <2>5 DEF LineIsTrue
    <3>2. Eval(vs, "Bool", l.e).err = "Ok"
      BY <3>1 DEF Truth, Ok
    <3> QED
      BY <3>1, <3>2, VerdictKept
  <2>6. LineIsTrue(l, ws)
    BY <2>4, <2>5 DEF LineIsTrue
  <2> QED
    BY <2>6 DEF l
<1> QED
  BY <1>1 DEF True_

\* A value more.
LEMMA TapeGrows ==
  ASSUME NEW vs, NEW value, Tape(vs), Fits(value)
  PROVE  /\ Tape(Append(vs, value)) /\ Extends(vs, Append(vs, value)) /\ Append(vs, value) # << >>
         /\ Append(vs, value)[Len(vs) + 1] = value /\ Len(Append(vs, value)) = Len(vs) + 1
<1> DEFINE ws == Append(vs, value)
           n == Len(vs)
<1>1. vs \in Seq(TypedValue) /\ value \in TypedValue /\ n \in Nat
  BY LenProperties DEF Tape, Fits
<1>2. ws \in Seq(TypedValue) /\ ws # << >> /\ Len(ws) = n + 1 /\ ws[n + 1] = value /\ \A k \in 1 .. n : ws[k] = vs[k]
  BY <1>1, AppendProperties
<1>3. \A k \in 1 .. n : Fits(vs[k])
  BY DEF Tape
<1> HIDE DEF ws, n
<1>4. ASSUME NEW k \in 1 .. n + 1 PROVE Fits(ws[k])
  <2>1. k \in 1 .. n \/ k = n + 1
    BY <1>1
  <2> QED
    BY <1>2, <1>3, <2>1
<1> QED
  BY <1>1, <1>2, <1>4 DEF Tape, Extends, ws, n

-----------------------------------------------------------------------------
(* What the handlers go through.                                           *)

Jobs_ ==
  {j \in [kind : Names \cup {"cpi"}, e : Terms_(1) \cup {NoExpr}, b : WireBindings \cup {NoBinding},
          step : Steps \cup {NoStep}, arms : Seq(Arms)] :
     /\ j.kind \in {"assert", "assert_multi", "if_else"} => j.e \in Terms_(1)
     /\ j.kind = "let" => j.b \in WireBindings
     /\ j.kind = "if_else" => Len(j.arms) = 2}

\* What is left of u is t.
Suffix(t, u) ==
  /\ Len(t) <= Len(u)
  /\ \A k \in 1 .. Len(t) : t[k] = u[Len(u) - Len(t) + k]

LEMMA SuffixTail ==
  ASSUME NEW t \in Seq(Jobs_), NEW u \in Seq(Jobs_), Suffix(t, u), t # << >>
  PROVE  /\ Tail(t) \in Seq(Jobs_) /\ Suffix(Tail(t), u) /\ Len(Tail(t)) = Len(t) - 1
         /\ Len(u) - Len(t) + 1 \in 1 .. Len(u) /\ Len(t) \in 1 .. Len(u) /\ t[1] = u[Len(u) - Len(t) + 1]
<1> DEFINE m == Len(t)
           n == Len(u)
           r == Tail(t)
<1>1. m \in Nat /\ n \in Nat /\ m >= 1 /\ m <= n
  BY LenProperties, EmptySeq DEF Suffix
<1>2. r \in Seq(Jobs_) /\ Len(r) = m - 1 /\ \A k \in 1 .. m - 1 : r[k] = t[k + 1]
  BY HeadTailProperties
<1>3. \A k \in 1 .. m : t[k] = u[n - m + k]
  BY DEF Suffix
<1> HIDE DEF m, n, r
<1>4. ASSUME NEW k \in 1 .. m - 1 PROVE r[k] = u[n - (m - 1) + k]
  <2>1. k + 1 \in 1 .. m /\ n - m + (k + 1) = n - (m - 1) + k
    BY <1>1
  <2> QED
    BY <1>2, <1>3, <2>1
<1>5. m - 1 <= n /\ 1 \in 1 .. m /\ n - m + 1 \in 1 .. n /\ m \in 1 .. n
  BY <1>1
<1> QED
  BY <1>2, <1>3, <1>4, <1>5 DEF Suffix, m, n, r

LEMMA JobTyped ==
  ASSUME NEW kind \in Names \cup {"cpi"}, NEW e \in Terms_(1) \cup {NoExpr}, NEW b \in WireBindings \cup {NoBinding},
         NEW step \in Steps \cup {NoStep}, NEW arms \in Seq(Arms),
         kind \in {"assert", "assert_multi", "if_else"} => e \in Terms_(1),
         kind = "let" => b \in WireBindings,
         kind = "if_else" => Len(arms) = 2
  PROVE  Job(kind, e, b, step, arms) \in Jobs_ /\ Job(kind, e, b, step, arms).kind = kind
BY DEF Job, Jobs_

LEMMA InvocationsTyped ==
  ASSUME NEW arm \in Arms
  PROVE  /\ Invocations(arm) \in Seq(Jobs_)
         /\ \A k \in 1 .. Len(Invocations(arm)) : Invocations(arm)[k].kind = "cpi"
<1> DEFINE steps == arm.steps
           n == Len(steps)
           t == Invocations(arm)
<1>1. steps \in Seq(Steps) /\ n \in Nat /\ DOMAIN steps = 1 .. n
  <2>1. steps \in Seq(Steps)
    BY DEF Arms
  <2> QED
    BY <2>1, LenProperties
<1>2. t = [k \in 1 .. n |-> Job("cpi", NoExpr, NoBinding, steps[k], << >>)]
  BY <1>1 DEF Invocations
<1> HIDE DEF steps, n, t
<1>3. ASSUME NEW k \in 1 .. n PROVE t[k] \in Jobs_ /\ t[k].kind = "cpi"
  <2>1. steps[k] \in Steps /\ << >> \in Seq(Arms)
    BY <1>1, ElementOfSeq, EmptySeq
  <2>2. t[k] = Job("cpi", NoExpr, NoBinding, steps[k], << >>)
    BY <1>2
  <2>3. LET j == Job("cpi", NoExpr, NoBinding, steps[k], << >>) IN j \in Jobs_ /\ j.kind = "cpi"
    BY <2>1, JobTyped
  <2> QED
    BY <2>2, <2>3
<1>4. t \in [1 .. n -> Jobs_]
  BY <1>2, <1>3
<1>5. t \in Seq(Jobs_) /\ Len(t) = n
  BY <1>1, <1>4, SeqDef, LenProperties
<1> QED
  BY <1>3, <1>5 DEF t

Conditional == {"assert", "assert_multi", "if_else"}

JobOf(s, k) ==
  LET j == Jobs(s)[k] IN
  /\ j.kind = IF s.ix = "patched_cpi" THEN "cpi" ELSE s.ix
  /\ s.ix = "let" => k \in DOMAIN s.bindings /\ j.b = s.bindings[k]
  /\ s.ix \in Conditional => k \in DOMAIN s.conds /\ j.e = s.conds[k]

LEMMA ChecksTyped ==
  ASSUME NEW kind \in Names \ {"let"}, NEW es \in Seq(Terms_(1) \cup {NoExpr}), NEW arms \in Seq(Arms),
         kind \in Conditional => es \in Seq(Terms_(1)),
         kind = "if_else" => Len(arms) = 2
  PROVE  LET t == Checks(kind, es, arms) IN
         /\ t \in Seq(Jobs_) /\ Len(t) = Len(es)
         /\ \A k \in 1 .. Len(es) : t[k].kind = kind /\ t[k].e = es[k]
<1> DEFINE n == Len(es)
           t == Checks(kind, es, arms)
<1>1. n \in Nat /\ DOMAIN es = 1 .. n
  BY LenProperties
<1>2. t = [k \in 1 .. n |-> Job(kind, es[k], NoBinding, NoStep, arms)]
  BY <1>1 DEF Checks
<1>3. ASSUME NEW k \in 1 .. n PROVE es[k] \in Terms_(1) \cup {NoExpr} /\ (kind \in Conditional => es[k] \in Terms_(1))
  BY ElementOfSeq
<1> HIDE DEF n, t
<1>4. ASSUME NEW k \in 1 .. n PROVE t[k] \in Jobs_ /\ t[k].kind = kind /\ t[k].e = es[k]
  <2> DEFINE j == Job(kind, es[k], NoBinding, NoStep, arms)
  <2>1. t[k] = j
    BY <1>2
  <2>2. j.e = es[k]
    BY DEF Job
  <2>3. /\ kind \in Names \cup {"cpi"} /\ es[k] \in Terms_(1) \cup {NoExpr}
        /\ NoBinding \in WireBindings \cup {NoBinding} /\ NoStep \in Steps \cup {NoStep}
    BY <1>3
  <2>4. /\ kind \in {"assert", "assert_multi", "if_else"} => es[k] \in Terms_(1)
        /\ kind = "let" => NoBinding \in WireBindings
        /\ kind = "if_else" => Len(arms) = 2
    BY <1>3 DEF Conditional
  <2>5. j \in Jobs_ /\ j.kind = kind
    <3> DEFINE x == es[k]
               b == NoBinding
               st == NoStep
    <3>1. /\ kind \in Names \cup {"cpi"} /\ x \in Terms_(1) \cup {NoExpr}
          /\ b \in WireBindings \cup {NoBinding} /\ st \in Steps \cup {NoStep}
          /\ kind \in {"assert", "assert_multi", "if_else"} => x \in Terms_(1)
          /\ kind = "let" => b \in WireBindings
          /\ kind = "if_else" => Len(arms) = 2
      BY <2>3, <2>4
    <3>2. j = Job(kind, x, b, st, arms)
      OBVIOUS
    <3> HIDE DEF x, b, st, j
    <3> QED
      BY <3>1, <3>2 DEF Job, Jobs_
  <2> QED
    BY <2>1, <2>2, <2>5
<1>5. t \in [1 .. n -> Jobs_]
  BY <1>2, <1>4
<1>6. t \in Seq(Jobs_) /\ Len(t) = n
  BY <1>1, <1>5, SeqDef, LenProperties
<1> QED
  BY <1>4, <1>6 DEF t, n

LEMMA BindingsTyped ==
  ASSUME NEW bs \in Seq(WireBindings)
  PROVE  LET t == Bindings(bs) IN
         /\ t \in Seq(Jobs_) /\ Len(t) = Len(bs)
         /\ \A k \in 1 .. Len(bs) : t[k].kind = "let" /\ t[k].b = bs[k]
<1> DEFINE n == Len(bs)
           t == Bindings(bs)
<1>1. n \in Nat /\ DOMAIN bs = 1 .. n
  BY LenProperties
<1>2. t = [k \in 1 .. n |-> Job("let", NoExpr, bs[k], NoStep, << >>)]
  BY <1>1 DEF Bindings
<1>3. ASSUME NEW k \in 1 .. n PROVE bs[k] \in WireBindings /\ << >> \in Seq(Arms)
  BY ElementOfSeq, EmptySeq
<1> HIDE DEF n, t
<1>4. ASSUME NEW k \in 1 .. n PROVE t[k] \in Jobs_ /\ t[k].kind = "let" /\ t[k].b = bs[k]
  <2> DEFINE j == Job("let", NoExpr, bs[k], NoStep, << >>)
  <2>1. t[k] = j
    BY <1>2
  <2>2. j.b = bs[k]
    BY DEF Job
  <2>3. j \in Jobs_ /\ j.kind = "let"
    BY <1>3, JobTyped DEF Names
  <2> QED
    BY <2>1, <2>2, <2>3
<1>5. t \in [1 .. n -> Jobs_]
  BY <1>2, <1>4
<1>6. t \in Seq(Jobs_) /\ Len(t) = n
  BY <1>1, <1>5, SeqDef, LenProperties
<1> QED
  BY <1>4, <1>6 DEF t, n

LEMMA JobsTyped ==
  ASSUME NEW s \in Decoded
  PROVE  /\ Jobs(s) \in Seq(Jobs_)
         /\ s.ix \in Conditional => Len(Jobs(s)) = Len(s.conds)
         /\ \A k \in 1 .. Len(Jobs(s)) : JobOf(s, k)
<1>1. /\ s.ix \in Names /\ s.conds \in Seq(Terms_(1)) /\ s.bindings \in Seq(WireBindings) /\ s.arms \in Seq(Arms)
      /\ s.ix = "if_else" => Len(s.arms) = 2
      /\ s.ix = "patched_cpi" => \E step \in Steps : s.arms = OneStep(step)
  BY DEF Decoded
<1>2. /\ DOMAIN s.conds = 1 .. Len(s.conds) /\ DOMAIN s.bindings = 1 .. Len(s.bindings)
      /\ s.conds \in Seq(Terms_(1) \cup {NoExpr})
  <2>1. \A S, T : \A q \in Seq(S) : S \subseteq T => q \in Seq(T)
    OBVIOUS
  <2> QED
    BY <1>1, <2>1, LenProperties
<1>3. CASE s.ix = "let"
  <2> DEFINE t == Bindings(s.bindings)
  <2>1. Jobs(s) = t
    BY <1>3 DEF Jobs
  <2>2. /\ t \in Seq(Jobs_) /\ Len(t) = Len(s.bindings)
        /\ \A k \in 1 .. Len(s.bindings) : t[k].kind = "let" /\ t[k].b = s.bindings[k]
    BY <1>1, BindingsTyped
  <2> HIDE DEF t
  <2> QED
    BY <1>2, <1>3, <2>1, <2>2 DEF JobOf, Conditional
<1>4. CASE s.ix \in Conditional
  <2> DEFINE t == Checks(s.ix, s.conds, s.arms)
  <2>1. Jobs(s) = t /\ s.ix \in Names \ {"let"} /\ s.ix # "patched_cpi"
    BY <1>1, <1>4 DEF Jobs, Conditional
  <2>2. /\ t \in Seq(Jobs_) /\ Len(t) = Len(s.conds)
        /\ \A k \in 1 .. Len(s.conds) : t[k].kind = s.ix /\ t[k].e = s.conds[k]
    BY <1>1, <1>2, <2>1, ChecksTyped
  <2> HIDE DEF t
  <2> QED
    BY <1>2, <1>4, <2>1, <2>2 DEF JobOf, Conditional
<1>5. CASE s.ix = "patched_cpi"
  <2> PICK step \in Steps : s.arms = OneStep(step)
    BY <1>1, <1>5
  <2> DEFINE arm == [kind |-> "cpi", steps |-> <<step>>]
             t == Invocations(arm)
  <2>1. Jobs(s) = t
    BY <1>5 DEF Jobs, OneStep
  <2>2. arm \in Arms
    BY DEF Arms
  <2> HIDE DEF arm
  <2>3. t \in Seq(Jobs_) /\ \A k \in 1 .. Len(t) : t[k].kind = "cpi"
    BY <2>2, InvocationsTyped
  <2> HIDE DEF t
  <2> QED
    BY <1>5, <2>1, <2>3 DEF JobOf, Conditional
<1>6. CASE s.ix \in {"create_frame", "close_frame", "reset_frame"}
  <2> DEFINE es == <<NoExpr>>
             t == Checks(s.ix, es, << >>)
  <2>1. Jobs(s) = t /\ s.ix \in Names \ {"let"} /\ s.ix \notin Conditional /\ s.ix # "if_else"
        /\ s.ix # "patched_cpi" /\ s.ix # "let"
    BY <1>1, <1>6 DEF Jobs, Conditional
  <2>2. es \in Seq(Terms_(1) \cup {NoExpr}) /\ Len(es) = 1 /\ << >> \in Seq(Arms)
    BY EmptySeq
  <2> HIDE DEF es
  <2>3. /\ t \in Seq(Jobs_) /\ Len(t) = Len(es)
        /\ \A k \in 1 .. Len(es) : t[k].kind = s.ix /\ t[k].e = es[k]
    <3> DEFINE ix == s.ix
               no == << >>
    <3>1. ix \in Names \ {"let"} /\ ix \notin Conditional /\ ix # "if_else" /\ no \in Seq(Arms)
      BY <2>1, <2>2
    <3>2. t = Checks(ix, es, no)
      OBVIOUS
    <3> HIDE DEF ix, no, t
    <3>3. /\ t \in Seq(Jobs_) /\ Len(t) = Len(es)
          /\ \A k \in 1 .. Len(es) : t[k].kind = ix /\ t[k].e = es[k]
      BY <2>2, <3>1, <3>2, ChecksTyped
    <3> QED
      BY <3>3 DEF ix
  <2> HIDE DEF t
  <2> QED
    BY <2>1, <2>2, <2>3 DEF JobOf
<1> QED
  BY <1>1, <1>3, <1>4, <1>5, <1>6 DEF Names, Conditional

-----------------------------------------------------------------------------
(* The invariant.                                                          *)

\* The statement that is executed, and how far it has come.
Running_(s) ==
  /\ s \in Decoded /\ todo \in Seq(Jobs_)
  /\ \/ Suffix(todo, Jobs(s))
     \/ s.ix = "if_else" /\ \A k \in 1 .. Len(todo) : todo[k].kind = "cpi"
  /\ s.ix = "assert_multi" =>
       /\ Len(todo) <= Len(s.conds)
       /\ \A k \in 1 .. Len(s.conds) - Len(todo) : Eval(values, "Bool", s.conds[k]) = Truth(TRUE)

TypeInv ==
  /\ client \in Clients /\ Tape(values) /\ wire \in Seq(Byte) /\ log \in Seq(Lines)
  /\ status \in {"sent", "running"} => wire # << >>
  /\ status # "running" => todo = << >>

RunInv == status = "running" => Decode(wire).err = "Ok" /\ Running_(Decode(wire).v)

TrueInv == True_(log, values)

\* The guards' false lines, the return data and the status.
GuardInv ==
  LET s == Decode(wire).v
      False(k) == Eval(values, "Bool", s.conds[k]) = Truth(FALSE)
  IN
  /\ FalseGuards(log) # {} => FalseGuards(log) = {Len(log)} /\ status \in {"AssertFailed", "AssertFailedMulti"}
  /\ (returned # << >>) = (status = "AssertFailedMulti")
  /\ status = "AssertFailedMulti" => False(returned[1] + 1) /\ \A k \in 1 .. returned[1] : ~ False(k)
  /\ status = "AssertFailed" => False(1)

StatementsInv == TypeInv /\ RunInv /\ TrueInv /\ GuardInv /\ OnlyLeastAborts

LEMMA InvImplies == StatementsInv => StatementsTypeOK /\ LogIsTrue /\ GuardsDecide /\ OnlyLeastAborts
<1> SUFFICES ASSUME StatementsInv PROVE StatementsTypeOK /\ LogIsTrue /\ GuardsDecide /\ OnlyLeastAborts
  OBVIOUS
<1>1. StatementsTypeOK
  <2>1. DOMAIN wire = 1 .. Len(wire) /\ DOMAIN values = 1 .. Len(values) /\ \A k \in 1 .. Len(values) : Fits(values[k])
    BY LenProperties DEF StatementsInv, TypeInv, Tape
  <2>2. \A k \in DOMAIN wire : wire[k] \in Byte
    BY <2>1, ElementOfSeq DEF StatementsInv, TypeInv
  <2> QED
    BY <2>1, <2>2 DEF StatementsInv, TypeInv, StatementsTypeOK, Working, Byte
<1>2. LogIsTrue
  BY DEF StatementsInv, TrueInv, True_, LogIsTrue, SessionLines, Session, LineIsTrue
<1>3. GuardsDecide
  BY DEF StatementsInv, GuardInv, GuardsDecide, FalseGuards, FalseGuard
<1> QED
  BY <1>1, <1>2, <1>3 DEF StatementsInv

LEMMA InitInv == Init => StatementsInv
<1> SUFFICES ASSUME Init PROVE StatementsInv
  OBVIOUS
<1>1. /\ client \in Clients /\ values = Menu[client].loads /\ status = "composing" /\ wire = << >> /\ todo = << >>
      /\ log = << >> /\ returned = << >>
  BY DEF Init
<1>2. Tape(values)
  BY <1>1, StatementsAssumption DEF Tape
<1>3. << >> \in Seq(Byte) /\ << >> \in Seq(Lines) /\ DOMAIN << >> = {}
  BY EmptySeq
<1>4. TypeInv
  BY <1>1, <1>2, <1>3 DEF TypeInv
<1>5. RunInv /\ OnlyLeastAborts
  BY <1>1 DEF RunInv, OnlyLeastAborts
<1>6. TrueInv
  BY <1>1, <1>3 DEF TrueInv, True_, Session
<1>7. GuardInv
  BY <1>1, <1>3 DEF GuardInv, FalseGuards
<1> QED
  BY <1>4, <1>5, <1>6, <1>7 DEF StatementsInv

-----------------------------------------------------------------------------
(* A step of the program.                                                  *)

LEMMA EmitCases ==
  ASSUME NEW line, NEW text, NEW err, NEW left, Emit(line, text, err, left)
  PROVE  \/ status' = "Abort" /\ todo' = << >> /\ log' = log /\ ~ Clean(text)
         \/ err = "Ok" /\ status' = status /\ todo' = left /\ log' \in {log, Append(log, line)}
         \/ err # "Ok" /\ status' = err /\ todo' = << >> /\ log' \in {log, Append(log, line)}
BY DEF Emit, Fail, Breaks, Clean

\* Where the handlers are in the statement.
LEMMA RunningIs ==
  ASSUME RunInv, NEW kind \in Names, Running(kind)
  PROVE  LET s == Decode(wire).v
             p == Len(Jobs(s)) - Len(todo) + 1
         IN /\ s \in Decoded /\ Decode(wire).err = "Ok" /\ s.ix = kind
            /\ todo[1] \in Jobs_ /\ todo[1] = Jobs(s)[p] /\ JobOf(s, p)
            /\ p \in 1 .. Len(Jobs(s)) /\ Len(todo) \in 1 .. Len(Jobs(s))
            /\ Tail(todo) \in Seq(Jobs_) /\ Suffix(Tail(todo), Jobs(s)) /\ Len(Tail(todo)) = Len(todo) - 1
<1> DEFINE s == Decode(wire).v
           u == Jobs(s)
           p == Len(u) - Len(todo) + 1
<1>1. status = "running" /\ todo # << >> /\ todo[1].kind = kind /\ kind # "cpi"
  BY DEF Running, Names
<1>2. Decode(wire).err = "Ok" /\ Running_(s)
  BY <1>1 DEF RunInv
<1> HIDE DEF s
<1>3. /\ s \in Decoded /\ todo \in Seq(Jobs_)
      /\ Suffix(todo, u) \/ \A k \in 1 .. Len(todo) : todo[k].kind = "cpi"
  BY <1>2 DEF Running_
<1>4. 1 \in 1 .. Len(todo)
  BY <1>1, <1>3, LenProperties, EmptySeq
<1>5. Suffix(todo, u) /\ todo[1] \in Jobs_
  BY <1>1, <1>3, <1>4, ElementOfSeq
<1>6. u \in Seq(Jobs_) /\ \A k \in 1 .. Len(u) : JobOf(s, k)
  BY <1>3, JobsTyped
<1>7. /\ Tail(todo) \in Seq(Jobs_) /\ Suffix(Tail(todo), u) /\ Len(Tail(todo)) = Len(todo) - 1
      /\ p \in 1 .. Len(u) /\ Len(todo) \in 1 .. Len(u) /\ todo[1] = u[p]
  BY <1>1, <1>3, <1>5, <1>6, SuffixTail
<1>8. JobOf(s, p)
  BY <1>6, <1>7
<1>9. s.ix = kind
  BY <1>1, <1>7, <1>8 DEF JobOf
<1> HIDE DEF u, p
<1> QED
  BY <1>2, <1>3, <1>5, <1>7, <1>8, <1>9 DEF s, u, p

\* The condition that comes next.
LEMMA ConditionIs ==
  ASSUME RunInv, NEW kind \in Conditional, Running(kind)
  PROVE  LET s == Decode(wire).v
             p == Len(s.conds) - Len(todo) + 1
         IN /\ s \in Decoded /\ Decode(wire).err = "Ok" /\ s.ix = kind
            /\ todo[1] \in Jobs_ /\ todo[1].e = s.conds[p] /\ todo[1].e \in Terms_(1)
            /\ p \in DOMAIN s.conds /\ p \in 1 .. Len(s.conds) /\ Len(todo) \in 1 .. Len(s.conds)
            /\ kind # "assert_multi" => p = 1
            /\ Tail(todo) \in Seq(Jobs_) /\ Suffix(Tail(todo), Jobs(s)) /\ Len(Tail(todo)) = Len(todo) - 1
<1> DEFINE s == Decode(wire).v
           u == Jobs(s)
           p == Len(u) - Len(todo) + 1
<1>1. kind \in Names
  BY DEF Conditional, Names
<1>2. /\ s \in Decoded /\ Decode(wire).err = "Ok" /\ s.ix = kind
      /\ todo[1] \in Jobs_ /\ todo[1] = u[p] /\ JobOf(s, p)
      /\ p \in 1 .. Len(u) /\ Len(todo) \in 1 .. Len(u)
      /\ Tail(todo) \in Seq(Jobs_) /\ Suffix(Tail(todo), u) /\ Len(Tail(todo)) = Len(todo) - 1
  BY <1>1, RunningIs
<1> HIDE DEF s
<1>3. Len(u) = Len(s.conds)
  BY <1>2, JobsTyped
<1>4. todo[1].e = s.conds[p] /\ p \in DOMAIN s.conds
  BY <1>2 DEF JobOf
<1>5. todo[1].e \in Terms_(1)
  <2>1. todo[1].kind = kind
    BY DEF Running
  <2> QED
    BY <1>2, <2>1 DEF Jobs_, Conditional
<1>6. kind # "assert_multi" => Len(s.conds) = 1
  BY <1>2 DEF Conditional, Decoded
<1>7. kind # "assert_multi" => p = 1
  BY <1>2, <1>3, <1>6
<1> HIDE DEF u
<1> QED
  BY <1>2, <1>3, <1>4, <1>5, <1>7 DEF s, u

\* What stays of the invariant when a step keeps the log true and no guard fails.
LEMMA StepTyped ==
  ASSUME StatementsInv, status \in {"sent", "running"}, client' = client, wire' = wire,
         Tape(values'), log' \in Seq(Lines), True_(log', values'), status' # "running" => todo' = << >>
  PROVE  TypeInv' /\ TrueInv'
<1>1. client \in Clients /\ wire \in Seq(Byte) /\ wire # << >>
  BY DEF StatementsInv, TypeInv
<1> QED
  BY <1>1 DEF TypeInv, TrueInv

LEMMA StepGuards ==
  ASSUME StatementsInv, status \notin {"AssertFailed", "AssertFailedMulti"},
         status' \notin {"AssertFailed", "AssertFailedMulti"}, returned' \in {returned, << >>}, FalseGuards(log') = {}
  PROVE  GuardInv'
<1>1. returned = << >>
  BY DEF StatementsInv, GuardInv
<1> QED
  BY <1>1 DEF GuardInv

LEMMA NoFalseGuards ==
  ASSUME StatementsInv, status \notin {"AssertFailed", "AssertFailedMulti"}
  PROVE  FalseGuards(log) = {} /\ returned = << >>
BY DEF StatementsInv, GuardInv

\* A true line of a guard that holds, or of no guard.
LEMMA StepLogs ==
  ASSUME StatementsInv, status \in {"sent", "running"}, NEW line \in Lines, LineIsTrue(line, values'),
         line.ix # "reset_frame", Tape(values'), Extends(values, values'), log' \in {log, Append(log, line)}
  PROVE  /\ log' \in Seq(Lines) /\ True_(log', values')
         /\ ~ FalseGuard(line) => FalseGuards(log') = {}
         /\ FalseGuard(line) => FalseGuards(log') \in {{}, {Len(log')}}
<1>1. log \in Seq(Lines) /\ Tape(values) /\ True_(log, values)
  BY DEF StatementsInv, TypeInv, TrueInv
<1>2. FalseGuards(log) = {}
  BY NoFalseGuards
<1>3. True_(log, values')
  BY <1>1, LogKept
<1>4. CASE log' = log
  BY <1>1, <1>2, <1>3, <1>4
<1>5. CASE log' = Append(log, line)
  BY <1>1, <1>2, <1>3, <1>5, LogGrows
<1> QED
  BY <1>4, <1>5

\* The errors that end a transaction, apart from a guard's and printing.
Errors ==
  EvalErrors \cup
  { "NotLoaded", "InstructionDidNotDeserialize", "AccountNotEnoughKeys", "InvalidInstructionData",
    "InvalidPatchedCpiPatches", "CpiFailed", "IfElseRevert" }

LEMMA ErrorsAre ==
  /\ \A err \in Errors : err \notin Working \cup {"AssertFailed", "AssertFailedMulti", "Abort", "Ok"}
  /\ \A out : Evaluates(out) => out.err \in Errors \cup {"Ok"}
BY DEF Errors, EvalErrors, Working, Evaluates

\* An error leaves all but the status as it is.
LEMMA FailInv ==
  ASSUME StatementsInv, status \in {"sent", "running"}, NEW err \in Errors, Fail(err),
         client' = client, wire' = wire, values' = values, returned' = returned
  PROVE  StatementsInv'
<1>1. status' = err /\ todo' = << >> /\ log' = log
  BY DEF Fail
<1>2. status' \notin {"running", "AssertFailed", "AssertFailedMulti", "Abort"}
  BY <1>1, ErrorsAre DEF Working
<1>3. Tape(values') /\ log' \in Seq(Lines) /\ True_(log', values')
  BY <1>1 DEF StatementsInv, TypeInv, TrueInv
<1>4. TypeInv' /\ TrueInv'
  BY <1>1, <1>3, StepTyped
<1>5. GuardInv'
  BY <1>1, <1>2, NoFalseGuards, StepGuards
<1>6. RunInv' /\ OnlyLeastAborts'
  BY <1>2 DEF RunInv, OnlyLeastAborts
<1> QED
  BY <1>4, <1>5, <1>6 DEF StatementsInv

\* The statement goes on with what is left.
LEMMA RunsOn ==
  ASSUME wire' = wire, Decode(wire).err = "Ok", Decode(wire).v \in Decoded, todo' \in Seq(Jobs_),
         \/ Suffix(todo', Jobs(Decode(wire).v))
         \/ Decode(wire).v.ix = "if_else" /\ \A k \in 1 .. Len(todo') : todo'[k].kind = "cpi",
         Decode(wire).v.ix = "assert_multi" =>
           /\ Len(todo') <= Len(Decode(wire).v.conds)
           /\ \A k \in 1 .. Len(Decode(wire).v.conds) - Len(todo') :
                Eval(values', "Bool", Decode(wire).v.conds[k]) = Truth(TRUE)
  PROVE  RunInv'
BY DEF RunInv, Running_

LEMMA SuffixSelf ==
  ASSUME NEW u \in Seq(Jobs_)
  PROVE  Suffix(u, u)
<1>1. Len(u) \in Nat
  BY LenProperties
<1>2. \A k \in 1 .. Len(u) : Len(u) - Len(u) + k = k
  BY <1>1
<1> QED
  BY <1>1, <1>2 DEF Suffix

LEMMA ReceiveInv ==
  ASSUME StatementsInv, Receive
  PROVE  StatementsInv'
<1> DEFINE d == Decode(wire)
           err == IF d.err = "Ok" THEN Refusal(d.v) ELSE "InstructionDidNotDeserialize"
<1>1. /\ status = "sent"
      /\ IF err # "Ok" THEN Fail(err) ELSE status' = "running" /\ todo' = Jobs(d.v) /\ UNCHANGED log
      /\ client' = client /\ values' = values /\ wire' = wire /\ returned' = returned
  BY DEF Receive
<1>2. err \in Errors \cup {"Ok"} /\ (err = "Ok" => d.err = "Ok")
  <2>1. \A s : Refusal(s) \in Errors \cup {"Ok"}
    BY DEF Refusal, Errors
  <2>2. "InstructionDidNotDeserialize" \in Errors /\ "InstructionDidNotDeserialize" # "Ok"
    BY DEF Errors
  <2> HIDE DEF d
  <2> QED
    BY <2>1, <2>2
<1>3. wire \in Seq(Byte)
  BY DEF StatementsInv, TypeInv
<1> HIDE DEF err
<1>4. CASE err # "Ok"
  <2>1. Fail(err) /\ err \in Errors
    BY <1>1, <1>2, <1>4
  <2> QED
    BY <1>1, <2>1, FailInv
<1>5. CASE err = "Ok"
  <2>1. status' = "running" /\ todo' = Jobs(d.v) /\ log' = log /\ d.err = "Ok"
    BY <1>1, <1>2, <1>5
  <2>2. d.v \in Decoded
    BY <1>3, <2>1, DecodeTyped, ReadingCases
  <2>3. Tape(values') /\ log' \in Seq(Lines) /\ True_(log', values')
    BY <1>1, <2>1 DEF StatementsInv, TypeInv, TrueInv
  <2>4. TypeInv' /\ TrueInv'
    BY <1>1, <2>1, <2>3, StepTyped
  <2>5. GuardInv'
    BY <1>1, <2>1, NoFalseGuards, StepGuards
  <2>6. Running_(d.v)'
    <3> DEFINE s == d.v
               u == Jobs(s)
    <3> HIDE DEF s
    <3>1. s \in Decoded /\ todo' = u
      BY <2>1, <2>2 DEF s
    <3>2. u \in Seq(Jobs_) /\ (s.ix = "assert_multi" => Len(u) = Len(s.conds))
      BY <3>1, JobsTyped DEF Conditional
    <3>3. Suffix(u, u) /\ Len(u) \in Nat
      BY <3>2, SuffixSelf, LenProperties
    <3>4. s.ix = "assert_multi" => Len(todo') <= Len(s.conds) /\ 1 .. Len(s.conds) - Len(todo') = {}
      BY <3>1, <3>2, <3>3
    <3>5. d.v' = s
      BY <1>1 DEF s
    <3> HIDE DEF u
    <3>6. /\ s \in Decoded /\ todo' \in Seq(Jobs_) /\ Suffix(todo', Jobs(s))
          /\ s.ix = "assert_multi" =>
               /\ Len(todo') <= Len(s.conds)
               /\ \A k \in 1 .. Len(s.conds) - Len(todo') : Eval(values', "Bool", s.conds[k]) = Truth(TRUE)
      BY <3>1, <3>2, <3>3, <3>4 DEF u
    <3> HIDE DEF d
    <3> QED
      BY <3>5, <3>6 DEF Running_
  <2>7. RunInv'
    BY <1>1, <2>1, <2>6 DEF RunInv
  <2>8. OnlyLeastAborts'
    BY <2>1 DEF OnlyLeastAborts
  <2> QED
    BY <2>4, <2>5, <2>7, <2>8 DEF StatementsInv
<1> QED
  BY <1>4, <1>5

\* What a binding gets: a value of its type, or an error.
LEMMA OutcomeIs ==
  ASSUME NEW b \in WireBindings, NEW out \in Outcomes(b), Tape(values)
  PROVE  /\ out.err \in Errors \cup {"Ok"}
         /\ out.err = "Ok" => Fits(out.value)
<1>1. CASE b.tag = 2
  <2> DEFINE x == Answer(values, b.expr)
             o == x.out[x.ty]
  <2>1. out = IF x.ty = "none" THEN Outcome(Err("TypeError"), x.ty) ELSE Outcome(o, x.ty)
    BY <1>1 DEF Outcomes
  <2>2. b.expr \in Terms_(1)
    BY <1>1 DEF WireBindings
  <2>3. CASE x.ty = "none"
    <3>1. out.err = "TypeError"
      BY <2>1, <2>3 DEF Outcome, Err
    <3> QED
      BY <3>1 DEF Errors, EvalErrors
  <2>4. CASE x.ty # "none"
    <3>1. Evaluates(o) /\ (o.err = "Ok" => Fits([ty |-> x.ty, v |-> o.v]))
      BY <2>2, <2>4, BoundIs
    <3>2. out.err = o.err /\ out.value = [ty |-> x.ty, v |-> o.v]
      BY <2>1, <2>4 DEF Outcome
    <3> HIDE DEF o, x
    <3> QED
      BY <3>1, <3>2, ErrorsAre
  <2> QED
    BY <2>3, <2>4
<1>2. CASE b.tag # 2
  <2> DEFINE ty == SourceType(b)
  <2>1. out = Outcome(Err("NotLoaded"), "none") \/ \E f \in Data : ty \in DOMAIN f /\ out = Outcome(Ok(f[ty]), ty)
    BY <1>2 DEF Outcomes
  <2> HIDE DEF ty
  <2>2. CASE out = Outcome(Err("NotLoaded"), "none")
    <3>1. out.err = "NotLoaded"
      BY <2>2 DEF Outcome, Err
    <3> QED
      BY <3>1 DEF Errors
  <2>3. ASSUME NEW f \in Data, ty \in DOMAIN f, out = Outcome(Ok(f[ty]), ty)
        PROVE  out.err = "Ok" /\ Fits(out.value)
    <3>1. Fits([ty |-> ty, v |-> f[ty]])
      BY <2>3, StatementsAssumption
    <3>2. out.err = "Ok" /\ out.value = [ty |-> ty, v |-> f[ty]]
      BY <2>3 DEF Outcome, Ok
    <3> QED
      BY <3>1, <3>2
  <2> QED
    BY <2>1, <2>2, <2>3
<1> QED
  BY <1>1, <1>2

\* A let's text breaks at a least value: the one that is bound, or a literal.
LEMMA LetTextClean ==
  ASSUME NEW b \in WireBindings, NEW value, ~ Clean(LetText(b, value))
  PROVE  Least(value.ty, value.v) \/ \E k \in DOMAIN b.expr : Least(b.expr[k].ty, b.expr[k].v)
<1> SUFFICES ASSUME ~ Least(value.ty, value.v), \A k \in DOMAIN b.expr : ~ Least(b.expr[k].ty, b.expr[k].v)
             PROVE  FALSE
  OBVIOUS
<1>1. Clean(BindingText(b))
  <2>1. b.tag = 2 => Clean(Text(b.expr))
    BY TextClean DEF WireBindings
  <2> QED
    BY <2>1, CleanTexts DEF BindingText
<1>2. Clean(NumberText(value.ty, value.v))
  BY NumberClean
<1>3. Clean(LetText(b, value))
  BY <1>1, <1>2, CleanTexts DEF LetText
<1> QED
  BY <1>3

LEMMA BindInv ==
  ASSUME StatementsInv, Bind
  PROVE  StatementsInv'
<1> PICK out \in Outcomes(todo[1].b) :
       IF out.err # "Ok" THEN Fail(out.err) /\ UNCHANGED values
       ELSE /\ values' = Append(values, out.value)
            /\ Emit(Line("let", AppendedIndex, NoExpr, out.value, TRUE),
                     LetText(todo[1].b, out.value), "Ok", Tail(todo))
  BY DEF Bind
<1> DEFINE s == Decode(wire).v
           u == Jobs(s)
           p == Len(u) - Len(todo) + 1
           b == todo[1].b
           value == out.value
           line == Line("let", AppendedIndex, NoExpr, value, TRUE)
           text == LetText(b, value)
<1>1. Running("let") /\ status = "running" /\ client' = client /\ wire' = wire /\ returned' = returned
  BY DEF Bind, Running
<1>2. /\ s \in Decoded /\ Decode(wire).err = "Ok" /\ s.ix = "let"
      /\ todo[1] \in Jobs_ /\ todo[1] = u[p] /\ JobOf(s, p)
      /\ Tail(todo) \in Seq(Jobs_) /\ Suffix(Tail(todo), u)
  BY <1>1, RunningIs DEF StatementsInv, Names
<1>3. b \in WireBindings /\ p \in DOMAIN s.bindings /\ b = s.bindings[p]
  <2>1. todo[1].kind = "let"
    BY <1>1 DEF Running
  <2> HIDE DEF s, p
  <2> QED
    BY <1>2, <2>1 DEF Jobs_, JobOf
<1>4. Tape(values)
  BY DEF StatementsInv, TypeInv
<1>5. out.err \in Errors \cup {"Ok"} /\ (out.err = "Ok" => Fits(value))
  BY <1>3, <1>4, OutcomeIs
<1>6. CASE out.err # "Ok"
  <2>1. Fail(out.err) /\ values' = values /\ out.err \in Errors
    BY <1>5, <1>6
  <2> QED
    BY <1>1, <2>1, FailInv
<1>7. CASE out.err = "Ok"
  <2>1. values' = Append(values, value) /\ Emit(line, text, "Ok", Tail(todo)) /\ Fits(value)
    BY <1>5, <1>7
  <2>2. /\ Tape(values') /\ Extends(values, values') /\ values' # << >>
        /\ values'[Len(values) + 1] = value /\ Len(values') = Len(values) + 1
    BY <1>4, <2>1, TapeGrows
  <2>3. /\ line \in Lines /\ LineIsTrue(line, values') /\ ~ FalseGuard(line) /\ line.ix # "reset_frame"
    <3>1. Len(values) \in Nat /\ value \in TypedValue
      BY <1>4, <2>1, LenProperties DEF Tape, Fits
    <3>2. line \in Lines
      BY <3>1, LineTyped DEF AppendedIndex, LineKinds
    <3>3. line.ix = "let" /\ line.i = Len(values) /\ line.value = value /\ Len(values) < Len(values) + 1
      BY <3>1 DEF Line, AppendedIndex
    <3> HIDE DEF line
    <3> QED
      BY <2>2, <3>2, <3>3 DEF LineIsTrue, FalseGuard, Verdict
  <2> HIDE DEF line, text
  <2>4. \/ status' = "Abort" /\ todo' = << >> /\ log' = log /\ ~ Clean(text)
        \/ status' = "running" /\ todo' = Tail(todo) /\ log' \in {log, Append(log, line)}
    BY <1>1, <2>1, EmitCases
  <2>5. log' \in {log, Append(log, line)}
    BY <2>4
  <2>6. log' \in Seq(Lines) /\ True_(log', values') /\ FalseGuards(log') = {}
    BY <1>1, <2>2, <2>3, <2>5, StepLogs
  <2>7. TypeInv' /\ TrueInv'
    BY <1>1, <2>2, <2>4, <2>6, StepTyped
  <2>8. GuardInv'
    BY <1>1, <2>4, <2>6, StepGuards
  <2>9. RunInv'
    <3>1. CASE status' = "running"
      <4>1. todo' = Tail(todo)
        BY <2>4, <3>1
      <4> HIDE DEF s
      <4>2. s.ix # "assert_multi"
        BY <1>2
      <4> QED
        BY <1>1, <1>2, <4>1, <4>2, RunsOn DEF s
    <3>2. CASE status' # "running"
      BY <3>2 DEF RunInv
    <3> QED
      BY <3>1, <3>2
  <2>10. OnlyLeastAborts'
    <3>1. SUFFICES ASSUME status' = "Abort" PROVE OnlyLeastAborts'
      BY DEF OnlyLeastAborts
    <3>2. ~ Clean(text)
      BY <2>4, <3>1
    <3>3. Least(value.ty, value.v) \/ \E k \in DOMAIN b.expr : Least(b.expr[k].ty, b.expr[k].v)
      <4>1. ~ Clean(LetText(b, value))
        BY <3>2 DEF text
      <4> HIDE DEF b, value
      <4> QED
        BY <1>3, <4>1, LetTextClean
    <3>4. Last(values') = value
      <4>1. Len(values') = Len(values) + 1
        BY <2>2
      <4> QED
        BY <2>2, <4>1 DEF Last
    <3>5. Decode(wire') = Decode(wire)
      BY <1>1
    <3> HIDE DEF b, value, p
    <3> QED
      BY <1>3, <2>2, <3>3, <3>4, <3>5 DEF OnlyLeastAborts
  <2> QED
    BY <2>7, <2>8, <2>9, <2>10 DEF StatementsInv
<1> QED
  BY <1>6, <1>7

\* A guard's text breaks at a least literal of its condition.
LEMMA BreaksAtLiteral ==
  ASSUME StatementsInv, wire' = wire, NEW p \in DOMAIN Decode(wire).v.conds,
         Decode(wire).v.conds[p] \in Terms_(1), ~ Clean(Text(Decode(wire).v.conds[p]))
  PROVE  OnlyLeastAborts'
<1> DEFINE e == Decode(wire).v.conds[p]
<1>1. \E k \in DOMAIN e : Least(e[k].ty, e[k].v)
  <2> HIDE DEF e
  <2>1. e \in Terms_(1) /\ ~ Clean(Text(e))
    BY DEF e
  <2> QED
    BY <2>1, TextClean
<1>2. Decode(wire') = Decode(wire)
  OBVIOUS
<1> QED
  BY <1>1, <1>2 DEF OnlyLeastAborts

LEMMA GuardTexts ==
  ASSUME NEW e, NEW arms, Clean(Text(e))
  PROVE  Clean(AssertText(e)) /\ Clean(MultiText(e)) /\ Clean(IfText(e, arms))
<1>1. Clean(AssertText(e)) /\ Clean(MultiText(e))
  BY CleanTexts DEF AssertText, MultiText
<1>2. \A arm : Clean(ArmText(arm))
  BY CleanTexts DEF ArmText
<1>3. Clean(IfText(e, arms))
  <2> DEFINE a == ArmText(arms[1])
             b == ArmText(arms[2])
             t == Text(e)
  <2>1. Clean(a) /\ Clean(b) /\ Clean(t)
    BY <1>2
  <2>2. IfText(e, arms) = Before(Around(t), Before(a, Before(Words(1), Before(b, Words(2)))))
    BY DEF IfText
  <2> HIDE DEF a, b, t
  <2> QED
    BY <2>1, <2>2, CleanTexts
<1> QED
  BY <1>1, <1>3

\* The line of a guard.
LEMMA GuardLine ==
  ASSUME NEW ix \in Conditional, NEW i \in Nat, NEW e \in Terms_(1), NEW vs, NEW out, out = Eval(vs, "Bool", e),
         Tape(vs), out.err = "Ok"
  PROVE  LET line == Line(ix, i, e, Silent, out.v = 1) IN
         /\ line \in Lines /\ LineIsTrue(line, vs) /\ line.ix # "reset_frame"
         /\ FalseGuard(line) => out.v # 1
         /\ out = Truth(out.v = 1)
<1> DEFINE ok == out.v = 1
           line == Line(ix, i, e, Silent, ok)
<1>1. out = Truth(ok)
  BY VerdictIs
<1>2. ok \in BOOLEAN
  OBVIOUS
<1> HIDE DEF ok
<1>3. line \in Lines
  BY <1>2, LineTyped DEF Conditional, LineKinds
<1>4. line.ix = ix /\ line.e = e /\ line.ok = ok
  BY DEF Line
<1> HIDE DEF line
<1>5. LineIsTrue(line, vs) /\ line.ix # "reset_frame"
  BY <1>1, <1>4 DEF LineIsTrue, Conditional
<1>6. FalseGuard(line) => ~ ok
  BY <1>4 DEF FalseGuard
<1> QED
  BY <1>1, <1>3, <1>5, <1>6 DEF ok, line

LEMMA TapeSame ==
  ASSUME NEW vs, Tape(vs)
  PROVE  Extends(vs, vs)
BY LenProperties DEF Extends, Tape

LEMMA AssertOneInv ==
  ASSUME StatementsInv, AssertOne
  PROVE  StatementsInv'
<1> DEFINE s == Decode(wire).v
           e == todo[1].e
           out == Eval(values, "Bool", e)
           line == Line("assert", 0, e, Silent, out.v = 1)
           text == AssertText(e)
           err == IF out.v = 1 THEN "Ok" ELSE "AssertFailed"
<1>1. /\ Running("assert") /\ status = "running" /\ client' = client /\ values' = values /\ wire' = wire
      /\ returned' = returned
      /\ IF out.err # "Ok" THEN Fail(out.err) ELSE Emit(line, text, err, Tail(todo))
  BY DEF AssertOne, Running, Verdicts
<1>2. /\ s \in Decoded /\ Decode(wire).err = "Ok" /\ s.ix = "assert"
      /\ e = s.conds[1] /\ e \in Terms_(1) /\ 1 \in DOMAIN s.conds
      /\ Tail(todo) \in Seq(Jobs_) /\ Suffix(Tail(todo), Jobs(s))
  BY <1>1, ConditionIs DEF StatementsInv, Conditional
<1>3. Tape(values) /\ Extends(values, values)
  BY TapeSame DEF StatementsInv, TypeInv
<1> HIDE DEF e
<1>4. Evaluates(out)
  BY <1>2, <1>3, VerdictIs
<1> HIDE DEF out
<1>5. CASE out.err # "Ok"
  <2>1. Fail(out.err) /\ out.err \in Errors
    BY <1>1, <1>4, <1>5, ErrorsAre
  <2> QED
    BY <1>1, <2>1, FailInv
<1>6. CASE out.err = "Ok"
  <2>1. Emit(line, text, err, Tail(todo))
    BY <1>1, <1>6
  <2>2. /\ line \in Lines /\ LineIsTrue(line, values) /\ line.ix # "reset_frame"
        /\ FalseGuard(line) => out.v # 1
        /\ out = Truth(out.v = 1)
    BY <1>2, <1>3, <1>6, GuardLine DEF out, Conditional
  <2> HIDE DEF line, text, err
  <2>3. \/ status' = "Abort" /\ todo' = << >> /\ log' = log /\ ~ Clean(text)
        \/ err = "Ok" /\ status' = "running" /\ todo' = Tail(todo) /\ log' \in {log, Append(log, line)}
        \/ err # "Ok" /\ status' = err /\ todo' = << >> /\ log' \in {log, Append(log, line)}
    BY <1>1, <2>1, EmitCases
  <2>4. /\ log' \in Seq(Lines) /\ True_(log', values')
        /\ ~ FalseGuard(line) => FalseGuards(log') = {}
        /\ FalseGuard(line) => FalseGuards(log') \in {{}, {Len(log')}}
    <3>1. log' \in {log, Append(log, line)}
      BY <2>3
    <3> QED
      BY <1>1, <1>3, <2>2, <3>1, StepLogs
  <2>5. Tape(values') /\ (status' # "running" => todo' = << >>)
    BY <1>1, <1>3, <2>3
  <2>6. TypeInv' /\ TrueInv'
    BY <1>1, <2>4, <2>5, StepTyped
  <2>7. RunInv'
    <3>1. CASE status' = "running"
      <4>1. todo' = Tail(todo) \/ todo' = << >>
        BY <2>3
      <4>2. err # "running"
        BY DEF err
      <4>3. todo' = Tail(todo)
        BY <2>3, <3>1, <4>2
      <4> HIDE DEF s
      <4>4. s.ix # "assert_multi"
        BY <1>2
      <4> QED
        BY <1>1, <1>2, <4>3, <4>4, RunsOn DEF s
    <3>2. CASE status' # "running"
      BY <3>2 DEF RunInv
    <3> QED
      BY <3>1, <3>2
  <2>8. OnlyLeastAborts'
    <3>1. CASE status' = "Abort"
      <4>1. ~ Clean(text)
        BY <2>3, <3>1 DEF err
      <4>2. ~ Clean(Text(e))
        BY <4>1, GuardTexts DEF text
      <4> QED
        BY <1>1, <1>2, <4>2, BreaksAtLiteral
    <3>2. CASE status' # "Abort"
      BY <3>2 DEF OnlyLeastAborts
    <3> QED
      BY <3>1, <3>2
  <2>9. GuardInv'
    <3>1. CASE status' = "AssertFailed"
      <4>1. returned' = << >>
        BY <1>1, NoFalseGuards
      <4>2. Decode(wire') = Decode(wire)
        BY <1>1
      <4>3. out.v # 1
        BY <2>3, <3>1 DEF err
      <4>4. Eval(values', "Bool", Decode(wire').v.conds[1]) = Truth(FALSE)
        <5>1. Truth(out.v = 1) = Truth(FALSE)
          BY <4>3 DEF Truth
        <5>2. out = Eval(values', "Bool", e) /\ e = Decode(wire').v.conds[1]
          BY <1>1, <1>2, <4>2 DEF out
        <5> QED
          BY <2>2, <5>1, <5>2
      <4>5. FalseGuards(log') # {} => FalseGuards(log') = {Len(log')}
        BY <2>4
      <4> QED
        BY <3>1, <4>1, <4>4, <4>5 DEF GuardInv
    <3>2. CASE status' # "AssertFailed"
      <4>1. status' \in {"running", "Abort"}
        BY <2>3, <3>2 DEF err
      <4>2. FalseGuards(log') = {}
        <5>1. status' = "Abort" \/ out.v = 1
          BY <2>3, <3>2 DEF err
        <5>2. CASE out.v = 1
          BY <2>2, <2>4, <5>2
        <5>3. CASE status' = "Abort"
          BY <1>1, <2>3, <5>3, NoFalseGuards DEF err
        <5> QED
          BY <5>1, <5>2, <5>3
      <4> QED
        BY <1>1, <4>1, <4>2, StepGuards
    <3> QED
      BY <3>1, <3>2
  <2> QED
    BY <2>6, <2>7, <2>8, <2>9 DEF StatementsInv
<1> QED
  BY <1>5, <1>6

LEMMA AssertMultiInv ==
  ASSUME StatementsInv, AssertMulti
  PROVE  StatementsInv'
<1> DEFINE s == Decode(wire).v
           n == Len(s.conds)
           p == n - Len(todo) + 1
           e == todo[1].e
           out == Eval(values, "Bool", e)
           line == Line("assert_multi", Place, e, Silent, out.v = 1)
           text == MultiText(e)
           err == IF out.v = 1 THEN "Ok" ELSE "AssertFailedMulti"
<1>1. /\ Running("assert_multi") /\ status = "running" /\ client' = client /\ values' = values /\ wire' = wire
      /\ IF out.err # "Ok" THEN Fail(out.err) /\ returned' = returned
         ELSE /\ Emit(line, text, err, Tail(todo))
              /\ returned' = IF status' = "AssertFailedMulti" THEN <<Place>> ELSE returned
  BY DEF AssertMulti, Running, Verdicts
<1>2. /\ s \in Decoded /\ Decode(wire).err = "Ok" /\ s.ix = "assert_multi"
      /\ e = s.conds[p] /\ e \in Terms_(1) /\ p \in DOMAIN s.conds /\ p \in 1 .. n /\ Len(todo) \in 1 .. n
      /\ Tail(todo) \in Seq(Jobs_) /\ Suffix(Tail(todo), Jobs(s)) /\ Len(Tail(todo)) = Len(todo) - 1
  BY <1>1, ConditionIs DEF StatementsInv, Conditional
<1>3. Tape(values) /\ Extends(values, values)
  BY TapeSame DEF StatementsInv, TypeInv
<1>4. /\ n \in Nat /\ Place = p - 1 /\ Place \in Nat
      /\ \A k \in 1 .. p - 1 : Eval(values, "Bool", s.conds[k]) = Truth(TRUE)
  <2>1. Place = n - Len(todo)
    BY DEF Place
  <2>2. n \in Nat /\ p - 1 = n - Len(todo) /\ p - 1 \in Nat
    BY <1>2
  <2>3. Running_(s)
    BY <1>1 DEF StatementsInv, RunInv
  <2> HIDE DEF s
  <2> QED
    BY <1>2, <2>1, <2>2, <2>3 DEF Running_
<1> HIDE DEF e
<1>5. Evaluates(out)
  BY <1>2, <1>3, VerdictIs
<1> HIDE DEF out
<1>6. CASE out.err # "Ok"
  <2>1. Fail(out.err) /\ out.err \in Errors /\ returned' = returned
    BY <1>1, <1>5, <1>6, ErrorsAre
  <2> QED
    BY <1>1, <2>1, FailInv
<1>7. CASE out.err = "Ok"
  <2>1. /\ Emit(line, text, err, Tail(todo))
        /\ returned' = IF status' = "AssertFailedMulti" THEN <<Place>> ELSE returned
    BY <1>1, <1>7
  <2>2. /\ line \in Lines /\ LineIsTrue(line, values) /\ line.ix # "reset_frame"
        /\ FalseGuard(line) => out.v # 1
        /\ out = Truth(out.v = 1)
    BY <1>2, <1>3, <1>4, <1>7, GuardLine DEF out, Conditional
  <2> HIDE DEF line, text, err
  <2>3. \/ status' = "Abort" /\ todo' = << >> /\ log' = log /\ ~ Clean(text)
        \/ err = "Ok" /\ status' = "running" /\ todo' = Tail(todo) /\ log' \in {log, Append(log, line)}
        \/ err # "Ok" /\ status' = err /\ todo' = << >> /\ log' \in {log, Append(log, line)}
    BY <1>1, <2>1, EmitCases
  <2>4. /\ log' \in Seq(Lines) /\ True_(log', values')
        /\ ~ FalseGuard(line) => FalseGuards(log') = {}
        /\ FalseGuard(line) => FalseGuards(log') \in {{}, {Len(log')}}
    <3>1. log' \in {log, Append(log, line)}
      BY <2>3
    <3> QED
      BY <1>1, <1>3, <2>2, <3>1, StepLogs
  <2>5. Tape(values') /\ (status' # "running" => todo' = << >>)
    BY <1>1, <1>3, <2>3
  <2>6. TypeInv' /\ TrueInv'
    BY <1>1, <2>4, <2>5, StepTyped
  <2>7. RunInv'
    <3>1. CASE status' = "running"
      <4>1. todo' = Tail(todo) /\ out.v = 1
        BY <2>3, <3>1 DEF err
      <4>2. Eval(values, "Bool", s.conds[p]) = Truth(TRUE)
        <5>1. Truth(out.v = 1) = Truth(TRUE)
          BY <4>1 DEF Truth
        <5> QED
          BY <1>2, <2>2, <5>1 DEF out
      <4>3. Len(todo') <= n /\ n - Len(todo') = p
        BY <1>2, <1>4, <4>1
      <4>4. ASSUME NEW k \in 1 .. n - Len(todo') PROVE Eval(values', "Bool", s.conds[k]) = Truth(TRUE)
        <5>1. k \in 1 .. p - 1 \/ k = p
          BY <1>2, <4>3
        <5> QED
          BY <1>1, <1>4, <4>2, <5>1
      <4> QED
        BY <1>1, <1>2, <4>1, <4>3, <4>4, RunsOn
    <3>2. CASE status' # "running"
      BY <3>2 DEF RunInv
    <3> QED
      BY <3>1, <3>2
  <2>8. OnlyLeastAborts'
    <3>1. CASE status' = "Abort"
      <4>1. ~ Clean(text)
        BY <2>3, <3>1 DEF err
      <4>2. ~ Clean(Text(e))
        BY <4>1, GuardTexts DEF text
      <4> HIDE DEF p
      <4> QED
        BY <1>1, <1>2, <4>2, BreaksAtLiteral
    <3>2. CASE status' # "Abort"
      BY <3>2 DEF OnlyLeastAborts
    <3> QED
      BY <3>1, <3>2
  <2>9. GuardInv'
    <3>1. CASE status' = "AssertFailedMulti"
      <4>1. returned' = <<Place>>
        BY <2>1, <3>1
      <4>2. returned' # << >> /\ returned'[1] = p - 1 /\ returned'[1] + 1 = p
        BY <1>2, <1>4, <4>1
      <4>3. Decode(wire') = Decode(wire)
        BY <1>1
      <4>4. out.v # 1
        BY <2>3, <3>1 DEF err
      <4>5. Eval(values', "Bool", s.conds[p]) = Truth(FALSE)
        <5>1. Truth(out.v = 1) = Truth(FALSE)
          BY <4>4 DEF Truth
        <5> QED
          BY <1>1, <1>2, <2>2, <5>1 DEF out
      <4>6. Truth(TRUE) # Truth(FALSE)
        BY DEF Truth, Ok
      <4>7. \A k \in 1 .. p - 1 : Eval(values', "Bool", s.conds[k]) # Truth(FALSE)
        BY <1>1, <1>4, <4>6
      <4>8. FalseGuards(log') # {} => FalseGuards(log') = {Len(log')}
        BY <2>4
      <4> HIDE DEF p
      <4> QED
        BY <3>1, <4>2, <4>3, <4>5, <4>7, <4>8 DEF GuardInv
    <3>2. CASE status' # "AssertFailedMulti"
      <4>1. status' \in {"running", "Abort"} /\ returned' = returned
        BY <2>1, <2>3, <3>2 DEF err
      <4>2. FalseGuards(log') = {}
        <5>1. status' = "Abort" \/ out.v = 1
          BY <2>3, <3>2 DEF err
        <5>2. CASE out.v = 1
          BY <2>2, <2>4, <5>2
        <5>3. CASE status' = "Abort"
          BY <1>1, <2>3, <5>3, NoFalseGuards DEF err
        <5> QED
          BY <5>1, <5>2, <5>3
      <4> QED
        BY <1>1, <4>1, <4>2, StepGuards
    <3> QED
      BY <3>1, <3>2
  <2> QED
    BY <2>6, <2>7, <2>8, <2>9 DEF StatementsInv
<1> QED
  BY <1>6, <1>7

LEMMA IfElseInv ==
  ASSUME StatementsInv, IfElse
  PROVE  StatementsInv'
<1> DEFINE s == Decode(wire).v
           e == todo[1].e
           arms == todo[1].arms
           out == Eval(values, "Bool", e)
           arm == arms[IF out.v = 1 THEN 1 ELSE 2]
           line == Line("if_else", 0, e, Silent, out.v = 1)
           text == IfText(e, arms)
           err == IF arm.kind = "revert" THEN "IfElseRevert" ELSE "Ok"
           left == Invocations(arm)
<1>1. /\ Running("if_else") /\ status = "running" /\ client' = client /\ values' = values /\ wire' = wire
      /\ returned' = returned
      /\ IF out.err # "Ok" THEN Fail(out.err) ELSE Emit(line, text, err, left)
  BY DEF IfElse, Running, Verdicts
<1>2. /\ s \in Decoded /\ Decode(wire).err = "Ok" /\ s.ix = "if_else" /\ todo[1] \in Jobs_
      /\ e = s.conds[1] /\ e \in Terms_(1) /\ 1 \in DOMAIN s.conds
  BY <1>1, ConditionIs DEF StatementsInv, Conditional
<1>3. Tape(values) /\ Extends(values, values)
  BY TapeSame DEF StatementsInv, TypeInv
<1>4. arm \in Arms
  <2>1. arms \in Seq(Arms) /\ Len(arms) = 2
    BY <1>1, <1>2 DEF Jobs_, Running
  <2>2. arms[1] \in Arms /\ arms[2] \in Arms
    BY <2>1, ElementOfSeq
  <2> QED
    BY <2>2
<1> HIDE DEF e, arms
<1>5. Evaluates(out)
  BY <1>2, <1>3, VerdictIs
<1> HIDE DEF out, arm
<1>6. left \in Seq(Jobs_) /\ \A k \in 1 .. Len(left) : left[k].kind = "cpi"
  BY <1>4, InvocationsTyped
<1> HIDE DEF left
<1>7. CASE out.err # "Ok"
  <2>1. Fail(out.err) /\ out.err \in Errors
    BY <1>1, <1>5, <1>7, ErrorsAre
  <2> QED
    BY <1>1, <2>1, FailInv
<1>8. CASE out.err = "Ok"
  <2>1. Emit(line, text, err, left)
    BY <1>1, <1>8
  <2>2. line \in Lines /\ LineIsTrue(line, values) /\ line.ix = "if_else"
    <3>1. line \in Lines /\ LineIsTrue(line, values)
      BY <1>2, <1>3, <1>8, GuardLine DEF out, Conditional
    <3> QED
      BY <3>1 DEF Line
  <2>3. err \in {"Ok", "IfElseRevert"}
    OBVIOUS
  <2> HIDE DEF line, text, err
  <2>4. \/ status' = "Abort" /\ todo' = << >> /\ log' = log /\ ~ Clean(text)
        \/ status' = "running" /\ todo' = left /\ log' \in {log, Append(log, line)}
        \/ status' = "IfElseRevert" /\ todo' = << >> /\ log' \in {log, Append(log, line)}
    BY <1>1, <2>1, <2>3, EmitCases
  <2>5. log' \in Seq(Lines) /\ True_(log', values') /\ FalseGuards(log') = {}
    <3>1. log' \in {log, Append(log, line)} /\ ~ FalseGuard(line) /\ line.ix # "reset_frame"
      BY <2>2, <2>4 DEF FalseGuard
    <3> QED
      BY <1>1, <1>3, <2>2, <3>1, StepLogs
  <2>6. Tape(values') /\ (status' # "running" => todo' = << >>)
    BY <1>1, <1>3, <2>4
  <2>7. TypeInv' /\ TrueInv'
    BY <1>1, <2>5, <2>6, StepTyped
  <2>8. GuardInv'
    BY <1>1, <2>4, <2>5, StepGuards
  <2>9. RunInv'
    <3>1. CASE status' = "running"
      <4>1. todo' = left
        BY <2>4, <3>1
      <4> HIDE DEF s
      <4>2. s.ix # "assert_multi"
        BY <1>2
      <4> QED
        BY <1>1, <1>2, <1>6, <4>1, <4>2, RunsOn DEF s
    <3>2. CASE status' # "running"
      BY <3>2 DEF RunInv
    <3> QED
      BY <3>1, <3>2
  <2>10. OnlyLeastAborts'
    <3>1. CASE status' = "Abort"
      <4>1. ~ Clean(text)
        BY <2>4, <3>1
      <4>2. ~ Clean(Text(e))
        BY <4>1, GuardTexts DEF text
      <4> QED
        BY <1>1, <1>2, <4>2, BreaksAtLiteral
    <3>2. CASE status' # "Abort"
      BY <3>2 DEF OnlyLeastAborts
    <3> QED
      BY <3>1, <3>2
  <2> QED
    BY <2>7, <2>8, <2>9, <2>10 DEF StatementsInv
<1> QED
  BY <1>7, <1>8

LEMMA InvokeInv ==
  ASSUME StatementsInv, Invoke
  PROVE  StatementsInv'
<1> DEFINE s == Decode(wire).v
           step == todo[1].step
           line == Line("cpi", 0, NoExpr, Silent, TRUE)
           text == CpiText(step)
<1>1. /\ status = "running" /\ todo # << >> /\ todo[1].kind = "cpi"
      /\ client' = client /\ values' = values /\ wire' = wire /\ returned' = returned
  BY DEF Invoke, Running
<1>2. PICK err \in {"Ok", "CpiFailed"} : Emit(line, text, err, Tail(todo))
  BY DEF Invoke
<1>3. Tape(values) /\ Extends(values, values)
  BY TapeSame DEF StatementsInv, TypeInv
<1>4. Clean(text)
  BY CleanTexts DEF CpiText, GivenUp
<1>5. line \in Lines /\ LineIsTrue(line, values) /\ ~ FalseGuard(line) /\ line.ix # "reset_frame"
  <2>1. line \in Lines
    BY LineTyped DEF LineKinds
  <2>2. line.ix = "cpi"
    BY DEF Line
  <2> HIDE DEF line
  <2> QED
    BY <2>1, <2>2 DEF LineIsTrue, Verdict, FalseGuard
<1>6. /\ Decode(wire).err = "Ok" /\ s \in Decoded /\ todo \in Seq(Jobs_)
      /\ \/ Suffix(todo, Jobs(s))
         \/ s.ix = "if_else" /\ \A k \in 1 .. Len(todo) : todo[k].kind = "cpi"
  BY <1>1 DEF StatementsInv, RunInv, Running_
<1>7. /\ Tail(todo) \in Seq(Jobs_) /\ s.ix # "assert_multi"
      /\ \/ Suffix(Tail(todo), Jobs(s))
         \/ s.ix = "if_else" /\ \A k \in 1 .. Len(Tail(todo)) : Tail(todo)[k].kind = "cpi"
  <2> DEFINE u == Jobs(s)
             t == Tail(todo)
  <2> HIDE DEF s
  <2>1. CASE Suffix(todo, u)
    <3>1. u \in Seq(Jobs_) /\ \A k \in 1 .. Len(u) : JobOf(s, k)
      BY <1>6, JobsTyped
    <3> DEFINE p == Len(u) - Len(todo) + 1
    <3>2. t \in Seq(Jobs_) /\ Suffix(t, u) /\ p \in 1 .. Len(u) /\ todo[1] = u[p]
      BY <1>1, <1>6, <2>1, <3>1, SuffixTail
    <3>3. JobOf(s, p)
      BY <3>1, <3>2
    <3>4. s.ix # "assert_multi"
      BY <1>1, <3>2, <3>3 DEF JobOf
    <3> QED
      BY <3>2, <3>4
  <2>2. CASE s.ix = "if_else" /\ \A k \in 1 .. Len(todo) : todo[k].kind = "cpi"
    <3>1. t \in Seq(Jobs_) /\ Len(t) = Len(todo) - 1 /\ \A k \in 1 .. Len(t) : t[k] = todo[k + 1]
      BY <1>1, <1>6, HeadTailProperties
    <3>2. Len(todo) \in Nat
      BY <1>6, LenProperties
    <3>3. \A k \in 1 .. Len(t) : k + 1 \in 1 .. Len(todo)
      BY <3>1, <3>2
    <3> QED
      BY <2>2, <3>1, <3>3
  <2> QED
    BY <1>6, <2>1, <2>2
<1> HIDE DEF line, text
<1>8. \/ status' = "running" /\ todo' = Tail(todo) /\ log' \in {log, Append(log, line)}
      \/ status' = "CpiFailed" /\ todo' = << >> /\ log' \in {log, Append(log, line)}
  BY <1>1, <1>2, <1>4, EmitCases
<1>9. log' \in Seq(Lines) /\ True_(log', values') /\ FalseGuards(log') = {}
  <2>1. log' \in {log, Append(log, line)}
    BY <1>8
  <2> QED
    BY <1>1, <1>3, <1>5, <2>1, StepLogs
<1>10. Tape(values') /\ (status' # "running" => todo' = << >>)
  BY <1>1, <1>3, <1>8
<1>11. TypeInv' /\ TrueInv'
  BY <1>1, <1>9, <1>10, StepTyped
<1>12. GuardInv'
  BY <1>1, <1>8, <1>9, StepGuards
<1>13. RunInv'
  <2>1. CASE status' = "running"
    <3>1. todo' = Tail(todo)
      BY <1>8, <2>1
    <3> QED
      BY <1>1, <1>6, <1>7, <3>1, RunsOn
  <2>2. CASE status' # "running"
    BY <2>2 DEF RunInv
  <2> QED
    BY <2>1, <2>2
<1>14. OnlyLeastAborts'
  BY <1>8 DEF OnlyLeastAborts
<1> QED
  BY <1>11, <1>12, <1>13, <1>14 DEF StatementsInv

LEMMA ResetFrameInv ==
  ASSUME StatementsInv, ResetFrame
  PROVE  StatementsInv'
<1> DEFINE s == Decode(wire).v
           line == Line("reset_frame", 0, NoExpr, Silent, TRUE)
<1>1. /\ Running("reset_frame") /\ status = "running" /\ values' = << >> /\ Emit(line, Words(1), "Ok", << >>)
      /\ client' = client /\ wire' = wire /\ returned' = returned
  BY DEF ResetFrame, Running
<1>2. s \in Decoded /\ Decode(wire).err = "Ok" /\ s.ix = "reset_frame"
  BY <1>1, RunningIs DEF StatementsInv, Names
<1>3. line \in Lines /\ line.ix = "reset_frame" /\ ~ FalseGuard(line)
  <2>1. line \in Lines
    BY LineTyped DEF LineKinds
  <2>2. line.ix = "reset_frame"
    BY DEF Line
  <2> HIDE DEF line
  <2> QED
    BY <2>1, <2>2 DEF FalseGuard
<1> HIDE DEF line
<1>4. status' = "running" /\ todo' = << >> /\ log' = Append(log, line)
  <2>1. HasRoom(Words(1)) /\ ~ Breaks(Words(1))
    BY StatementsAssumption DEF HasRoom, Breaks, Words
  <2> QED
    BY <1>1, <2>1 DEF Emit
<1>5. log' \in Seq(Lines) /\ True_(log', values') /\ FalseGuards(log') = {}
  <2>1. log \in Seq(Lines) /\ FalseGuards(log) = {}
    BY <1>1, NoFalseGuards DEF StatementsInv, TypeInv
  <2> QED
    BY <1>3, <1>4, <2>1, LogGrows
<1>6. Tape(values')
  BY <1>1, EmptySeq DEF Tape
<1>7. TypeInv' /\ TrueInv'
  BY <1>1, <1>4, <1>5, <1>6, StepTyped
<1>8. GuardInv'
  BY <1>1, <1>4, <1>5, StepGuards
<1>9. RunInv'
  <2> HIDE DEF s
  <2>1. << >> \in Seq(Jobs_) /\ Suffix(<< >>, Jobs(s)) /\ s.ix # "assert_multi"
    <3>1. Jobs(s) \in Seq(Jobs_)
      BY <1>2, JobsTyped
    <3>2. Len(<< >>) = 0 /\ Len(Jobs(s)) \in Nat /\ << >> \in Seq(Jobs_)
      BY <3>1, LenProperties, EmptySeq
    <3> QED
      BY <1>2, <3>2 DEF Suffix
  <2> QED
    BY <1>1, <1>2, <1>4, <2>1, RunsOn DEF s
<1>10. OnlyLeastAborts'
  BY <1>4 DEF OnlyLeastAborts
<1> QED
  BY <1>7, <1>8, <1>9, <1>10 DEF StatementsInv

-----------------------------------------------------------------------------
(* The other steps.                                                        *)

LEMMA ReturnInv ==
  ASSUME StatementsInv, Return
  PROVE  StatementsInv'
<1>1. /\ status = "running" /\ todo = << >> /\ status' = "composing" /\ wire' = << >>
      /\ client' = client /\ values' = values /\ todo' = todo /\ log' = log /\ returned' = returned
  BY DEF Return
<1>2. TypeInv'
  BY <1>1, EmptySeq DEF StatementsInv, TypeInv
<1>3. TrueInv'
  BY <1>1 DEF StatementsInv, TrueInv
<1>4. GuardInv'
  BY <1>1, NoFalseGuards, StepGuards
<1>5. RunInv' /\ OnlyLeastAborts'
  BY <1>1 DEF RunInv, OnlyLeastAborts
<1> QED
  BY <1>2, <1>3, <1>4, <1>5 DEF StatementsInv

LEMMA AdvanceInv ==
  ASSUME StatementsInv, Advance
  PROVE  StatementsInv'
<1>1. CASE Receive
  BY <1>1, ReceiveInv
<1>2. CASE Bind
  BY <1>2, BindInv
<1>3. CASE AssertOne
  BY <1>3, AssertOneInv
<1>4. CASE AssertMulti
  BY <1>4, AssertMultiInv
<1>5. CASE IfElse
  BY <1>5, IfElseInv
<1>6. CASE Invoke
  BY <1>6, InvokeInv
<1>7. CASE ResetFrame
  BY <1>7, ResetFrameInv
<1>8. CASE Return
  BY <1>8, ReturnInv
<1> QED
  BY <1>1, <1>2, <1>3, <1>4, <1>5, <1>6, <1>7, <1>8 DEF Advance

\* New instruction data.
LEMMA AfterSend ==
  ASSUME StatementsInv, status = "composing", status' = "sent", wire' \in Seq(Byte), wire' # << >>,
         UNCHANGED <<client, values, todo, log, returned>>
  PROVE  StatementsInv'
<1>1. TypeInv' /\ TrueInv'
  BY DEF StatementsInv, TypeInv, TrueInv
<1>2. GuardInv'
  BY NoFalseGuards, StepGuards
<1>3. RunInv' /\ OnlyLeastAborts'
  BY DEF RunInv, OnlyLeastAborts
<1> QED
  BY <1>1, <1>2, <1>3 DEF StatementsInv

LEMMA ClientInv ==
  ASSUME StatementsInv, Send \/ Scribble
  PROVE  StatementsInv'
<1>1. status = "composing" /\ status' = "sent" /\ UNCHANGED <<client, values, todo, log, returned>>
  BY DEF Send, Scribble, Idle
<1>2. client \in Clients
  BY DEF StatementsInv, TypeInv
<1>3. CASE Send
  <2>1. PICK s \in Written(client) : ~ Refuses(s) /\ wire' = Encode(s)
    BY <1>3 DEF Send
  <2>2. Encode(s) \in Seq(Byte) /\ Encode(s) # << >>
    BY <1>2, <2>1, WrittenIsRead
  <2> QED
    BY <1>1, <2>1, <2>2, AfterSend
<1>4. CASE Scribble
  <2>1. PICK n \in 1 .. Menu[client].strayLength : wire' \in [1 .. n -> Menu[client].stray]
    BY <1>4 DEF Scribble
  <2>2. Menu[client].stray \subseteq Byte /\ Menu[client].strayLength \in Nat
    BY <1>2, StatementsAssumption
  <2>3. n \in Nat /\ n >= 1 /\ wire' \in [1 .. n -> Byte]
    BY <2>1, <2>2
  <2>4. wire' \in Seq(Byte) /\ Len(wire') = n
    BY <2>3, SeqDef, LenProperties
  <2>5. wire' # << >>
    BY <2>3, <2>4, EmptySeq
  <2> QED
    BY <1>1, <2>4, <2>5, AfterSend
<1> QED
  BY <1>3, <1>4

LEMMA BeginInv ==
  ASSUME StatementsInv, Begin
  PROVE  StatementsInv'
<1>1. /\ client \in Clients /\ client' = client /\ values' = Menu[client].loads /\ status' = "composing"
      /\ wire' = << >> /\ todo' = << >> /\ log' = << >> /\ returned' = << >>
  BY DEF Begin, StatementsInv, TypeInv
<1>2. Tape(values')
  BY <1>1, StatementsAssumption DEF Tape
<1>3. << >> \in Seq(Byte) /\ << >> \in Seq(Lines) /\ DOMAIN << >> = {}
  BY EmptySeq
<1>4. TypeInv'
  BY <1>1, <1>2, <1>3 DEF TypeInv
<1>5. RunInv' /\ OnlyLeastAborts'
  BY <1>1 DEF RunInv, OnlyLeastAborts
<1>6. TrueInv'
  BY <1>1, <1>3 DEF TrueInv, True_, Session
<1>7. GuardInv'
  BY <1>1, <1>3 DEF GuardInv, FalseGuards
<1> QED
  BY <1>4, <1>5, <1>6, <1>7 DEF StatementsInv

LEMMA StatementsStep == StatementsInv /\ [Next]_vars => StatementsInv'
<1> SUFFICES ASSUME StatementsInv, [Next]_vars PROVE StatementsInv'
  OBVIOUS
<1>1. CASE Send \/ Scribble
  BY <1>1, ClientInv
<1>2. CASE Advance
  BY <1>2, AdvanceInv
<1>3. CASE Begin
  BY <1>3, BeginInv
<1>4. CASE UNCHANGED vars
  <2>1. UNCHANGED <<client, values, status, wire, todo, log, returned>>
    BY <1>4 DEF vars
  <2>2. TypeInv' /\ TrueInv' /\ GuardInv' /\ OnlyLeastAborts'
    BY <2>1 DEF StatementsInv, TypeInv, TrueInv, GuardInv, OnlyLeastAborts
  <2>3. RunInv'
    BY <2>1 DEF StatementsInv, RunInv, Running_
  <2> QED
    BY <2>2, <2>3 DEF StatementsInv
<1> QED
  BY <1>1, <1>2, <1>3, <1>4 DEF Next

\* The invariant of statements: the statement being run is what its bytes were
\* read as, the handler has a suffix of its jobs left, the log is true and the
\* guards passed so far hold (lib.rs, and the handlers in instructions/).
THEOREM StatementsInvariance == Spec => []StatementsInv
<1>1. Init => StatementsInv
  BY InitInv
<1>2. StatementsInv /\ [Next]_vars => StatementsInv'
  BY StatementsStep
<1> QED
  BY <1>1, <1>2, PTL DEF Spec

\* Bytes are bytes, values fit their types, and nothing is left to do when a
\* transaction has ended (execute_let and the other handlers).
THEOREM StatementsTyped == Spec => []StatementsTypeOK
<1>1. StatementsInv => StatementsTypeOK
  BY InvImplies
<1> QED
  BY <1>1, StatementsInvariance, PTL

\* What a reader of the log is told is true of the values of the Frame, and
\* stays true while more are bound (pseudocode.rs, docs/debugging.md:23).
THEOREM TheLogIsTrue == Spec => []LogIsTrue
<1>1. StatementsInv => LogIsTrue
  BY InvImplies
<1> QED
  BY <1>1, StatementsInvariance, PTL

\* A transaction goes on exactly as long as its guards hold, and the return
\* data of assert_multi is the place of the first condition that is false
\* (assert.rs, assert_multi.rs, if_else.rs).
THEOREM TheGuardsDecide == Spec => []GuardsDecide
<1>1. StatementsInv => GuardsDecide
  BY InvImplies
<1> QED
  BY <1>1, StatementsInvariance, PTL

\* Printing ends a transaction only at the least I64 or I128 (push_i64 and
\* push_i128 of pseudocode.rs, which negate the value).
THEOREM OnlyTheLeastAborts == Spec => []OnlyLeastAborts
<1>1. StatementsInv => OnlyLeastAborts
  BY InvImplies
<1> QED
  BY <1>1, StatementsInvariance, PTL

\* The bytes that the program takes for a statement are those that the SDK writes
\* for it, whoever sent them: no tag, bool, count or arm has a second spelling.
\* What follows them is not looked at, so that two instructions which differ only
\* behind the statement are read alike, although error.rs:103 names trailing
\* bytes as an error.  The readers are those of src/crates/ifx-core/src/wire/, the writers sdk/src/codec.ts.
THEOREM TheWireIsCanonical == Spec => []DecodedIsCanonical
<1>1. StatementsInv => DecodedIsCanonical
  <2>1. StatementsInv => wire \in Seq(Byte)
    BY DEF StatementsInv, TypeInv
  <2> QED
    BY <2>1, DecodeRegains DEF DecodedIsCanonical
<1> QED
  BY <1>1, StatementsInvariance, PTL

-----------------------------------------------------------------------------
(* The names of errors.                                                    *)

\* The place of an error in the enum.
Rank(n) ==
  CASE n = "LetNotTopLevel" -> 1
    [] n = "TapeOutOfBounds" -> 2
    [] n = "UnauthorizedClose" -> 3
    [] n = "InvalidAuthority" -> 4
    [] n = "InvalidTapeLen" -> 5
    [] n = "AssertFailed" -> 6
    [] n = "IfElseRevert" -> 7
    [] n = "InvalidAccountIndex" -> 8
    [] n = "InvalidAccountRange" -> 9
    [] n = "AccountDataTooShort" -> 10
    [] n = "IntegerOverflow" -> 11
    [] n = "IntegerUnderflow" -> 12
    [] n = "DivisionByZero" -> 13
    [] n = "UnsupportedBinaryOp" -> 14
    [] n = "UnsupportedUnaryOp" -> 15
    [] n = "FloatUnordered" -> 16
    [] n = "LoadTypeMismatch" -> 17
    [] n = "ExprTypeMismatch" -> 18
    [] n = "InvalidExprOperand" -> 19
    [] n = "PatchDataOutOfRange" -> 20
    [] n = "InvalidValueTypeTag" -> 21
    [] n = "InvalidValueIndex" -> 22
    [] n = "IndexCapReached" -> 23
    [] n = "AccountOwnerMismatch" -> 24
    [] n = "AccountDataLenMismatch" -> 25
    [] n = "SplTokenUnpackFailed" -> 26
    [] n = "Token2022ExtensionNotPresent" -> 27
    [] n = "SplToken2022UnpackFailed" -> 28
    [] n = "CastOverflow" -> 29
    [] n = "InvalidPatchedCpiPatches" -> 30
    [] n = "InvalidStructuredCpiProgram" -> 31
    [] n = "InvalidInstructionData" -> 32
    [] n = "StakeUnpackFailed" -> 33
    [] n = "StakeStateMismatch" -> 34
    [] n = "ResetNotTopLevel" -> 35
    [] n = "CloseNotTopLevel" -> 36
    [] n = "CreateNotTopLevel" -> 37
    [] n = "UnauthorizedFrameWrite" -> 38
    [] n = "SplMintOptionEmpty" -> 39
    [] n = "AssertFailedMulti" -> 40

LEMMA ErrorPlaces ==
  /\ DOMAIN ErrorCode = 1 .. 40
  /\ \A j, k \in 1 .. 40 : ErrorCode[j] = ErrorCode[k] => j = k
  /\ ErrorCode[40] = "AssertFailedMulti"
<1>1. DOMAIN ErrorCode = 1 .. 40
  BY DEF ErrorCode
<1>2. /\ ErrorCode[1] = "LetNotTopLevel" /\ Rank("LetNotTopLevel") = 1
      /\ ErrorCode[2] = "TapeOutOfBounds" /\ Rank("TapeOutOfBounds") = 2
      /\ ErrorCode[3] = "UnauthorizedClose" /\ Rank("UnauthorizedClose") = 3
      /\ ErrorCode[4] = "InvalidAuthority" /\ Rank("InvalidAuthority") = 4
      /\ ErrorCode[5] = "InvalidTapeLen" /\ Rank("InvalidTapeLen") = 5
  BY DEF ErrorCode, Rank
<1>3. /\ ErrorCode[6] = "AssertFailed" /\ Rank("AssertFailed") = 6
      /\ ErrorCode[7] = "IfElseRevert" /\ Rank("IfElseRevert") = 7
      /\ ErrorCode[8] = "InvalidAccountIndex" /\ Rank("InvalidAccountIndex") = 8
      /\ ErrorCode[9] = "InvalidAccountRange" /\ Rank("InvalidAccountRange") = 9
      /\ ErrorCode[10] = "AccountDataTooShort" /\ Rank("AccountDataTooShort") = 10
  BY DEF ErrorCode, Rank
<1>4. /\ ErrorCode[11] = "IntegerOverflow" /\ Rank("IntegerOverflow") = 11
      /\ ErrorCode[12] = "IntegerUnderflow" /\ Rank("IntegerUnderflow") = 12
      /\ ErrorCode[13] = "DivisionByZero" /\ Rank("DivisionByZero") = 13
      /\ ErrorCode[14] = "UnsupportedBinaryOp" /\ Rank("UnsupportedBinaryOp") = 14
      /\ ErrorCode[15] = "UnsupportedUnaryOp" /\ Rank("UnsupportedUnaryOp") = 15
  BY DEF ErrorCode, Rank
<1>5. /\ ErrorCode[16] = "FloatUnordered" /\ Rank("FloatUnordered") = 16
      /\ ErrorCode[17] = "LoadTypeMismatch" /\ Rank("LoadTypeMismatch") = 17
      /\ ErrorCode[18] = "ExprTypeMismatch" /\ Rank("ExprTypeMismatch") = 18
      /\ ErrorCode[19] = "InvalidExprOperand" /\ Rank("InvalidExprOperand") = 19
      /\ ErrorCode[20] = "PatchDataOutOfRange" /\ Rank("PatchDataOutOfRange") = 20
  BY DEF ErrorCode, Rank
<1>6. /\ ErrorCode[21] = "InvalidValueTypeTag" /\ Rank("InvalidValueTypeTag") = 21
      /\ ErrorCode[22] = "InvalidValueIndex" /\ Rank("InvalidValueIndex") = 22
      /\ ErrorCode[23] = "IndexCapReached" /\ Rank("IndexCapReached") = 23
      /\ ErrorCode[24] = "AccountOwnerMismatch" /\ Rank("AccountOwnerMismatch") = 24
      /\ ErrorCode[25] = "AccountDataLenMismatch" /\ Rank("AccountDataLenMismatch") = 25
  BY DEF ErrorCode, Rank
<1>7. /\ ErrorCode[26] = "SplTokenUnpackFailed" /\ Rank("SplTokenUnpackFailed") = 26
      /\ ErrorCode[27] = "Token2022ExtensionNotPresent" /\ Rank("Token2022ExtensionNotPresent") = 27
      /\ ErrorCode[28] = "SplToken2022UnpackFailed" /\ Rank("SplToken2022UnpackFailed") = 28
      /\ ErrorCode[29] = "CastOverflow" /\ Rank("CastOverflow") = 29
      /\ ErrorCode[30] = "InvalidPatchedCpiPatches" /\ Rank("InvalidPatchedCpiPatches") = 30
  BY DEF ErrorCode, Rank
<1>8. /\ ErrorCode[31] = "InvalidStructuredCpiProgram" /\ Rank("InvalidStructuredCpiProgram") = 31
      /\ ErrorCode[32] = "InvalidInstructionData" /\ Rank("InvalidInstructionData") = 32
      /\ ErrorCode[33] = "StakeUnpackFailed" /\ Rank("StakeUnpackFailed") = 33
      /\ ErrorCode[34] = "StakeStateMismatch" /\ Rank("StakeStateMismatch") = 34
      /\ ErrorCode[35] = "ResetNotTopLevel" /\ Rank("ResetNotTopLevel") = 35
  BY DEF ErrorCode, Rank
<1>9. /\ ErrorCode[36] = "CloseNotTopLevel" /\ Rank("CloseNotTopLevel") = 36
      /\ ErrorCode[37] = "CreateNotTopLevel" /\ Rank("CreateNotTopLevel") = 37
      /\ ErrorCode[38] = "UnauthorizedFrameWrite" /\ Rank("UnauthorizedFrameWrite") = 38
      /\ ErrorCode[39] = "SplMintOptionEmpty" /\ Rank("SplMintOptionEmpty") = 39
      /\ ErrorCode[40] = "AssertFailedMulti" /\ Rank("AssertFailedMulti") = 40
  BY DEF ErrorCode, Rank
<1>10. ASSUME NEW k \in 1 .. 40 PROVE Rank(ErrorCode[k]) = k
  <2>1. CASE k \in 1 .. 5
    <3>1. k = 1 \/ k = 2 \/ k = 3 \/ k = 4 \/ k = 5
      BY <2>1
    <3> QED
      BY <3>1, <1>2
  <2>2. CASE k \in 6 .. 10
    <3>1. k = 6 \/ k = 7 \/ k = 8 \/ k = 9 \/ k = 10
      BY <2>2
    <3> QED
      BY <3>1, <1>3
  <2>3. CASE k \in 11 .. 15
    <3>1. k = 11 \/ k = 12 \/ k = 13 \/ k = 14 \/ k = 15
      BY <2>3
    <3> QED
      BY <3>1, <1>4
  <2>4. CASE k \in 16 .. 20
    <3>1. k = 16 \/ k = 17 \/ k = 18 \/ k = 19 \/ k = 20
      BY <2>4
    <3> QED
      BY <3>1, <1>5
  <2>5. CASE k \in 21 .. 25
    <3>1. k = 21 \/ k = 22 \/ k = 23 \/ k = 24 \/ k = 25
      BY <2>5
    <3> QED
      BY <3>1, <1>6
  <2>6. CASE k \in 26 .. 30
    <3>1. k = 26 \/ k = 27 \/ k = 28 \/ k = 29 \/ k = 30
      BY <2>6
    <3> QED
      BY <3>1, <1>7
  <2>7. CASE k \in 31 .. 35
    <3>1. k = 31 \/ k = 32 \/ k = 33 \/ k = 34 \/ k = 35
      BY <2>7
    <3> QED
      BY <3>1, <1>8
  <2>8. CASE k \in 36 .. 40
    <3>1. k = 36 \/ k = 37 \/ k = 38 \/ k = 39 \/ k = 40
      BY <2>8
    <3> QED
      BY <3>1, <1>9
  <2> QED
    BY <2>1, <2>2, <2>3, <2>4, <2>5, <2>6, <2>7, <2>8
<1>11. ASSUME NEW j \in 1 .. 40, NEW k \in 1 .. 40, ErrorCode[j] = ErrorCode[k] PROVE j = k
  <2>1. Rank(ErrorCode[j]) = j /\ Rank(ErrorCode[k]) = k
    BY <1>10
  <2> QED
    BY <1>11, <2>1
<1> QED
  BY <1>1, <1>9, <1>11

\* The parsers' numbers are the program's.
LEMMA ParsedPlaces ==
  /\ Parsed = {ErrorCode[k] : k \in 1 .. 7 \cup {40}}
  /\ \A k \in 1 .. 7 \cup {40} : ifx_error_code_by_name(ErrorCode[k]) = 5999 + k
  /\ \A k \in 1 .. 40 : Code(ErrorCode[k]) = 5999 + k
<1>1. First = [k \in 1 .. 7 |-> ErrorCode[k]]
  <2>1. ErrorCode \in Seq({ErrorCode[k] : k \in 1 .. 40}) /\ Len(ErrorCode) = 40
    <3>1. Len(ErrorCode) = 40
      BY DEF ErrorCode
    <3> DEFINE S == {ErrorCode[k] : k \in 1 .. 40}
    <3>2. ErrorCode \in [1 .. 40 -> S]
      <4>1. ErrorCode = [k \in 1 .. 40 |-> ErrorCode[k]]
        BY DEF ErrorCode
      <4>2. \A k \in 1 .. 40 : ErrorCode[k] \in S
        OBVIOUS
      <4> HIDE DEF S
      <4> QED
        BY <4>1, <4>2
    <3> HIDE DEF S
    <3>3. ErrorCode \in Seq(S)
      BY <3>2, SeqDef
    <3> QED
      BY <3>1, <3>3 DEF S
  <2> QED
    BY <2>1, SubSeqProperties DEF First
<1>2. DOMAIN First = 1 .. 7 /\ \A k \in 1 .. 7 : First[k] = ErrorCode[k]
  BY <1>1
<1>3. Parsed = {ErrorCode[k] : k \in 1 .. 7 \cup {40}}
  <2>1. ToSet(First) = {ErrorCode[k] : k \in 1 .. 7}
    BY <1>2 DEF ToSet
  <2> QED
    BY <2>1, ErrorPlaces DEF Parsed
<1>4. ASSUME NEW k \in 1 .. 7 \cup {40} PROVE ifx_error_code_by_name(ErrorCode[k]) = 5999 + k
  <2>1. CASE k = 40
    BY <2>1, ErrorPlaces DEF ifx_error_code_by_name
  <2>2. CASE k \in 1 .. 7
    <3>1. ErrorCode[k] # "AssertFailedMulti"
      BY <2>2, ErrorPlaces
    <3>2. PlaceIn(First, ErrorCode[k]) = k
      <4>1. \A j \in DOMAIN First : First[j] = ErrorCode[k] <=> j = k
        BY <1>2, <2>2, ErrorPlaces
      <4> QED
        BY <1>2, <2>2, <4>1 DEF PlaceIn
    <3> QED
      BY <3>1, <3>2 DEF ifx_error_code_by_name
  <2> QED
    BY <2>1, <2>2
<1>5. ASSUME NEW k \in 1 .. 40 PROVE Code(ErrorCode[k]) = 5999 + k
  <2>1. \A j \in DOMAIN ErrorCode : ErrorCode[j] = ErrorCode[k] <=> j = k
    BY ErrorPlaces
  <2>2. k \in DOMAIN ErrorCode
    BY ErrorPlaces
  <2> QED
    BY <2>1, <2>2 DEF Code
<1> QED
  BY <1>3, <1>4, <1>5

LEMMA EveryErrorNamed ==
  ASSUME NEW k \in 1 .. 40
  PROVE  parse_custom_program_error(Code(ErrorCode[k])) = {ErrorCode[k]} \cap Parsed
<1> DEFINE K == 1 .. 7 \cup {40}
           code == Code(ErrorCode[k])
           own == {n \in Parsed : ifx_error_code_by_name(n) = code}
           alike == {n \in Parsed : ifx_error_code_by_name(n) % 256 = code % 256}
<1>1. code = 5999 + k
  BY ParsedPlaces
<1>2. parse_custom_program_error(code) = IF own # {} THEN own ELSE alike
  BY DEF parse_custom_program_error
<1> HIDE DEF code
<1>3. \A j \in K : j \in 1 .. 40 /\ ErrorCode[j] \in Parsed /\ ifx_error_code_by_name(ErrorCode[j]) = 5999 + j
  BY ParsedPlaces
<1>4. \A n \in Parsed : \E j \in K : n = ErrorCode[j]
  BY ParsedPlaces
<1> HIDE DEF K
<1>5. CASE k \in K
  <2>1. ErrorCode[k] \in Parsed /\ ifx_error_code_by_name(ErrorCode[k]) = code
    BY <1>1, <1>3, <1>5
  <2>2. ASSUME NEW n \in Parsed, ifx_error_code_by_name(n) = code PROVE n = ErrorCode[k]
    <3>1. PICK j \in K : n = ErrorCode[j]
      BY <1>4
    <3>2. 5999 + j = 5999 + k /\ j \in 1 .. 40
      BY <1>1, <1>3, <2>2, <3>1
    <3> QED
      BY <3>1, <3>2
  <2>3. own = {ErrorCode[k]} /\ {ErrorCode[k]} \cap Parsed = {ErrorCode[k]}
    BY <2>1, <2>2
  <2> HIDE DEF own, alike
  <2> QED
    BY <1>2, <2>3 DEF code
<1>6. CASE k \notin K
  <2>1. ErrorCode[k] \notin Parsed
    <3>1. SUFFICES ASSUME ErrorCode[k] \in Parsed PROVE FALSE
      OBVIOUS
    <3>2. PICK j \in K : ErrorCode[k] = ErrorCode[j]
      BY <1>4, <3>1
    <3>3. j = k
      BY <1>3, <3>2, ErrorPlaces
    <3> QED
      BY <1>6, <3>3
  <2>2. ASSUME NEW n \in Parsed PROVE ifx_error_code_by_name(n) % 256 # code % 256
    <3>1. PICK j \in K : n = ErrorCode[j]
      BY <1>4
    <3>2. j \in 1 .. 40 /\ j # k /\ ifx_error_code_by_name(n) = 5999 + j
      BY <1>3, <1>6, <3>1
    <3>3. \A i \in 1 .. 40 : (5999 + i) % 256 = 111 + i
      OBVIOUS
    <3>4. ifx_error_code_by_name(n) % 256 = 111 + j /\ code % 256 = 111 + k
      BY <1>1, <3>2, <3>3
    <3> QED
      BY <3>2, <3>4
  <2>3. own = {} /\ alike = {}
    BY <2>2
  <2> HIDE DEF own, alike
  <2> QED
    BY <1>2, <2>1, <2>3 DEF code
<1> QED
  BY <1>5, <1>6

\* A parser names the errors of its table, in full or by their low byte, and takes
\* no other error of the program for one of them (parse_logs.rs:101-165).
THEOREM TheErrorIsNamed == Spec => []ErrorIsNamed
<1>1. ErrorIsNamed
  <2>1. ASSUME NEW k \in DOMAIN ErrorCode, ErrorCode[k] = status
        PROVE  parse_custom_program_error(Code(status)) = {status} \cap Parsed
    <3>1. k \in 1 .. 40
      BY ErrorPlaces
    <3>2. parse_custom_program_error(Code(ErrorCode[k])) = {ErrorCode[k]} \cap Parsed
      BY <3>1, EveryErrorNamed
    <3> QED
      BY <2>1, <3>2
  <2> QED
    BY <2>1 DEF ErrorIsNamed
<1> QED
  BY <1>1, PTL

=============================================================================
