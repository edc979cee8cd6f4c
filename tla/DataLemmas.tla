------------------------------- MODULE DataLemmas -------------------------------
(***************************************************************************)
(* Facts about numbers and sequences that the proofs of several components *)
(* need.  Minima of sets of naturals come from WFMin, which takes a        *)
(* relation and not an operator: this is how the proofs do induction.      *)
(***************************************************************************)
EXTENDS Integers, Sequences, SequenceTheorems, WellFoundedInduction, TLAPS

\* A set of naturals that is not empty has a least element.
LEMMA NatMin ==
  ASSUME NEW T, T \subseteq Nat, T # {}
  PROVE  \E x \in T : \A y \in T : x <= y
<1> DEFINE R == OpToRel(<, Nat)
<1>1. IsWellFoundedOn(R, Nat)
  BY NatLessThanWellFounded
<1>2. \A x, y \in Nat : (<<y, x>> \in R) <=> (y < x)
  BY DEF OpToRel
<1>3. PICK x \in T : \A y \in T : ~ (<<y, x>> \in R)
  <2> HIDE DEF R
  <2> QED
    BY <1>1, WFMin
<1>4. ASSUME NEW y \in T PROVE x <= y
  <2>1. x \in Nat /\ y \in Nat
    OBVIOUS
  <2>2. ~ (y < x)
    BY <1>2, <1>3, <2>1
  <2> QED
    BY <2>1, <2>2
<1> QED
  BY <1>4

\* A bounded one has a greatest.
LEMMA NatMax ==
  ASSUME NEW T, T \subseteq Nat, T # {}, NEW m \in Nat, \A x \in T : x <= m
  PROVE  \E x \in T : \A y \in T : y <= x
<1> DEFINE U == {n \in Nat : m - n \in T}
<1>1. PICK x \in T : TRUE
  OBVIOUS
<1>2. m - x \in U
  <2>1. m - x \in Nat /\ m - (m - x) = x /\ x \in Nat
    OBVIOUS
  <2> QED
    BY <2>1
<1>3. PICK n \in U : \A k \in U : n <= k
  BY <1>2, NatMin
<1>4. m - n \in T /\ n \in Nat
  OBVIOUS
<1>5. ASSUME NEW y \in T PROVE y <= m - n
  <2>1. y \in Nat /\ y <= m
    OBVIOUS
  <2>2. m - y \in Nat /\ m - (m - y) = y
    BY <2>1
  <2>3. m - y \in U
    BY <2>1, <2>2
  <2>4. n <= m - y /\ n \in Nat
    BY <1>3, <1>4, <2>3
  <2> QED
    BY <2>1, <2>2, <2>4
<1> HIDE DEF U
<1> QED
  BY <1>4, <1>5
\* The part of a sequence of k elements that follows the m-th.
LEMMA SubSeqAt ==
  ASSUME NEW S, NEW s \in Seq(S), NEW m \in Nat, NEW k \in Nat, m + k <= Len(s)
  PROVE  LET t == SubSeq(s, m + 1, m + k)
         IN t \in Seq(S) /\ Len(t) = k /\ \A j \in 1 .. k : t[j] = s[m + j]
<1>1. \A i \in m + 1 .. m + k : i \in 1 .. Len(s)
  <2>1. Len(s) \in Nat
    BY LenProperties
  <2> QED
    BY <2>1
<1>2. \A i \in m + 1 .. m + k : s[i] \in S
  BY <1>1, ElementOfSeq
<1> DEFINE a == m + 1
           b == m + k
           t == SubSeq(s, a, b)
<1>3. a \in Int /\ b \in Int /\ b - a + 1 = k /\ (a <= b <=> k # 0)
      /\ \A j \in 1 .. k : a + j - 1 = m + j
  OBVIOUS
<1>4. \A i \in a .. b : s[i] \in S
  BY <1>2
<1> HIDE DEF a, b
<1>5. /\ t \in Seq(S) /\ Len(t) = (IF a <= b THEN b - a + 1 ELSE 0)
      /\ \A j \in 1 .. b - a + 1 : t[j] = s[a + j - 1]
  BY <1>3, <1>4, SubSeqProperties
<1>6. Len(t) = k
  BY <1>3, <1>5
<1>7. \A j \in 1 .. k : t[j] = s[m + j]
  BY <1>3, <1>5
<1> QED
  BY <1>5, <1>6, <1>7 DEF a, b

\* Appending to what is a sequence of its own elements keeps them.
LEMMA AppendShape ==
  ASSUME NEW s, Len(s) \in Nat, s = [p \in 1 .. Len(s) |-> s[p]], NEW b
  PROVE  LET t == Append(s, b)
         IN /\ Len(t) = Len(s) + 1 /\ t = [p \in 1 .. Len(t) |-> t[p]]
            /\ t[Len(s) + 1] = b
            /\ \A p \in 1 .. Len(s) : t[p] = s[p]
<1> DEFINE S == {s[p] : p \in 1 .. Len(s)} \cup {b}
           t == Append(s, b)
<1>1. s \in [1 .. Len(s) -> S]
  BY Zenon
<1>2. s \in Seq(S)
  BY <1>1, SeqDef
<1>3. /\ Len(t) = Len(s) + 1 /\ t \in Seq(S) /\ t[Len(s) + 1] = b
      /\ \A p \in 1 .. Len(s) : t[p] = s[p]
  <2> HIDE DEF S
  <2>1. b \in S
    BY DEF S
  <2> QED
    BY <1>2, <2>1, AppendProperties
<1>4. t = [p \in 1 .. Len(t) |-> t[p]]
  <2> HIDE DEF S, t
  <2> QED
    BY <1>3, LenProperties
<1> QED
  BY <1>3, <1>4

\* An element before a sequence.
LEMMA PrependProperties ==
  ASSUME NEW S, NEW e \in S, NEW s \in Seq(S)
  PROVE  LET t == <<e>> \o s
         IN /\ t \in Seq(S) /\ Len(t) = Len(s) + 1 /\ t[1] = e
            /\ \A j \in 1 .. Len(s) : t[j + 1] = s[j]
<1> DEFINE one == <<e>>
           t == one \o s
           n == Len(s)
<1>1. one \in Seq(S) /\ Len(one) = 1 /\ one[1] = e
  OBVIOUS
<1>2. n \in Nat
  BY LenProperties
<1> HIDE DEF one
<1>3. /\ t \in Seq(S) /\ Len(t) = Len(one) + n
      /\ \A i \in 1 .. Len(one) + n : t[i] = IF i <= Len(one) THEN one[i] ELSE s[i - Len(one)]
  BY <1>1, ConcatProperties
<1> HIDE DEF t, n
<1>4. /\ Len(t) = 1 + n
      /\ \A i \in 1 .. 1 + n : t[i] = IF i <= 1 THEN one[i] ELSE s[i - 1]
  BY <1>1, <1>3
<1>5. /\ 1 \in 1 .. 1 + n /\ 1 + n = n + 1 /\ 1 <= 1
      /\ \A j \in 1 .. n : j + 1 \in 1 .. 1 + n /\ ~ (j + 1 <= 1) /\ (j + 1) - 1 = j
  BY <1>2
<1>6. Len(t) = n + 1 /\ t[1] = e
  BY <1>1, <1>4, <1>5
<1>7. \A j \in 1 .. n : t[j + 1] = s[j]
  BY <1>4, <1>5
<1> QED
  BY <1>3, <1>6, <1>7 DEF t, n, one

\* Two sequences in a row.
LEMMA ConcatLayout ==
  ASSUME NEW S, NEW s \in Seq(S), NEW t \in Seq(S)
  PROVE  /\ s \o t \in Seq(S) /\ Len(s \o t) = Len(s) + Len(t)
         /\ \A k \in 1 .. Len(s) : (s \o t)[k] = s[k]
         /\ \A k \in 1 .. Len(t) : (s \o t)[Len(s) + k] = t[k]
<1> DEFINE u == s \o t
           m == Len(s)
           n == Len(t)
<1>1. m \in Nat /\ n \in Nat
  BY LenProperties
<1>2. /\ u \in Seq(S) /\ Len(u) = m + n
      /\ \A i \in 1 .. m + n : u[i] = IF i <= m THEN s[i] ELSE t[i - m]
  BY ConcatProperties
<1> HIDE DEF u, m, n
<1>3. \A k \in 1 .. m : k \in 1 .. m + n /\ k <= m
  BY <1>1
<1>4. \A k \in 1 .. n : m + k \in 1 .. m + n /\ ~ (m + k <= m) /\ (m + k) - m = k
  BY <1>1
<1>5. (\A k \in 1 .. m : u[k] = s[k]) /\ (\A k \in 1 .. n : u[m + k] = t[k])
  BY <1>2, <1>3, <1>4
<1> QED
  BY <1>2, <1>5 DEF u, m, n

\* Induction up to a bound: a set with 0 that is closed under going one up
\* has every number up to it.
LEMMA NatInduct ==
  ASSUME NEW n \in Nat, NEW P, 0 \in P, \A k \in 1 .. n : k - 1 \in P => k \in P
  PROVE  \A k \in 0 .. n : k \in P
<1> DEFINE T == {k \in 0 .. n : k \notin P}
<1>1. SUFFICES ASSUME T # {} PROVE FALSE
  OBVIOUS
<1>2. T \subseteq Nat
  OBVIOUS
<1>3. PICK m \in T : \A k \in T : m <= k
  <2> HIDE DEF T
  <2> QED
    BY <1>1, <1>2, NatMin
<1>4. m \in 0 .. n /\ m \notin P /\ m # 0
  OBVIOUS
<1>5. m \in 1 .. n /\ m - 1 \in 0 .. n /\ ~ (m <= m - 1)
  BY <1>4
<1>6. m - 1 \in P
  BY <1>3, <1>5
<1> QED
  BY <1>4, <1>5, <1>6

\* f goes n steps from init, the k-th to an element of I[k].
Iterates(f, n, I, init, step) ==
  /\ f = [k \in 0 .. n |-> f[k]] /\ f[0] = init
  /\ \A k \in 1 .. n : f[k] = step[<<k, f[k - 1]>>]
  /\ \A k \in 0 .. n : f[k] \in I[k]

\* A function that is defined by its value before has a solution.
LEMMA Iteration ==
  ASSUME NEW n \in Nat, NEW I, NEW init, init \in I[0], NEW step,
         \A k \in 1 .. n : \A u \in I[k - 1] : step[<<k, u>>] \in I[k]
  PROVE  \E f : Iterates(f, n, I, init, step)
<1> DEFINE Solves(f, m) == Iterates(f, m, I, init, step)
           P == {m \in 0 .. n : \E f : Solves(f, m)}
<1>1. 0 \in P
  <2> DEFINE f == [k \in 0 .. 0 |-> init]
  <2>1. Solves(f, 0)
    BY DEF Iterates
  <2> HIDE DEF f, Solves
  <2> QED
    BY <2>1
<1>2. ASSUME NEW m \in 1 .. n, m - 1 \in P PROVE m \in P
  <2>1. PICK g : Solves(g, m - 1)
    BY <1>2
  <2> DEFINE next == step[<<m, g[m - 1]>>]
             f == [k \in 0 .. m |-> IF k = m THEN next ELSE g[k]]
  <2>2. f[m] = next /\ f = [k \in 0 .. m |-> f[k]] /\ \A k \in 0 .. m - 1 : f[k] = g[k]
    <3> HIDE DEF next
    <3> QED
      OBVIOUS
  <2>3. 0 \in 0 .. m - 1 /\ m - 1 \in 0 .. m - 1
    OBVIOUS
  <2>4. next \in I[m]
    BY <2>1, <2>3 DEF Iterates
  <2> HIDE DEF f
  <2>5. f[0] = init
    BY <2>1, <2>2, <2>3 DEF Iterates
  <2>6. ASSUME NEW k \in 1 .. m PROVE f[k] = step[<<k, f[k - 1]>>]
    <3>1. CASE k = m
      BY <2>2, <2>3, <3>1
    <3>2. CASE k # m
      <4>1. k \in 1 .. m - 1 /\ k \in 0 .. m - 1 /\ k - 1 \in 0 .. m - 1
        BY <3>2
      <4> QED
        BY <2>1, <2>2, <4>1 DEF Iterates
    <3> QED
      BY <3>1, <3>2
  <2>7. ASSUME NEW k \in 0 .. m PROVE f[k] \in I[k]
    <3>1. CASE k = m
      BY <2>2, <2>4, <3>1
    <3>2. CASE k # m
      <4>1. k \in 0 .. m - 1
        BY <3>2
      <4> QED
        BY <2>1, <2>2, <4>1 DEF Iterates
    <3> QED
      BY <3>1, <3>2
  <2>8. Solves(f, m)
    <3> HIDE DEF next
    <3> QED
      BY <2>2, <2>5, <2>6, <2>7 DEF Iterates
  <2> HIDE DEF Solves
  <2> QED
    BY <2>8
<1>3. n \in P
  <2> HIDE DEF P
  <2>1. \A k \in 0 .. n : k \in P
    BY <1>1, <1>2, NatInduct
  <2> QED
    BY <2>1
<1> QED
  BY <1>3
=============================================================================
