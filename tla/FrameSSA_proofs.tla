---------------------------- MODULE FrameSSA_proofs ----------------------------
(***************************************************************************)
(* Lemmas about sessions, for the modules that use a Frame through         *)
(* FrameSSA, and the type correctness of FrameSSA itself.                  *)
(***************************************************************************)
EXTENDS FrameSSA, TLAPS

\* The capacity of a tape is a number of indices that the wire can name.
LEMMA CapacityBounds ==
  ASSUME NEW n \in 1 .. MaxTapeLen
  PROVE  /\ Capacity(n) \in 0 .. MaxBindingIndex
         /\ 2 * Capacity(n) <= n
BY SSAAssumption DEF Capacity

\* The fields of a session, one by one.
LEMMA SessionFields ==
  ASSUME NEW s, SessionOK(s)
  PROVE  /\ s # NoFrame
         /\ s.authority \in Key /\ s.tape_len \in 1 .. MaxTapeLen
         /\ s.generation \in 0 .. U64 - 1
         /\ s.used \in Nat /\ s.used <= s.tape_len
         /\ s.count \in Nat /\ s.count <= MaxBindingIndex /\ s.count <= Capacity(s.tape_len)
         /\ \A i \in 0 .. s.count - 1 :
              /\ s.binds[i].ty \in ValueType
              /\ s.binds[i].bytes \in Payload(s.binds[i].ty)
BY SSAAssumption, SMTT(30) DEF SessionOK, Session, Binding

\* An empty session is a session.
LEMMA NewSessionOK ==
  ASSUME NEW a \in Key, NEW n \in 1 .. MaxTapeLen, NEW g \in 0 .. U64 - 1
  PROVE  SessionOK(NewSession(a, n, g))
<1> DEFINE b == [i \in 0 .. -1 |-> NoType]
           s == NewSession(a, n, g)
<1>1. b \in [0 .. 0 - 1 -> Binding] /\ 0 \in 0 .. MaxBindingIndex /\ 0 \in 0 .. MaxTapeLen
  BY SSAAssumption
<1>2. b \in UNION { [0 .. m - 1 -> Binding] : m \in 0 .. MaxBindingIndex }
  BY <1>1
<1>3. s = [ authority |-> a, tape_len |-> n, generation |-> g, used |-> 0, count |-> 0,
            binds |-> b ]
  BY DEF NewSession
<1>4. Capacity(n) \in Nat /\ n \in Nat
  BY CapacityBounds, SSAAssumption
<1> HIDE DEF b, s
<1>5. s \in Session
  BY <1>1, <1>2, <1>3 DEF Session
<1>6. SessionOK(s)
  BY <1>1, <1>3, <1>4, <1>5 DEF SessionOK
<1> QED
  BY <1>6 DEF s

\* A binding that fits makes a session again: its value stands at the next
\* index, and every earlier one stays.
LEMMA BoundSession ==
  ASSUME NEW s, SessionOK(s), NEW ty \in ValueType, NEW bytes \in Payload(ty),
         s.count # Capacity(s.tape_len), s.used + 1 + Size[ty] <= s.tape_len
  PROVE  LET t == Bound(s, ty, bytes)
         IN /\ SessionOK(t)
            /\ t.authority = s.authority /\ t.tape_len = s.tape_len
            /\ t.count = s.count + 1 /\ t.used = s.used + 1 + Size[ty]
            /\ t.binds[s.count] = [ty |-> ty, bytes |-> bytes]
            /\ \A i \in 0 .. s.count - 1 : t.binds[i] = s.binds[i]
<1> DEFINE t == Bound(s, ty, bytes)
           n == s.count
           v == [ty |-> ty, bytes |-> bytes]
           b == [i \in 0 .. n |-> IF i = n THEN v ELSE s.binds[i]]
           u == s.used + 1 + Size[ty]
<1>1. /\ n \in Nat /\ n < Capacity(s.tape_len) /\ s.used \in Nat /\ 2 * n <= s.used
      /\ s.tape_len \in 1 .. MaxTapeLen /\ s.generation \in 0 .. U64 - 1 /\ s.authority \in Key
      /\ s.binds \in [0 .. n - 1 -> Binding]
      /\ \A i \in 0 .. n - 1 : s.binds[i].bytes \in Payload(s.binds[i].ty)
      /\ Capacity(s.tape_len) \in 0 .. MaxBindingIndex
  BY SessionFields, CapacityBounds DEF SessionOK
<1>2. Size[ty] \in Nat /\ Size[ty] >= 1 /\ MaxTapeLen \in Nat /\ MaxBindingIndex \in Nat
  BY SSAAssumption
<1>3. v \in Binding /\ v.ty = ty /\ v.bytes = bytes
  BY DEF Binding
<1> HIDE DEF v
<1>4. b \in [0 .. n -> Binding] /\ b[n] = v /\ \A i \in 0 .. n - 1 : b[i] = s.binds[i]
  BY <1>1, <1>3
<1>5. n + 1 \in 0 .. MaxBindingIndex /\ (n + 1) - 1 = n /\ u \in 0 .. MaxTapeLen
  <2> DEFINE c == Capacity(s.tape_len)
             L == s.tape_len
             z == Size[ty]
             x == s.used
  <2>1. /\ n \in Nat /\ n < c /\ c \in 0 .. MaxBindingIndex /\ MaxBindingIndex \in Nat
        /\ z \in Nat /\ x \in Nat /\ L \in 1 .. MaxTapeLen /\ MaxTapeLen \in Nat
        /\ x + 1 + z <= L
    BY <1>1, <1>2
  <2> HIDE DEF n, c, L, z, x
  <2>2. n + 1 \in 0 .. MaxBindingIndex /\ (n + 1) - 1 = n /\ x + 1 + z \in 0 .. MaxTapeLen
    BY <2>1
  <2> QED
    BY <2>2 DEF x, z
<1>6. b \in UNION { [0 .. m - 1 -> Binding] : m \in 0 .. MaxBindingIndex }
  <2> HIDE DEF b
  <2> QED
    BY <1>4, <1>5
<1>7. \A i \in 0 .. n : b[i].bytes \in Payload(b[i].ty)
  BY <1>1, <1>3, <1>4
<1>8. t = [ authority |-> s.authority, tape_len |-> s.tape_len, generation |-> s.generation,
            used |-> u, count |-> n + 1, binds |-> b ]
  BY DEF Bound, v
<1>9. 2 * (n + 1) <= u /\ u <= s.tape_len /\ n + 1 <= Capacity(s.tape_len)
  BY <1>1, <1>2, SMTT(30)
<1> HIDE DEF t, b, u
<1>10. t \in Session
  BY <1>1, <1>5, <1>6, <1>8 DEF Session
<1>11. SessionOK(t)
  BY <1>4, <1>5, <1>7, <1>8, <1>9, <1>10 DEF SessionOK
<1> QED
  BY <1>4, <1>8, <1>11 DEF t, u, v

-----------------------------------------------------------------------------
(* The steps of a transaction, each on its own.                            *)

\* A failed step takes the transaction's session back.
LEMMA FailTypes ==
  ASSUME SSATypeOK, NEW err, Fail(err)
  PROVE  SSATypeOK'
BY DEF SSATypeOK, Fail

\* A step that goes on with a session keeps the types.
LEMMA ContinueTypes ==
  ASSUME SSATypeOK, NEW s, NEW reply, Continue(s, reply), s = NoFrame \/ SessionOK(s)
  PROVE  SSATypeOK'
BY DEF SSATypeOK, Continue

LEMMA CreateTypes ==
  ASSUME SSATypeOK, NEW a \in Key, NEW n \in 1 .. MaxTapeLen, Create(a, n)
  PROVE  SSATypeOK' /\ SessionOK(session') /\ session' = NewSession(a, n, 0)
<1>1. SessionOK(NewSession(a, n, 0))
  BY NewSessionOK, SSAAssumption
<1> QED
  BY <1>1, ContinueTypes DEF Create, Continue

LEMMA ResetTypes ==
  ASSUME SSATypeOK, Reset
  PROVE  /\ SSATypeOK' /\ SessionOK(session') /\ session'.count = 0 /\ session'.used = 0
         /\ session'.authority = session.authority /\ session'.tape_len = session.tape_len
<1> DEFINE g == IF session.generation + 1 = U64 THEN 0 ELSE session.generation + 1
           s == NewSession(session.authority, session.tape_len, g)
<1>1. session.authority \in Key /\ session.tape_len \in 1 .. MaxTapeLen
      /\ session.generation \in 0 .. U64 - 1
  BY SessionFields DEF SSATypeOK, Reset, Writable
<1>2. g \in 0 .. U64 - 1
  BY <1>1, SSAAssumption
<1> HIDE DEF g
<1>3. SessionOK(s)
  BY <1>1, <1>2, NewSessionOK
<1>4. Continue(s, NoReply)
  BY DEF Reset, g
<1>5. s.count = 0 /\ s.used = 0 /\ s.authority = session.authority /\ s.tape_len = session.tape_len
  BY DEF NewSession
<1> HIDE DEF s
<1> QED
  BY <1>3, <1>4, <1>5, ContinueTypes DEF Continue

LEMMA BindTypes ==
  ASSUME SSATypeOK, NEW ty \in ValueType, NEW bytes \in Payload(ty), Bind(ty, bytes)
  PROVE  /\ SSATypeOK'
         /\ \/ Fail("IndexCapReached") /\ session.count = Capacity(session.tape_len)
            \/ Fail("TapeOutOfBounds") /\ session.used + 1 + Size[ty] > session.tape_len
            \/ /\ Continue(Bound(session, ty, bytes), ValueReply(session.count, ty, bytes))
               /\ session.count # Capacity(session.tape_len)
               /\ session.used + 1 + Size[ty] <= session.tape_len
               /\ SessionOK(session')
<1>1. SessionOK(session)
  BY DEF SSATypeOK, Bind, Writable
<1>2. CASE session.count = Capacity(session.tape_len)
  BY <1>2, FailTypes DEF Bind
<1>3. CASE /\ session.count # Capacity(session.tape_len)
           /\ session.used + 1 + Size[ty] > session.tape_len
  BY <1>3, FailTypes DEF Bind
<1>4. CASE /\ session.count # Capacity(session.tape_len)
           /\ ~ session.used + 1 + Size[ty] > session.tape_len
  <2>1. Continue(Bound(session, ty, bytes), ValueReply(session.count, ty, bytes))
    BY <1>4 DEF Bind
  <2>2. session.used \in Nat /\ session.tape_len \in Nat /\ Size[ty] \in Nat
    BY <1>1, SessionFields, SSAAssumption
  <2>3. session.used + 1 + Size[ty] <= session.tape_len
    BY <1>4, <2>2
  <2>4. SessionOK(Bound(session, ty, bytes))
    BY <1>1, <1>4, <2>3, BoundSession
  <2> QED
    BY <1>4, <2>1, <2>3, <2>4, ContinueTypes DEF Continue
<1> QED
  BY <1>2, <1>3, <1>4

LEMMA ReadTypes ==
  ASSUME SSATypeOK, NEW i, GetRaw(i) \/ \E ty \in ValueType : Get(i, ty)
  PROVE  SSATypeOK'
<1>1. (\E err : Fail(err)) \/ (\E reply : Continue(session, reply))
  BY DEF GetRaw, Get
<1> QED
  BY <1>1, FailTypes, ContinueTypes DEF SSATypeOK

\* What the users of a Frame see is well typed and within its capacity,
\* whoever writes it and whatever fails.
THEOREM SSATypeCorrect == Spec => []SSATypeOK
<1>1. Init => SSATypeOK
  BY DEF Init, SSATypeOK
<1>2. SSATypeOK /\ [Next]_vars => SSATypeOK'
  <2> SUFFICES ASSUME SSATypeOK, [Next]_vars
               PROVE  SSATypeOK'
    OBVIOUS
  <2>1. ASSUME NEW S \in SUBSET Users, Begin(S) PROVE SSATypeOK'
    BY <2>1 DEF SSATypeOK, Begin
  <2>2. CASE Commit
    BY <2>2 DEF SSATypeOK, Commit
  <2>3. ASSUME NEW err \in GuardErrors, Fail(err) PROVE SSATypeOK'
    BY <2>3, FailTypes
  <2>4. ASSUME NEW a \in Key, NEW n \in 1 .. MaxTapeLen, Create(a, n) PROVE SSATypeOK'
    BY <2>4, CreateTypes
  <2>5. CASE Close
    BY <2>5, ContinueTypes DEF Close
  <2>6. CASE Reset
    BY <2>6, ResetTypes
  <2>7. ASSUME NEW ty \in ValueType, NEW bytes \in Payload(ty), Bind(ty, bytes) PROVE SSATypeOK'
    BY <2>7, BindTypes
  <2>8. ASSUME NEW i \in 0 .. U8 - 1, GetRaw(i) \/ \E ty \in ValueType : Get(i, ty)
        PROVE  SSATypeOK'
    BY <2>8, ReadTypes
  <2>9. CASE UNCHANGED vars
    BY <2>9 DEF SSATypeOK, vars
  <2> QED
    BY <2>1, <2>2, <2>3, <2>4, <2>5, <2>6, <2>7, <2>8, <2>9 DEF Next
<1> QED
  BY <1>1, <1>2, PTL DEF Spec

=============================================================================
