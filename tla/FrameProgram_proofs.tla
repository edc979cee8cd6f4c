-------------------------- MODULE FrameProgram_proofs --------------------------
(***************************************************************************)
(* Proofs about FrameProgram and the reader of FrameNote, for every number *)
(* of types, every tape length and every set of keys that the assumptions  *)
(* of the modules allow.                                                   *)
(***************************************************************************)
EXTENDS FrameNote, TLAPS

-----------------------------------------------------------------------------
(* Operations on one Frame record.                                         *)

\* The index table is never larger than half the tape nor than the wire's limit.
LEMMA CapBounds ==
  ASSUME NEW n \in TapeLens
  PROVE  /\ index_cap_for_tape_len(n) \in 0 .. MaxBindingIndex
         /\ 2 * index_cap_for_tape_len(n) <= n
         /\ index_cap_for_tape_len(n) < MaxBindingIndex => n < 2 * (index_cap_for_tape_len(n) + 1)
BY WidthsAssumption DEF TapeLens, MinTapeLen, index_cap_for_tape_len

\* Decoding a tag gives back the type it was written for.
LEMMA TagDecodes ==
  ASSUME NEW t \in ValueType
  PROVE  IsTag(Tag[t]) /\ TypeOfTag(Tag[t]) = t
BY TypesAssumption DEF IsTag, TypeOfTag

LEMMA DecodedType ==
  ASSUME NEW b, IsTag(b)
  PROVE  TypeOfTag(b) \in ValueType /\ Tag[TypeOfTag(b)] = b
BY DEF IsTag, TypeOfTag

LEMMA RecordFields ==
  ASSUME NEW f, IsAccount(f), f # NoFrame
  PROVE  /\ f.authority \in Key
         /\ f.tape_len \in Nat /\ 1 <= f.tape_len /\ f.tape_len < U16 /\ f.tape_len \in TapeLens
         /\ f.index_cap = index_cap_for_tape_len(f.tape_len)
         /\ f.index_cap \in Nat /\ f.index_cap <= MaxBindingIndex
         /\ f.index_count \in Nat /\ f.index_count <= f.index_cap
         /\ f.cursor \in Nat /\ f.cursor <= f.tape_len
         /\ f.generation \in 0 .. U64 - 1
         /\ f.payload_at \in [0 .. f.index_cap - 1 -> 0 .. U16 - 1]
         /\ f.tape \in [0 .. f.tape_len - 1 -> Byte]
BY WidthsAssumption, SMTT(30) DEF IsAccount, FrameRecord, TapeLens, MinTapeLen

\* EXCEPT on the fields a reset writes.
LEMMA ResetFields ==
  ASSUME NEW A, NEW B, NEW C, NEW D, NEW E, NEW F, NEW G, NEW H,
         NEW f \in [ authority : A, cursor : B, index_count : C, index_cap : D,
                     generation : E, payload_at : F, tape_len : G, tape : H ],
         NEW c \in B, NEW k \in C, NEW x \in E
  PROVE  LET g == [f EXCEPT !.generation = x, !.cursor = c, !.index_count = k]
         IN /\ g \in [ authority : A, cursor : B, index_count : C, index_cap : D,
                       generation : E, payload_at : F, tape_len : G, tape : H ]
            /\ g.authority = f.authority /\ g.index_cap = f.index_cap
            /\ g.tape_len = f.tape_len /\ g.payload_at = f.payload_at /\ g.tape = f.tape
            /\ g.cursor = c /\ g.index_count = k /\ g.generation = x
OBVIOUS

\* EXCEPT on the fields an append writes.
LEMMA WrittenFields ==
  ASSUME NEW A, NEW B, NEW C, NEW D, NEW E, NEW F, NEW G, NEW H,
         NEW f \in [ authority : A, cursor : B, index_count : C, index_cap : D,
                     generation : E, payload_at : F, tape_len : G, tape : H ],
         NEW c \in B, NEW k \in C, NEW p \in F, NEW t \in H
  PROVE  LET g == [f EXCEPT !.tape = t, !.payload_at = p, !.cursor = c, !.index_count = k]
         IN /\ g \in [ authority : A, cursor : B, index_count : C, index_cap : D,
                       generation : E, payload_at : F, tape_len : G, tape : H ]
            /\ g.authority = f.authority /\ g.index_cap = f.index_cap
            /\ g.tape_len = f.tape_len /\ g.generation = f.generation
            /\ g.cursor = c /\ g.index_count = k /\ g.payload_at = p /\ g.tape = t
OBVIOUS

\* Frame::init makes an empty account.
LEMMA InitFrameAccount ==
  ASSUME NEW a \in Key, NEW n \in TapeLens
  PROVE  /\ IsAccount(InitFrame(a, n)) /\ InitFrame(a, n) # NoFrame
         /\ PackedFrame(InitFrame(a, n))
<1> DEFINE cap == index_cap_for_tape_len(n)
           p == [i \in 0 .. cap - 1 |-> 0]
           t == [o \in 0 .. n - 1 |-> 0]
           g == InitFrame(a, n)
<1>1. /\ cap \in 0 .. MaxBindingIndex /\ cap \in Nat
      /\ n \in Nat /\ n <= MaxTapeLen /\ MaxTapeLen \in Nat /\ U16 \in Nat /\ MaxTapeLen < U16
      /\ MaxBindingIndex \in Nat /\ U64 \in Nat \ {0} /\ 0 \in Byte
  BY CapBounds, WidthsAssumption, TypesAssumption DEF TapeLens, MinTapeLen
<1>2. 0 \in 0 .. U16 - 1
  BY <1>1
<1>3. p \in [0 .. cap - 1 -> 0 .. U16 - 1] /\ t \in [0 .. n - 1 -> Byte]
  BY <1>1, <1>2
<1>4. g = [ authority |-> a, cursor |-> 0, index_count |-> 0, index_cap |-> cap,
            generation |-> 0, payload_at |-> p, tape_len |-> n, tape |-> t ]
  BY DEF InitFrame
<1>5. /\ p \in UNION { [0 .. m - 1 -> 0 .. U16 - 1] : m \in 0 .. MaxBindingIndex }
      /\ t \in UNION { [0 .. m - 1 -> Byte] : m \in TapeLens }
  BY <1>1, <1>3
<1>6. 0 \in 0 .. MaxTapeLen /\ 0 \in 0 .. MaxBindingIndex /\ 0 \in 0 .. U64 - 1
  BY <1>1
<1> HIDE DEF p, t, g, cap
<1>7. g \in FrameRecord
  BY <1>1, <1>4, <1>5, <1>6 DEF FrameRecord
<1>8. /\ g.index_cap = index_cap_for_tape_len(g.tape_len)
      /\ g.payload_at \in [0 .. g.index_cap - 1 -> 0 .. U16 - 1]
      /\ g.tape \in [0 .. g.tape_len - 1 -> Byte]
      /\ g.index_count = 0 /\ g.cursor = 0 /\ g.index_count <= g.index_cap /\ g.cursor <= g.tape_len
  BY <1>1, <1>3, <1>4 DEF cap
<1>9. IsAccount(g) /\ g # NoFrame
  BY <1>7, <1>8, NoValueAssumption DEF IsAccount
<1>10. PackedFrame(g)
  BY <1>8 DEF PackedFrame
<1> QED
  BY <1>9, <1>10 DEF g

\* reset_session empties the session and keeps the account well formed.
LEMMA ResetAccount ==
  ASSUME NEW f, IsAccount(f), f # NoFrame
  PROVE  /\ IsAccount(reset_session(f)) /\ reset_session(f) # NoFrame
         /\ PackedFrame(reset_session(f))
         /\ reset_session(f).cursor = 0 /\ reset_session(f).index_count = 0
         /\ reset_session(f).generation = WrappingInc(f.generation)
         /\ reset_session(f).authority = f.authority /\ reset_session(f).tape_len = f.tape_len
<1> DEFINE x == WrappingInc(f.generation)
           g == reset_session(f)
           PA == UNION { [0 .. m - 1 -> 0 .. U16 - 1] : m \in 0 .. MaxBindingIndex }
           TA == UNION { [0 .. m - 1 -> Byte] : m \in TapeLens }
<1>1. x \in 0 .. U64 - 1
  BY RecordFields, WidthsAssumption DEF WrappingInc
<1>2. 0 \in 0 .. MaxTapeLen /\ 0 \in 0 .. MaxBindingIndex
  BY WidthsAssumption
<1>3. g = [f EXCEPT !.generation = x, !.cursor = 0, !.index_count = 0]
  BY DEF reset_session
<1>4. f \in [ authority : Key, cursor : 0 .. MaxTapeLen, index_count : 0 .. MaxBindingIndex,
              index_cap : 0 .. MaxBindingIndex, generation : 0 .. U64 - 1,
              payload_at : PA, tape_len : TapeLens, tape : TA ]
  BY DEF IsAccount, FrameRecord
<1> HIDE DEF x, g, PA, TA
<1>5. /\ g \in [ authority : Key, cursor : 0 .. MaxTapeLen, index_count : 0 .. MaxBindingIndex,
                 index_cap : 0 .. MaxBindingIndex, generation : 0 .. U64 - 1,
                 payload_at : PA, tape_len : TapeLens, tape : TA ]
      /\ g.authority = f.authority /\ g.index_cap = f.index_cap
      /\ g.tape_len = f.tape_len /\ g.payload_at = f.payload_at /\ g.tape = f.tape
      /\ g.cursor = 0 /\ g.index_count = 0 /\ g.generation = x
  BY <1>1, <1>2, <1>3, <1>4, ResetFields
<1>6. g \in FrameRecord
  BY <1>5 DEF FrameRecord, PA, TA
<1>7. IsAccount(g) /\ g # NoFrame
  BY <1>5, <1>6, RecordFields, NoValueAssumption DEF IsAccount
<1>8. PackedFrame(g)
  BY <1>5 DEF PackedFrame
<1> QED
  BY <1>5, <1>7, <1>8 DEF g, x

\* What append_value computes, field by field, when it succeeds.
LEMMA AppendFields ==
  ASSUME NEW f, IsAccount(f), f # NoFrame,
         NEW ty \in ValueType, NEW bytes \in Payload(ty),
         AppendOutcome(f, ty) = "Ok"
  PROVE  LET g == append_value(f, ty, bytes)
             n == f.index_count
             c == f.cursor
         IN /\ IsAccount(g) /\ g # NoFrame
            /\ g.authority = f.authority /\ g.tape_len = f.tape_len
            /\ g.generation = f.generation
            /\ n < f.index_cap /\ g.index_count = n + 1
            /\ g.cursor = c + 1 + Size[ty] /\ g.cursor <= f.tape_len
            /\ g.payload_at[n] = c + 1
            /\ \A i \in 0 .. n - 1 : g.payload_at[i] = f.payload_at[i]
            /\ g.tape[c] = Tag[ty]
            /\ \A k \in 1 .. Size[ty] : g.tape[c + k] = bytes[k]
            /\ \A o \in 0 .. c - 1 : g.tape[o] = f.tape[o]
<1> DEFINE g == append_value(f, ty, bytes)
           n == f.index_count
           c == f.cursor
           L == f.tape_len
           p == [f.payload_at EXCEPT ![n] = plan_payload_offset(c) % U16]
           t == WriteRecord(f.tape, c, ty, bytes)
           PA == UNION { [0 .. m - 1 -> 0 .. U16 - 1] : m \in 0 .. MaxBindingIndex }
           TA == UNION { [0 .. m - 1 -> Byte] : m \in TapeLens }
<1>1. /\ n \in Nat /\ c \in Nat /\ L \in Nat /\ L < U16 /\ U16 \in Nat /\ U8 \in Nat
      /\ Size[ty] \in Nat \ {0} /\ f.index_cap \in Nat /\ f.index_cap <= MaxBindingIndex
      /\ MaxBindingIndex \in Nat /\ L <= MaxTapeLen /\ MaxTapeLen \in Nat /\ Tag[ty] \in Byte
  BY RecordFields, TypesAssumption, WidthsAssumption DEF TapeLens, MinTapeLen
<1>2. n < f.index_cap /\ c + 1 + Size[ty] <= L
  BY <1>1 DEF AppendOutcome, RecordEnd, plan_payload_offset
<1>3. plan_payload_offset(c) % U16 = c + 1 /\ c + 1 \in 0 .. U16 - 1
  BY <1>1, <1>2 DEF plan_payload_offset
<1>4. f.payload_at \in [0 .. f.index_cap - 1 -> 0 .. U16 - 1] /\ f.tape \in [0 .. L - 1 -> Byte]
  BY RecordFields
<1>5. /\ p \in [0 .. f.index_cap - 1 -> 0 .. U16 - 1]
      /\ p[n] = c + 1
      /\ \A i \in 0 .. n - 1 : p[i] = f.payload_at[i]
  <2>1. p = [f.payload_at EXCEPT ![n] = c + 1]
    BY <1>3
  <2>2. n \in 0 .. f.index_cap - 1 /\ \A i \in 0 .. n - 1 : i \in 0 .. f.index_cap - 1 /\ i # n
    BY <1>1, <1>2
  <2> HIDE DEF p
  <2> QED
    BY <1>3, <1>4, <2>1, <2>2
<1>6. t = [o \in 0 .. L - 1 |-> IF o = c THEN Tag[ty]
                                ELSE IF o \in c + 1 .. c + Size[ty] THEN bytes[o - c]
                                ELSE f.tape[o]]
  <2>1. DOMAIN f.tape = 0 .. L - 1
    BY <1>4
  <2>2. \A o \in 0 .. L - 1 : o - (c + 1) + 1 = o - c
    BY <1>1
  <2>3. c + 1 + Size[ty] - 1 = c + Size[ty]
    BY <1>1
  <2> QED
    BY <2>1, <2>2, <2>3 DEF WriteRecord, plan_payload_offset
<1>7. \A o \in c + 1 .. c + Size[ty] : bytes[o - c] \in Byte
  BY <1>1 DEF Payload
<1>8. t \in [0 .. L - 1 -> Byte]
  BY <1>1, <1>4, <1>6, <1>7
<1>9. t[c] = Tag[ty] /\ \A o \in 0 .. c - 1 : t[o] = f.tape[o]
  BY <1>1, <1>2, <1>6
<1>10. \A k \in 1 .. Size[ty] : t[c + k] = bytes[k]
  <2> TAKE k \in 1 .. Size[ty]
  <2>1. c + k \in 0 .. L - 1 /\ c + k # c /\ c + k \in c + 1 .. c + Size[ty] /\ (c + k) - c = k
    BY <1>1, <1>2
  <2> QED
    BY <1>6, <2>1
<1>11. g = [f EXCEPT !.tape = t, !.payload_at = p, !.cursor = RecordEnd(c, ty),
                     !.index_count = n + 1]
  BY DEF append_value
<1>12. RecordEnd(c, ty) = c + 1 + Size[ty]
  BY DEF RecordEnd, plan_payload_offset
<1>13. f \in [ authority : Key, cursor : 0 .. MaxTapeLen, index_count : 0 .. MaxBindingIndex,
               index_cap : 0 .. MaxBindingIndex, generation : 0 .. U64 - 1,
               payload_at : PA, tape_len : TapeLens, tape : TA ]
       /\ f.index_cap = index_cap_for_tape_len(f.tape_len)
  BY DEF IsAccount, FrameRecord
<1> DEFINE e == c + 1 + Size[ty]
           m == n + 1
<1>14. e \in 0 .. MaxTapeLen /\ m \in 0 .. MaxBindingIndex /\ p \in PA /\ t \in TA
  <2>1. e \in 0 .. MaxTapeLen /\ m \in 0 .. MaxBindingIndex /\ f.index_cap \in 0 .. MaxBindingIndex
    BY <1>1, <1>2
  <2>2. L \in TapeLens
    BY RecordFields
  <2> HIDE DEF p, t
  <2> QED
    BY <2>1, <2>2, <1>5, <1>8
<1>15. e <= L /\ m <= f.index_cap
  BY <1>1, <1>2
<1> HIDE DEF p, t, g, PA, TA, e, m
<1>16. /\ g \in [ authority : Key, cursor : 0 .. MaxTapeLen, index_count : 0 .. MaxBindingIndex,
                  index_cap : 0 .. MaxBindingIndex, generation : 0 .. U64 - 1,
                  payload_at : PA, tape_len : TapeLens, tape : TA ]
       /\ g.authority = f.authority /\ g.index_cap = f.index_cap
       /\ g.tape_len = f.tape_len /\ g.generation = f.generation
       /\ g.cursor = e /\ g.index_count = m /\ g.payload_at = p /\ g.tape = t
  <2>1. g = [f EXCEPT !.tape = t, !.payload_at = p, !.cursor = e, !.index_count = m]
    BY <1>11, <1>12 DEF e, m
  <2> QED
    BY <2>1, <1>13, <1>14, WrittenFields
<1>17. g \in FrameRecord
  BY <1>16 DEF FrameRecord, PA, TA
<1>18. IsAccount(g) /\ g # NoFrame
  BY <1>5, <1>8, <1>13, <1>15, <1>16, <1>17, NoValueAssumption DEF IsAccount
<1> QED
  BY <1>2, <1>5, <1>9, <1>10, <1>16, <1>18 DEF g, e, m

\* An append neither moves, nor retypes, nor changes the bytes of a live
\* binding, and the new binding reads back as what was appended.
LEMMA AppendKeepsBindings ==
  ASSUME NEW f, IsAccount(f), f # NoFrame, PackedFrame(f),
         NEW ty \in ValueType, NEW bytes \in Payload(ty),
         AppendOutcome(f, ty) = "Ok"
  PROVE  LET g == append_value(f, ty, bytes)
             n == f.index_count
         IN /\ \A i \in 0 .. n - 1 : StoredType(g, i) = StoredType(f, i)
            /\ \A i \in 0 .. n - 1 : BindingOf(g, i) = BindingOf(f, i)
            /\ StoredType(g, n) = ty
            /\ BindingOf(g, n) = [ty |-> ty, bytes |-> bytes]
            /\ IsTag(g.tape[g.payload_at[n] - 1])
<1> DEFINE g == append_value(f, ty, bytes)
           n == f.index_count
           c == f.cursor
<1>1. /\ g.payload_at[n] = c + 1 /\ g.tape[c] = Tag[ty] /\ c \in Nat /\ n \in Nat
      /\ \A i \in 0 .. n - 1 : g.payload_at[i] = f.payload_at[i]
      /\ \A k \in 1 .. Size[ty] : g.tape[c + k] = bytes[k]
      /\ \A o \in 0 .. c - 1 : g.tape[o] = f.tape[o]
      /\ f.index_cap \in Nat /\ n <= f.index_cap
      /\ f.payload_at \in [0 .. f.index_cap - 1 -> 0 .. U16 - 1]
  BY AppendFields, RecordFields
<1> HIDE DEF g
<1>2. ASSUME NEW i \in 0 .. n - 1
      PROVE  StoredType(g, i) = StoredType(f, i) /\ BindingOf(g, i) = BindingOf(f, i)
  <2> DEFINE q == f.payload_at[i]
             s == Size[StoredType(f, i)]
  <2>1. IsTag(f.tape[q - 1]) /\ q >= 1 /\ q + s <= c
    BY DEF PackedFrame
  <2>2. q \in Nat /\ s \in Nat \ {0}
    <3>1. q \in Nat
      BY <1>1, WidthsAssumption
    <3>2. StoredType(f, i) \in ValueType
      BY <2>1, DecodedType DEF StoredType
    <3> QED
      BY <3>1, <3>2, TypesAssumption
  <2>3. g.payload_at[i] = q
    BY <1>1
  <2>4. q - 1 \in 0 .. c - 1 /\ \A k \in 1 .. s : q + k - 1 \in 0 .. c - 1
    <3>1. c \in Nat
      BY <1>1
    <3> HIDE DEF q, s, c
    <3> QED
      BY <2>1, <2>2, <3>1
  <2>5. StoredType(g, i) = StoredType(f, i)
    BY <2>3, <2>4, <1>1 DEF StoredType
  <2>6. ReadBytes(g, i, StoredType(f, i)) = ReadBytes(f, i, StoredType(f, i))
    BY <2>3, <2>4, <1>1 DEF ReadBytes
  <2> QED
    BY <2>5, <2>6 DEF BindingOf
<1>3. (c + 1) - 1 = c /\ \A k \in 1 .. Size[ty] : (c + 1) + k - 1 = c + k
  <2> DEFINE s == Size[ty]
  <2>1. c \in Nat /\ s \in Nat
    BY <1>1, TypesAssumption
  <2> HIDE DEF c, s
  <2>2. (c + 1) - 1 = c /\ \A k \in 1 .. s : (c + 1) + k - 1 = c + k
    BY <2>1
  <2> QED
    BY <2>2 DEF s
<1>4. g.tape[g.payload_at[n] - 1] = Tag[ty]
  BY <1>1, <1>3
<1>5. StoredType(g, n) = ty /\ IsTag(g.tape[g.payload_at[n] - 1])
  BY <1>4, TagDecodes DEF StoredType
<1>6. ReadBytes(g, n, ty) = bytes
  <2>1. ReadBytes(g, n, ty) = [k \in 1 .. Size[ty] |-> bytes[k]]
    BY <1>1, <1>3 DEF ReadBytes
  <2> QED
    BY <2>1 DEF Payload
<1>7. BindingOf(g, n) = [ty |-> ty, bytes |-> bytes]
  BY <1>5, <1>6 DEF BindingOf
<1> QED
  BY <1>2, <1>5, <1>7 DEF g

\* An append keeps the tape packed.
LEMMA AppendPacked ==
  ASSUME NEW f, IsAccount(f), f # NoFrame, PackedFrame(f),
         NEW ty \in ValueType, NEW bytes \in Payload(ty),
         AppendOutcome(f, ty) = "Ok"
  PROVE  PackedFrame(append_value(f, ty, bytes))
<1> DEFINE g == append_value(f, ty, bytes)
           n == f.index_count
           c == f.cursor
           EndF(i) == f.payload_at[i] + Size[StoredType(f, i)]
           EndG(i) == g.payload_at[i] + Size[StoredType(g, i)]
<1>1. /\ g.index_count = n + 1 /\ g.cursor = c + 1 + Size[ty] /\ c \in Nat /\ n \in Nat
      /\ g.payload_at[n] = c + 1 /\ Size[ty] \in Nat \ {0}
      /\ \A i \in 0 .. n - 1 : g.payload_at[i] = f.payload_at[i]
      /\ \A o \in 0 .. c - 1 : g.tape[o] = f.tape[o]
  BY AppendFields, RecordFields, TypesAssumption
<1>2. /\ \A i \in 0 .. n - 1 : StoredType(g, i) = StoredType(f, i)
      /\ StoredType(g, n) = ty /\ IsTag(g.tape[g.payload_at[n] - 1])
  BY AppendKeepsBindings
<1>3. /\ \A i \in 0 .. n - 1 : f.payload_at[i] >= 1 /\ IsTag(f.tape[f.payload_at[i] - 1]) /\ EndF(i) <= c
      /\ \A i, j \in 0 .. n - 1 : i < j => EndF(i) < f.payload_at[j]
      /\ \A i \in 0 .. n - 2 : f.payload_at[i + 1] = EndF(i) + 1
      /\ n = 0 => c = 0
      /\ n > 0 => f.payload_at[0] = 1 /\ c = EndF(n - 1)
      /\ c >= 2 * n
  BY DEF PackedFrame
<1>4. \A i \in 0 .. n - 1 : f.payload_at[i] \in Nat /\ EndF(i) \in Nat /\ f.payload_at[i] - 1 \in 0 .. c - 1
  <2> TAKE i \in 0 .. n - 1
  <2>1. f.payload_at[i] \in Nat
    <3>1. /\ f.payload_at \in [0 .. f.index_cap - 1 -> 0 .. U16 - 1]
          /\ f.index_cap \in Nat /\ n <= f.index_cap /\ U16 \in Nat
      BY RecordFields, WidthsAssumption
    <3>2. i \in 0 .. f.index_cap - 1
      BY <3>1, <1>1
    <3> QED
      BY <3>1, <3>2
  <2>2. StoredType(f, i) \in ValueType
    BY <1>3, DecodedType DEF StoredType
  <2>3. Size[StoredType(f, i)] \in Nat \ {0}
    BY <2>2, TypesAssumption
  <2> QED
    BY <2>1, <2>3, <1>1, <1>3
<1>5. \A i \in 0 .. n - 1 : EndG(i) = EndF(i)
  BY <1>1, <1>2
<1>6. EndG(n) = c + 1 + Size[ty]
  BY <1>1, <1>2
<1> HIDE DEF g, EndF, EndG
<1>7. \A i \in 0 .. n : g.payload_at[i] >= 1 /\ IsTag(g.tape[g.payload_at[i] - 1]) /\ EndG(i) <= g.cursor
  <2> TAKE i \in 0 .. n
  <2>1. CASE i = n
    BY <2>1, <1>1, <1>2, <1>6
  <2>2. CASE i \in 0 .. n - 1
    <3>1. g.tape[g.payload_at[i] - 1] = f.tape[f.payload_at[i] - 1]
      BY <2>2, <1>1, <1>4
    <3> QED
      BY <2>2, <3>1, <1>1, <1>3, <1>4, <1>5
  <2> QED
    BY <2>1, <2>2, <1>1
<1>8. \A i, j \in 0 .. n : i < j => EndG(i) < g.payload_at[j]
  <2> SUFFICES ASSUME NEW i \in 0 .. n, NEW j \in 0 .. n, i < j
               PROVE  EndG(i) < g.payload_at[j]
    OBVIOUS
  <2>1. i \in 0 .. n - 1 /\ EndG(i) = EndF(i) /\ EndF(i) <= c /\ EndF(i) \in Nat
    BY <1>1, <1>3, <1>4, <1>5
  <2>2. CASE j = n
    BY <2>1, <2>2, <1>1
  <2>3. CASE j \in 0 .. n - 1
    BY <2>1, <2>3, <1>1, <1>3
  <2> QED
    BY <2>2, <2>3, <1>1
<1>9. \A i \in 0 .. n - 1 : g.payload_at[i + 1] = EndG(i) + 1
  <2> TAKE i \in 0 .. n - 1
  <2>1. CASE i = n - 1
    BY <2>1, <1>1, <1>3, <1>5
  <2>2. CASE i \in 0 .. n - 2
    BY <2>2, <1>1, <1>3, <1>5
  <2> QED
    BY <2>1, <2>2, <1>1
<1>10. g.payload_at[0] = 1
  BY <1>1, <1>3
<1>11. g.cursor = EndG(n) /\ g.cursor >= 2 * (n + 1)
  BY <1>1, <1>3, <1>6
<1>12. (n + 1) - 1 = n /\ (n + 1) - 2 = n - 1 /\ n + 1 # 0
  BY <1>1
<1> QED
  BY <1>1, <1>7, <1>8, <1>9, <1>10, <1>11, <1>12 DEF PackedFrame, EndG, g

-----------------------------------------------------------------------------
(* Replies.                                                                *)

LEMMA Replies ==
  /\ IsReply(NoReply)
  /\ \A err \in Errors : IsReply(ErrorReply(err))
  /\ \A i \in Index, ty \in ValueType : \A bytes \in Payload(ty) : IsReply(ValueReply(i, ty, bytes))
  /\ NoReply.err = "Ok" /\ \A err : ErrorReply(err).err = err
  /\ \A i, ty, bytes : ValueReply(i, ty, bytes).err = "Ok"
<1>1. IsReply(NoReply) /\ NoReply.err = "Ok"
  BY DEF IsReply, NoReply
<1>4. ASSUME NEW err
      PROVE  ErrorReply(err).err = err
  BY DEF ErrorReply, NoReply
<1>5. ASSUME NEW i, NEW ty, NEW bytes
      PROVE  ValueReply(i, ty, bytes).err = "Ok"
  BY DEF ValueReply
<1>2. ASSUME NEW err \in Errors
      PROVE  IsReply(ErrorReply(err))
  <2>1. ErrorReply(err) = [err |-> err, index |-> 0, ty |-> NoType, bytes |-> <<>>]
    BY DEF ErrorReply, NoReply
  <2> QED
    BY <2>1 DEF IsReply
<1>3. ASSUME NEW i \in Index, NEW ty \in ValueType, NEW bytes \in Payload(ty)
      PROVE  IsReply(ValueReply(i, ty, bytes))
  BY DEF IsReply, ValueReply
<1> QED
  BY <1>1, <1>2, <1>3, <1>4, <1>5

\* A failed check of an append or of a read is one of the known errors.
LEMMA OutcomeErrors ==
  ASSUME NEW f, NEW i, NEW ty
  PROVE  /\ AppendOutcome(f, ty) \in Errors \cup {"Ok"}
         /\ ReadTypeOutcome(f, i) \in Errors \cup {"Ok"}
         /\ ReadOutcome(f, i, ty) \in Errors \cup {"Ok"}
BY DEF Errors, AppendOutcome, ReadTypeOutcome, ReadOutcome

\* On a packed Frame every live index reads back as its stored type, and
\* nothing but its type can be refused.
LEMMA LiveReads ==
  ASSUME NEW f, IsAccount(f), f # NoFrame, PackedFrame(f), NEW i \in Index
  PROVE  /\ i >= f.index_count => ReadTypeOutcome(f, i) = "InvalidValueIndex"
         /\ i < f.index_count =>
              /\ ReadTypeOutcome(f, i) = "Ok"
              /\ StoredType(f, i) \in ValueType
              /\ ReadBytes(f, i, StoredType(f, i)) \in Payload(StoredType(f, i))
              /\ \A ty : ReadOutcome(f, i, ty) =
                            IF StoredType(f, i) = ty THEN "Ok" ELSE "LoadTypeMismatch"
<1>1. CASE i >= f.index_count
  BY <1>1, RecordFields, WidthsAssumption DEF ReadTypeOutcome, Index
<1>2. CASE i < f.index_count
  <2> DEFINE q == f.payload_at[i]
             s == Size[StoredType(f, i)]
             L == f.tape_len
             c == f.cursor
             n == f.index_count
  <2>1. /\ i \in Nat /\ n \in Nat /\ f.index_cap \in Nat /\ n <= f.index_cap
        /\ f.payload_at \in [0 .. f.index_cap - 1 -> 0 .. U16 - 1]
        /\ f.tape \in [0 .. L - 1 -> Byte] /\ U16 \in Nat
        /\ c \in Nat /\ L \in Nat /\ c <= L
    BY RecordFields, WidthsAssumption DEF Index
  <2>2. i \in 0 .. n - 1 /\ i \in 0 .. f.index_cap - 1
    BY <1>2, <2>1
  <2>3. q >= 1 /\ IsTag(f.tape[q - 1]) /\ q + s <= c
    BY <2>2 DEF PackedFrame
  <2>4. q \in Nat
    BY <2>1, <2>2
  <2>5. StoredType(f, i) \in ValueType
    BY <2>3, DecodedType DEF StoredType
  <2>6. s \in Nat \ {0}
    BY <2>5, TypesAssumption
  <2>7. ReadTypeOutcome(f, i) = "Ok"
    <3>1. ~ (i >= n) /\ ~ (q < 1) /\ ~ (q - 1 >= L)
      <4>1. i < n
        BY <1>2
      <4> HIDE DEF q, s, L, c, n
      <4> QED
        BY <4>1, <2>1, <2>3, <2>4, <2>6
    <3> QED
      BY <3>1, <2>3 DEF ReadTypeOutcome
  <2>8. ReadBytes(f, i, StoredType(f, i)) \in Payload(StoredType(f, i))
    <3>1. \A k \in 1 .. s : q + k - 1 \in 0 .. L - 1
      <4> HIDE DEF q, s, L, c, n
      <4> QED
        BY <2>1, <2>3, <2>4, <2>6
    <3>2. \A k \in 1 .. s : f.tape[q + k - 1] \in Byte
      BY <2>1, <3>1
    <3> QED
      BY <3>2 DEF ReadBytes, Payload
  <2>9. ASSUME NEW ty
        PROVE  ReadOutcome(f, i, ty) = IF StoredType(f, i) = ty THEN "Ok" ELSE "LoadTypeMismatch"
    <3>1. CASE StoredType(f, i) = ty
      <4>1. ~ (q + Size[ty] > L)
        <5>1. ~ (q + s > L)
          <6> HIDE DEF q, s, L, c, n
          <6> QED
            BY <2>1, <2>3, <2>4, <2>6
        <5> QED
          BY <5>1, <3>1
      <4> QED
        BY <4>1, <3>1, <2>7 DEF ReadOutcome
    <3>2. CASE StoredType(f, i) # ty
      BY <3>2, <2>7 DEF ReadOutcome
    <3> QED
      BY <3>1, <3>2
  <2> QED
    BY <1>2, <2>1, <2>5, <2>7, <2>8, <2>9
<1> QED
  BY <1>1, <1>2, RecordFields, WidthsAssumption DEF Index

-----------------------------------------------------------------------------
(* Descent of a Frame from the committed one.                              *)

LEMMA ExtendsItself ==
  ASSUME NEW f, IsAccount(f), f # NoFrame
  PROVE  Extends(f, f)
BY RecordFields DEF Extends

LEMMA DescendsItself ==
  ASSUME NEW f, IsAccount(f), f # NoFrame
  PROVE  Descends(f, f, 0)
<1>1. Wrapped(f.generation, 0) = f.generation
  BY RecordFields, WidthsAssumption DEF Wrapped
<1> QED
  BY <1>1, ExtendsItself DEF Descends

LEMMA ResetDescends ==
  ASSUME NEW l, IsAccount(l), l # NoFrame,
         NEW f, IsAccount(f), f # NoFrame,
         NEW r \in Nat, r + 1 < U64, Descends(f, l, r)
  PROVE  Descends(reset_session(f), l, r + 1)
<1> DEFINE g == l.generation
           h == f.generation
<1>1. /\ g \in 0 .. U64 - 1 /\ U64 \in Nat \ {0} /\ h = Wrapped(g, r)
  BY RecordFields, WidthsAssumption DEF Descends
<1>2. WrappingInc(h) = Wrapped(g, r + 1)
  <2> HIDE DEF g, h
  <2> QED
    BY <1>1 DEF WrappingInc, Wrapped
<1>3. r + 1 # 0
  OBVIOUS
<1> QED
  BY <1>2, <1>3, ResetAccount DEF Descends

LEMMA AppendDescends ==
  ASSUME NEW l, IsAccount(l), l # NoFrame,
         NEW f, IsAccount(f), f # NoFrame, PackedFrame(f),
         NEW ty \in ValueType, NEW bytes \in Payload(ty), AppendOutcome(f, ty) = "Ok",
         NEW r, Descends(f, l, r)
  PROVE  Descends(append_value(f, ty, bytes), l, r)
<1> DEFINE g == append_value(f, ty, bytes)
<1>1. /\ g.authority = f.authority /\ g.tape_len = f.tape_len /\ g.generation = f.generation
      /\ g.index_count = f.index_count + 1
      /\ \A i \in 0 .. f.index_count - 1 : BindingOf(g, i) = BindingOf(f, i)
  BY AppendFields, AppendKeepsBindings, ZenonT(40)
<1>2. f.index_count \in Nat /\ l.index_count \in Nat
  BY RecordFields
<1> HIDE DEF g
<1>3. ASSUME Extends(f, l)
      PROVE  Extends(g, l)
  <2>1. l.index_count <= f.index_count /\ \A i \in 0 .. l.index_count - 1 : BindingOf(f, i) = BindingOf(l, i)
    BY <1>3 DEF Extends
  <2>2. \A i \in 0 .. l.index_count - 1 : i \in 0 .. f.index_count - 1
    BY <1>2, <2>1
  <2> QED
    BY <1>1, <1>2, <2>1, <2>2 DEF Extends
<1> QED
  BY <1>1, <1>3 DEF Descends, g

-----------------------------------------------------------------------------
(* The invariant.                                                          *)

LEMMA InitInv == Init => IInv
<1> SUFFICES ASSUME Init PROVE IInv
  OBVIOUS
<1>1. TypeOK
  BY Replies, KeysAssumption DEF Init, TypeOK, IsAccount
<1>2. Packed /\ TxOK /\ Lineage
  BY DEF Init, Packed, TxOK, Lineage
<1> QED
  BY <1>1, <1>2 DEF IInv

\* A failed transaction leaves the committed account.
LEMMA AbortInv ==
  ASSUME IInv, NEW err \in Errors, Abort(err)
  PROVE  IInv'
<1>1. TypeOK'
  BY Replies, KeysAssumption DEF IInv, Abort, TypeOK
<1>2. Packed' /\ TxOK' /\ Lineage'
  BY DEF IInv, Packed, TxOK, Lineage, Abort
<1> QED
  BY <1>1, <1>2 DEF IInv

\* A successful step: what it must establish.
LEMMA StepInv ==
  ASSUME IInv, NEW f, NEW reply, NEW p, Runs(p), Step(f, reply),
         IsAccount(f), f # NoFrame => PackedFrame(f), IsReply(reply), reply.err = "Ok",
         pc # "idle",
         pc = "let" => f # NoFrame /\ f.authority = frame.authority,
         Lineage'
  PROVE  IInv'
<1>1. TypeOK'
  <2>1. steps' \in 0 .. MaxIxPerTx
    BY KeysAssumption DEF IInv, TypeOK, Runs, Step
  <2> QED
    BY <2>1 DEF IInv, TypeOK, Step
<1>2. Packed'
  BY DEF IInv, Packed, Step
<1>3. TxOK'
  BY DEF IInv, TxOK, Step, Private
<1> QED
  BY <1>1, <1>2, <1>3 DEF IInv

LEMMA BeginInv ==
  ASSUME IInv, NEW S \in SUBSET Users, Begin(S)
  PROVE  IInv'
<1>1. TypeOK'
  BY Replies, KeysAssumption DEF IInv, Begin, TypeOK
<1>2. Packed' /\ TxOK'
  BY Replies DEF IInv, Packed, TxOK, Begin
<1>3. Lineage'
  <2>1. frame = ledger /\ IsAccount(ledger)
    BY DEF IInv, TxOK, TypeOK, Begin
  <2>2. 0 \in 0 .. steps'
    BY DEF Begin
  <2>3. ledger # NoFrame => Descends(frame, ledger, 0)
    BY <2>1, DescendsItself
  <2>4. frame' = frame /\ ledger' = ledger
    BY DEF Begin
  <2> QED
    BY <2>1, <2>2, <2>3, <2>4 DEF Lineage
<1> QED
  BY <1>1, <1>2, <1>3 DEF IInv

LEMMA CommitInv ==
  ASSUME IInv, Commit
  PROVE  IInv'
<1>1. TypeOK'
  BY Replies, KeysAssumption DEF IInv, Commit, TypeOK
<1>2. Packed' /\ TxOK' /\ Lineage'
  BY DEF IInv, Packed, TxOK, Lineage, Commit
<1> QED
  BY <1>1, <1>2 DEF IInv

LEMMA CreateInv ==
  ASSUME IInv, NEW h \in Heights, NEW a \in Key, NEW n, CreateFrame(h, a, n)
  PROVE  IInv'
<1>1. CASE \E err \in Errors : Abort(err)
  BY <1>1, AbortInv
<1>2. CASE /\ Payer \in signers /\ n \in TapeLens /\ frame = NoFrame
           /\ Step(InitFrame(a, n), NoReply)
  <2>1. pc = "ix"
    BY DEF CreateFrame, Runs
  <2>2. Lineage'
    BY <1>2 DEF IInv, Lineage, Step
  <2>3. IsAccount(InitFrame(a, n)) /\ PackedFrame(InitFrame(a, n))
    BY <1>2, InitFrameAccount
  <2> QED
    BY <1>2, <2>1, <2>2, <2>3, StepInv, Replies DEF CreateFrame
<1> QED
  BY <1>1, <1>2 DEF CreateFrame, Errors

LEMMA CloseInv ==
  ASSUME IInv, NEW h \in Heights, NEW k \in Key, CloseFrame(h, k)
  PROVE  IInv'
<1>1. CASE \E err \in Errors : Abort(err)
  BY <1>1, AbortInv
<1>2. CASE k \in signers /\ frame # NoFrame /\ k = frame.authority /\ Step(NoFrame, NoReply)
  <2>1. pc = "ix"
    BY DEF CloseFrame, Runs
  <2>2. Lineage'
    BY <1>2, <2>1 DEF IInv, Lineage, Step, Descends
  <2>3. IsAccount(NoFrame)
    BY DEF IsAccount
  <2> QED
    BY <1>2, <2>1, <2>2, <2>3, StepInv, Replies DEF CloseFrame
<1> QED
  BY <1>1, <1>2 DEF CloseFrame, Errors

\* A step count is far below the values of a generation.
LEMMA StepBound ==
  ASSUME IInv, NEW p, Runs(p)
  PROVE  \A r \in 0 .. steps : r \in Nat /\ r + 1 < U64 /\ r \in 0 .. steps + 1 /\ r + 1 \in 0 .. steps + 1
BY KeysAssumption, WidthsAssumption DEF IInv, TypeOK, Runs

LEMMA ResetInv ==
  ASSUME IInv, NEW h \in Heights, NEW k, ResetFrame(h, k)
  PROVE  IInv'
<1>1. CASE \E err \in Errors : Abort(err)
  BY <1>1, AbortInv
<1>2. CASE frame # NoFrame /\ WriteAuthorized(k) /\ Step(reset_session(frame), NoReply)
  <2>1. pc = "ix" /\ IsAccount(frame) /\ IsAccount(ledger)
    BY DEF ResetFrame, Runs, IInv, TypeOK
  <2>2. ASSUME NEW r \in 0 .. steps, ledger # NoFrame, Descends(frame, ledger, r)
        PROVE  r + 1 \in 0 .. steps + 1 /\ Descends(reset_session(frame), ledger, r + 1)
    BY <1>2, <2>1, <2>2, StepBound, ResetDescends DEF ResetFrame
  <2>3. reset_session(frame) # NoFrame
    BY <1>2, <2>1, ResetAccount
  <2>4. Lineage'
    <3>1. /\ frame' = reset_session(frame) /\ steps' = steps + 1
          /\ ledger' = ledger /\ signers' = signers /\ pc' = pc
      BY <1>2 DEF Step
    <3>2. Lineage
      BY DEF IInv
    <3>3. (Private(ledger) /\ ledger.authority \notin signers) => frame # ledger
      BY <1>2 DEF WriteAuthorized
    <3> QED
      BY <1>2, <2>1, <2>2, <2>3, <3>1, <3>2, <3>3 DEF Lineage, Private
  <2>5. IsAccount(reset_session(frame)) /\ PackedFrame(reset_session(frame))
    BY <1>2, <2>1, ResetAccount
  <2> QED
    BY <1>2, <2>1, <2>4, <2>5, StepInv, Replies DEF ResetFrame
<1> QED
  BY <1>1, <1>2 DEF ResetFrame, Errors

LEMMA LetEnterInv ==
  ASSUME IInv, NEW h \in Heights, NEW k, LetEnter(h, k)
  PROVE  IInv'
<1>1. CASE \E err \in Errors : Abort(err)
  BY <1>1, AbortInv
<1>2. CASE /\ frame # NoFrame /\ WriteAuthorized(k) /\ pc' = "let"
           /\ UNCHANGED <<ledger, frame, signers, steps, ret>>
  <2>1. pc = "ix"
    BY DEF LetEnter, Runs
  <2> QED
    BY <1>2, <2>1 DEF IInv, TypeOK, Packed, TxOK, Lineage, WriteAuthorized
<1> QED
  BY <1>1, <1>2 DEF LetEnter, Errors

LEMMA LetBindingInv ==
  ASSUME IInv, NEW ty \in ValueType, NEW bytes \in Payload(ty), LetBinding(ty, bytes)
  PROVE  IInv'
<1>1. CASE AppendOutcome(frame, ty) # "Ok"
  BY <1>1, AbortInv, OutcomeErrors DEF LetBinding
<1>2. CASE AppendOutcome(frame, ty) = "Ok"
  <2> DEFINE g == append_value(frame, ty, bytes)
             reply == ValueReply(frame.index_count, ty, bytes)
  <2>1. /\ pc = "let" /\ frame # NoFrame /\ IsAccount(frame) /\ IsAccount(ledger) /\ PackedFrame(frame)
        /\ Private(frame) => frame.authority \in signers
    BY DEF LetBinding, Runs, IInv, TypeOK, TxOK, Packed
  <2>2. Step(g, reply)
    BY <1>2 DEF LetBinding
  <2>3. IsAccount(g) /\ g # NoFrame /\ g.authority = frame.authority
    BY <1>2, <2>1, AppendFields
  <2>4. PackedFrame(g)
    BY <1>2, <2>1, AppendPacked
  <2>5. frame.index_count \in Index
    BY <1>2, <2>1, RecordFields, WidthsAssumption DEF AppendOutcome, Index
  <2>6. IsReply(reply) /\ reply.err = "Ok"
    BY <2>5, Replies
  <2> HIDE DEF reply
  <2>7. ASSUME NEW r \in 0 .. steps, ledger # NoFrame, Descends(frame, ledger, r)
        PROVE  r \in 0 .. steps + 1 /\ Descends(g, ledger, r)
    BY <1>2, <2>1, <2>7, StepBound, AppendDescends DEF LetBinding
  <2> HIDE DEF g
  <2>8. Lineage'
    <3>1. /\ frame' = g /\ steps' = steps + 1
          /\ ledger' = ledger /\ signers' = signers /\ pc' = pc
      BY <2>2 DEF Step
    <3>2. Lineage
      BY DEF IInv
    <3> QED
      BY <2>1, <2>3, <2>7, <3>1, <3>2 DEF Lineage, Private
  <2> QED
    BY <2>1, <2>2, <2>3, <2>4, <2>6, <2>8, StepInv DEF LetBinding
<1> QED
  BY <1>1, <1>2

LEMMA LetReturnInv ==
  ASSUME IInv, LetReturn
  PROVE  IInv'
BY DEF LetReturn, IInv, TypeOK, Packed, TxOK, Lineage

\* A read that answers leaves the account as it is.
LEMMA ReadInv ==
  ASSUME IInv, NEW p \in {"ix", "let"}, Runs(p), NEW reply, IsReply(reply), reply.err = "Ok",
         frame # NoFrame, Step(frame, reply)
  PROVE  IInv'
<1>1. IsAccount(frame) /\ PackedFrame(frame) /\ pc # "idle"
  BY DEF IInv, TypeOK, Packed, Runs
<1>2. \A r \in 0 .. steps : r \in 0 .. steps + 1
  BY StepBound
<1>3. Lineage'
  BY <1>1, <1>2 DEF Step, IInv, Lineage
<1> QED
  BY <1>1, <1>3, StepInv

LEMMA ReadValueInv ==
  ASSUME IInv, NEW p \in {"ix", "let"}, NEW i \in Index, NEW ty \in ValueType, ReadValue(p, i, ty)
  PROVE  IInv'
<1>1. CASE \E err \in Errors : Abort(err)
  BY <1>1, AbortInv
<1>2. CASE /\ frame # NoFrame /\ ReadOutcome(frame, i, ty) = "Ok"
           /\ Step(frame, ValueReply(i, ty, ReadBytes(frame, i, ty)))
  <2>1. IsAccount(frame) /\ PackedFrame(frame)
    BY <1>2 DEF IInv, TypeOK, Packed
  <2>2. i < frame.index_count
    BY <1>2, <2>1, RecordFields DEF ReadOutcome, ReadTypeOutcome, Index
  <2>3. StoredType(frame, i) = ty /\ ReadBytes(frame, i, ty) \in Payload(ty)
    BY <1>2, <2>1, <2>2, LiveReads
  <2> QED
    BY <1>2, <2>3, ReadInv, Replies DEF ReadValue
<1> QED
  BY <1>1, <1>2, OutcomeErrors DEF ReadValue, Errors

LEMMA ReadRawInv ==
  ASSUME IInv, NEW i \in Index, ReadRaw(i)
  PROVE  IInv'
<1> DEFINE ty == StoredType(frame, i)
<1>1. CASE \E err \in Errors : Abort(err)
  BY <1>1, AbortInv
<1>2. CASE /\ frame # NoFrame /\ ReadTypeOutcome(frame, i) = "Ok"
           /\ Step(frame, ValueReply(i, ty, ReadBytes(frame, i, ty)))
  <2>1. IsAccount(frame) /\ PackedFrame(frame)
    BY <1>2 DEF IInv, TypeOK, Packed
  <2>2. i < frame.index_count
    BY <1>2, <2>1, RecordFields DEF ReadTypeOutcome, Index
  <2>3. ty \in ValueType /\ ReadBytes(frame, i, ty) \in Payload(ty)
    BY <1>2, <2>1, <2>2, LiveReads
  <2> QED
    BY <1>2, <2>3, ReadInv, Replies DEF ReadRaw
<1> QED
  BY <1>1, <1>2, OutcomeErrors DEF ReadRaw, Errors

LEMMA StutterInv ==
  ASSUME IInv, UNCHANGED vars
  PROVE  IInv'
BY DEF vars, IInv, TypeOK, Packed, TxOK, Lineage

LEMMA NextInv ==
  ASSUME IInv, [Next]_vars
  PROVE  IInv'
<1>1. CASE \E S \in SUBSET Users : Begin(S)
  BY <1>1, BeginInv
<1>2. CASE Commit
  BY <1>2, CommitInv
<1>3. CASE CallerFails
  BY <1>3, AbortInv DEF CallerFails, Errors
<1>4. CASE Create
  BY <1>4, CreateInv DEF Create
<1>5. CASE Close
  BY <1>5, CloseInv DEF Close
<1>6. CASE Reset
  BY <1>6, ResetInv DEF Reset
<1>7. CASE Let
  BY <1>7, LetEnterInv, LetBindingInv, LetReturnInv DEF Let
<1>8. CASE Read
  BY <1>8, ReadValueInv, ReadRawInv DEF Read
<1>9. CASE UNCHANGED vars
  BY <1>9, StutterInv
<1> QED
  BY <1>1, <1>2, <1>3, <1>4, <1>5, <1>6, <1>7, <1>8, <1>9 DEF Next

-----------------------------------------------------------------------------
(* The invariants, for every value of the constants.                       *)

\* The inductive invariant holds in every reachable state.
THEOREM Invariance == Spec => []IInv
<1>1. Init => IInv
  BY InitInv
<1>2. IInv /\ [Next]_vars => IInv'
  BY NextInv
<1> QED
  BY <1>1, <1>2, PTL DEF Spec

\* The account, the control state and the replies keep their types.
THEOREM TypeCorrect == Spec => []TypeOK
<1>1. IInv => TypeOK
  BY DEF IInv
<1> QED
  BY <1>1, Invariance, PTL

\* The live records of a tape are contiguous and decode, whatever old bytes
\* the lazy resets left in it.
THEOREM TapesPacked == Spec => []Packed
<1>1. IInv => Packed
  BY DEF IInv
<1> QED
  BY <1>1, Invariance, PTL

\* A transaction the authority did not sign leaves a private Frame alone and
\* can only reset or extend a public one.
THEOREM ForeignTxsBounded == Spec => []ForeignTxBounded
<1>1. IInv => ForeignTxBounded
  <2> SUFFICES ASSUME IInv, ledger # NoFrame, pc # "idle", ledger.authority \notin signers
               PROVE  ForeignEffect(ledger, frame)
    BY DEF ForeignTxBounded
  <2>1. Private(ledger) => frame = ledger
    BY DEF IInv, Lineage
  <2>2. PICK r \in 0 .. steps : frame # NoFrame /\ Descends(frame, ledger, r)
    BY DEF IInv, Lineage
  <2>3. frame.generation = ledger.generation => r = 0
    <3>1. r \in Nat /\ r < U64
      BY KeysAssumption, WidthsAssumption DEF IInv, TypeOK
    <3>2. ledger.generation \in 0 .. U64 - 1 /\ U64 \in Nat
      BY RecordFields, WidthsAssumption DEF IInv, TypeOK
    <3>3. frame.generation = Wrapped(ledger.generation, r)
      BY <2>2 DEF Descends
    <3> QED
      BY <3>1, <3>2, <3>3 DEF Wrapped
  <2> QED
    BY <2>1, <2>2, <2>3 DEF ForeignEffect, Descends
<1> QED
  BY <1>1, Invariance, PTL

\* The table of indices is full only when the wire has no index left or the
\* tape has no room for a record.
LEMMA FullTable ==
  ASSUME NEW f, IsAccount(f), f # NoFrame, PackedFrame(f),
         NEW ty, AppendOutcome(f, ty) = "IndexCapReached"
  PROVE  f.index_count = f.index_cap /\ (f.index_count = MaxBindingIndex \/ f.tape_len - f.cursor < 2)
<1> DEFINE n == f.index_count
           c == f.cursor
           L == f.tape_len
           cap == f.index_cap
<1>1. /\ n \in Nat /\ c \in Nat /\ L \in Nat /\ cap \in Nat
      /\ n <= cap /\ cap <= MaxBindingIndex /\ MaxBindingIndex \in Nat /\ U8 \in Nat
      /\ MaxBindingIndex <= U8
  BY RecordFields, WidthsAssumption
<1>2. cap < MaxBindingIndex => L < 2 * (cap + 1)
  BY RecordFields, CapBounds
<1>3. c >= 2 * n
  BY DEF PackedFrame
<1>4. n >= cap \/ n >= U8
  BY DEF AppendOutcome
<1> HIDE DEF n, c, L, cap
<1>5. n = cap /\ (n = MaxBindingIndex \/ L - c < 2)
  BY <1>1, <1>2, <1>3, <1>4
<1> QED
  BY <1>5 DEF n, c, L, cap

\* index_cap_for_tape_len never wastes tape.
THEOREM CapsHonest == Spec => CapHonest
<1> DEFINE Honest == (pc = "let" /\ ret'.err = "IndexCapReached")
                       => \/ frame.index_count = MaxBindingIndex
                          \/ frame.tape_len - frame.cursor < 2
<1>1. IInv /\ [Next]_vars => [Honest]_vars
  <2> SUFFICES ASSUME IInv, Next, pc = "let", ret'.err = "IndexCapReached"
               PROVE  \/ frame.index_count = MaxBindingIndex
                      \/ frame.tape_len - frame.cursor < 2
    OBVIOUS
  <2>1. IsAccount(frame) /\ frame # NoFrame /\ PackedFrame(frame) /\ ret.err = "Ok"
    BY DEF IInv, TypeOK, Packed, TxOK
  <2>2. CASE \E ty \in ValueType : \E bytes \in Payload(ty) : LetBinding(ty, bytes)
    <3>1. PICK ty \in ValueType : \E bytes \in Payload(ty) : LetBinding(ty, bytes)
      BY <2>2
    <3>2. AppendOutcome(frame, ty) = "IndexCapReached"
      BY <3>1, Replies DEF LetBinding, Abort, Step
    <3> QED
      BY <2>1, <3>2, FullTable
  <2>3. CASE \E p \in {"ix", "let"}, i \in Index, ty \in ValueType : ReadValue(p, i, ty)
    <3>1. \A i, ty : ReadOutcome(frame, i, ty) # "IndexCapReached"
      BY DEF ReadOutcome, ReadTypeOutcome
    <3> QED
      BY <2>1, <2>3, <3>1, Replies DEF ReadValue, Abort, Step
  <2>4. CASE LetReturn
    BY <2>1, <2>4 DEF LetReturn
  <2> QED
    BY <2>2, <2>3, <2>4 DEF Next, Begin, Commit, CallerFails, Create, CreateFrame, Close,
       CloseFrame, Reset, ResetFrame, Let, LetEnter, Read, ReadRaw, Runs
<1> QED
  BY <1>1, Invariance, PTL DEF Spec, CapHonest

-----------------------------------------------------------------------------
(* FrameProgram implements FrameSSA.                                       *)

\* Two sessions with the same fields and the same bindings are equal.
LEMMA SessionOfFields ==
  ASSUME NEW f, f # NoFrame,
         NEW a, NEW l, NEW g, NEW u, NEW n, NEW b,
         f.authority = a, f.tape_len = l, f.generation = g, f.cursor = u, f.index_count = n,
         b = [i \in 0 .. n - 1 |-> BindingOf(f, i)]
  PROVE  SessionOf(f) = [ authority |-> a, tape_len |-> l, generation |-> g,
                          used |-> u, count |-> n, binds |-> b ]
BY DEF SessionOf

LEMMA EmptySession ==
  ASSUME NEW f, f # NoFrame, f.cursor = 0, f.index_count = 0
  PROVE  SessionOf(f) = SSA!NewSession(f.authority, f.tape_len, f.generation)
<1> DEFINE b == [i \in 0 .. -1 |-> NoType]
<1>1. b = [i \in 0 .. 0 - 1 |-> BindingOf(f, i)]
  OBVIOUS
<1> HIDE DEF b
<1>2. SessionOf(f) = [ authority |-> f.authority, tape_len |-> f.tape_len,
                       generation |-> f.generation, used |-> 0, count |-> 0, binds |-> b ]
  BY <1>1, SessionOfFields, ZenonT(40)
<1> QED
  BY <1>2 DEF SSA!NewSession, b

LEMMA AppendedSession ==
  ASSUME NEW f, IsAccount(f), f # NoFrame, PackedFrame(f),
         NEW ty \in ValueType, NEW bytes \in Payload(ty),
         AppendOutcome(f, ty) = "Ok"
  PROVE  SessionOf(append_value(f, ty, bytes)) = SSA!Bound(SessionOf(f), ty, bytes)
<1> DEFINE g == append_value(f, ty, bytes)
           n == f.index_count
           old == [i \in 0 .. n - 1 |-> BindingOf(f, i)]
           new == [i \in 0 .. n |-> IF i = n THEN [ty |-> ty, bytes |-> bytes] ELSE old[i]]
<1>1. /\ g # NoFrame /\ g.authority = f.authority /\ g.tape_len = f.tape_len
      /\ g.generation = f.generation /\ g.index_count = n + 1 /\ g.cursor = f.cursor + 1 + Size[ty]
  BY AppendFields
<1>2. /\ \A i \in 0 .. n - 1 : BindingOf(g, i) = BindingOf(f, i)
      /\ BindingOf(g, n) = [ty |-> ty, bytes |-> bytes]
  BY AppendKeepsBindings
<1>3. n \in Nat /\ (n + 1) - 1 = n
  BY RecordFields
<1> HIDE DEF g
<1>4. new = [i \in 0 .. (n + 1) - 1 |-> BindingOf(g, i)]
  BY <1>2, <1>3
<1> HIDE DEF new
<1>5. SessionOf(g) = [ authority |-> f.authority, tape_len |-> f.tape_len,
                       generation |-> f.generation, used |-> f.cursor + 1 + Size[ty],
                       count |-> n + 1, binds |-> new ]
  BY <1>1, <1>4, SessionOfFields
<1>6. SessionOf(f) = [ authority |-> f.authority, tape_len |-> f.tape_len,
                       generation |-> f.generation, used |-> f.cursor,
                       count |-> n, binds |-> old ]
  BY DEF SessionOf
<1> QED
  BY <1>5, <1>6 DEF SSA!Bound, new, g

LEMMA SessionExists ==
  ASSUME NEW f, IsAccount(f), f # NoFrame, PackedFrame(f)
  PROVE  SessionOf(f) \in SessionRecord /\ SessionOf(f) # NoFrame
<1> DEFINE n == f.index_count
           B == [ty : ValueType, bytes : UNION { Payload(t) : t \in ValueType }]
           b == [i \in 0 .. n - 1 |-> BindingOf(f, i)]
<1>1. /\ n \in Nat /\ n \in 0 .. MaxBindingIndex /\ f.cursor \in 0 .. MaxTapeLen
      /\ \A i \in 0 .. n - 1 : i \in Index /\ i < n
  BY RecordFields, WidthsAssumption DEF Index, TapeLens, MinTapeLen
<1>2. ASSUME NEW i \in 0 .. n - 1
      PROVE  BindingOf(f, i) \in B
  BY <1>1, LiveReads DEF BindingOf
<1>3. b \in [0 .. n - 1 -> B]
  BY <1>2
<1>4. SessionOf(f) = [ authority |-> f.authority, tape_len |-> f.tape_len,
                       generation |-> f.generation, used |-> f.cursor, count |-> n, binds |-> b ]
  BY DEF SessionOf
<1> HIDE DEF b
<1>5. SessionOf(f) \in SessionRecord
  BY <1>1, <1>3, <1>4, RecordFields DEF SessionRecord
<1> QED
  BY <1>5, NoSessionAssumption

\* What the abstract session shows of a Frame.
LEMMA SessionFields ==
  ASSUME NEW f, f # NoFrame
  PROVE  /\ SessionOf(f).authority = f.authority /\ SessionOf(f).tape_len = f.tape_len
         /\ SessionOf(f).generation = f.generation
         /\ SessionOf(f).used = f.cursor /\ SessionOf(f).count = f.index_count
         /\ \A i \in 0 .. f.index_count - 1 :
              /\ SessionOf(f).binds[i].ty = StoredType(f, i)
              /\ SessionOf(f).binds[i].bytes = ReadBytes(f, i, StoredType(f, i))
BY DEF SessionOf, BindingOf

LEMMA NoSession == SessionOf(NoFrame) = NoFrame
BY DEF SessionOf

\* The facts every step of the refinement uses.
LEMMA SessionState ==
  ASSUME IInv
  PROVE  /\ SessionOf(frame) = NoFrame <=> frame = NoFrame
         /\ frame # NoFrame => IsAccount(frame) /\ PackedFrame(frame)
BY SessionExists, NoSession DEF IInv, TypeOK, Packed

LEMMA SameReplies ==
  /\ SSA!NoReply = NoReply
  /\ \A err : SSA!ErrorReply(err) = ErrorReply(err)
  /\ \A i, ty, bytes : SSA!ValueReply(i, ty, bytes) = ValueReply(i, ty, bytes)
BY DEF SSA!NoReply, NoReply, SSA!ErrorReply, ErrorReply, SSA!ValueReply, ValueReply

\* An error is the failure of the abstract transaction.
LEMMA AbortFails ==
  ASSUME NEW err, pc # "idle", Abort(err)
  PROVE  SSA!Fail(err)
BY SameReplies DEF Abort, SSA!Fail

\* A successful step continues the abstract transaction.
LEMMA StepContinues ==
  ASSUME NEW f, NEW reply, pc # "idle", Step(f, reply)
  PROVE  SSA!Continue(SessionOf(f), reply)
BY DEF Step, SSA!Continue

LEMMA GuardFails ==
  ASSUME NEW err \in SSA!GuardErrors, pc # "idle", Abort(err)
  PROVE  SSA!Next
BY AbortFails DEF SSA!Next

LEMMA CreateRefines ==
  ASSUME IInv, NEW h \in Heights, NEW a \in Key, NEW n, CreateFrame(h, a, n)
  PROVE  SSA!Next
<1>0. pc # "idle"
  BY DEF CreateFrame, Runs
<1>1. CASE \E err \in SSA!GuardErrors : Abort(err)
  BY <1>0, <1>1, GuardFails
<1>2. CASE /\ Payer \in signers /\ n \in TapeLens /\ frame = NoFrame /\ a # DefaultKey
           /\ Step(InitFrame(a, n), NoReply)
  <2>1. /\ InitFrame(a, n) # NoFrame /\ InitFrame(a, n).cursor = 0 /\ InitFrame(a, n).index_count = 0
        /\ InitFrame(a, n).authority = a /\ InitFrame(a, n).tape_len = n
        /\ InitFrame(a, n).generation = 0
    BY <1>2, InitFrameAccount DEF InitFrame
  <2>2. SessionOf(InitFrame(a, n)) = SSA!NewSession(a, n, 0)
    BY <2>1, EmptySession
  <2>3. SSA!Continue(SSA!NewSession(a, n, 0), SSA!NoReply)
    BY <1>0, <1>2, <2>2, StepContinues, SameReplies
  <2>4. SSA!Create(a, n) /\ n \in 1 .. MaxTapeLen
    BY <1>2, <2>3, NoSession DEF SSA!Create, TapeLens, MinTapeLen
  <2> QED
    BY <2>4 DEF SSA!Next
<1> QED
  BY <1>1, <1>2 DEF CreateFrame, SSA!GuardErrors

LEMMA CloseRefines ==
  ASSUME IInv, NEW h \in Heights, NEW k \in Key, CloseFrame(h, k)
  PROVE  SSA!Next
<1>0. pc # "idle"
  BY DEF CloseFrame, Runs
<1>1. CASE \E err \in SSA!GuardErrors : Abort(err)
  BY <1>0, <1>1, GuardFails
<1>2. CASE k \in signers /\ frame # NoFrame /\ k = frame.authority /\ Step(NoFrame, NoReply)
  <2>1. SSA!Continue(NoFrame, SSA!NoReply)
    BY <1>0, <1>2, StepContinues, NoSession, SameReplies
  <2>2. SSA!Close
    BY <1>2, <2>1, SessionState, SessionFields DEF SSA!Close
  <2> QED
    BY <2>2 DEF SSA!Next
<1> QED
  BY <1>1, <1>2 DEF CloseFrame, SSA!GuardErrors

LEMMA ResetRefines ==
  ASSUME IInv, NEW h \in Heights, NEW k, ResetFrame(h, k)
  PROVE  SSA!Next
<1>0. pc # "idle"
  BY DEF ResetFrame, Runs
<1>1. CASE \E err \in SSA!GuardErrors : Abort(err)
  BY <1>0, <1>1, GuardFails
<1>2. CASE frame # NoFrame /\ WriteAuthorized(k) /\ Step(reset_session(frame), NoReply)
  <2> DEFINE g == reset_session(frame)
  <2>1. /\ g # NoFrame /\ g.cursor = 0 /\ g.index_count = 0 /\ g.authority = frame.authority
        /\ g.tape_len = frame.tape_len /\ g.generation = WrappingInc(frame.generation)
    BY <1>2, SessionState, ResetAccount
  <2> HIDE DEF g
  <2>2. SessionOf(g) = SSA!NewSession(frame.authority, frame.tape_len, WrappingInc(frame.generation))
    BY <2>1, EmptySession
  <2>3. SSA!Continue(SessionOf(g), SSA!NoReply)
    BY <1>0, <1>2, StepContinues, SameReplies DEF g
  <2>4. SSA!Writable
    BY <1>2, SessionState, SessionFields DEF SSA!Writable, WriteAuthorized, Private
  <2>5. SSA!Reset
    BY <1>2, <2>2, <2>3, <2>4, SessionFields DEF SSA!Reset, WrappingInc
  <2> QED
    BY <2>5 DEF SSA!Next
<1> QED
  BY <1>1, <1>2 DEF ResetFrame, SSA!GuardErrors

LEMMA LetEnterRefines ==
  ASSUME IInv, NEW h \in Heights, NEW k, LetEnter(h, k)
  PROVE  SSA!Next \/ UNCHANGED SSA!vars
<1>0. pc = "ix"
  BY DEF LetEnter, Runs
<1>1. CASE \E err \in SSA!GuardErrors : Abort(err)
  BY <1>0, <1>1, GuardFails
<1>2. CASE pc' = "let" /\ UNCHANGED <<ledger, frame, signers, steps, ret>>
  BY <1>0, <1>2 DEF SSA!vars
<1> QED
  BY <1>1, <1>2 DEF LetEnter, SSA!GuardErrors

LEMMA LetBindingRefines ==
  ASSUME IInv, NEW ty \in ValueType, NEW bytes \in Payload(ty), LetBinding(ty, bytes)
  PROVE  SSA!Next
<1> DEFINE f == frame
           s == SessionOf(frame)
<1>1. /\ pc # "idle" /\ f # NoFrame /\ IsAccount(f) /\ PackedFrame(f)
      /\ Private(f) => f.authority \in signers
  BY SessionState DEF IInv, LetBinding, Runs, TxOK
<1>2. /\ s # NoFrame /\ s.count = f.index_count /\ s.used = f.cursor
      /\ s.tape_len = f.tape_len /\ s.authority = f.authority
  BY <1>1, SessionState, SessionFields
<1>3. SSA!Writable
  BY <1>1, <1>2 DEF SSA!Writable, Private
<1>4. SSA!Capacity(s.tape_len) = f.index_cap
  BY <1>1, <1>2, RecordFields DEF SSA!Capacity, index_cap_for_tape_len
<1>5. /\ f.index_count \in Nat /\ f.index_cap \in Nat /\ f.index_count <= f.index_cap
      /\ f.index_cap <= MaxBindingIndex /\ MaxBindingIndex <= U8 /\ MaxBindingIndex \in Nat /\ U8 \in Nat
      /\ f.cursor \in Nat /\ Size[ty] \in Nat
  BY <1>1, RecordFields, WidthsAssumption, TypesAssumption
<1>6. SSA!Bind(ty, bytes)
  <2>1. CASE AppendOutcome(f, ty) = "IndexCapReached"
    <3>1. f.index_count = f.index_cap
      BY <1>1, <2>1, FullTable
    <3>2. SSA!Fail("IndexCapReached")
      BY <1>1, <2>1, AbortFails DEF LetBinding
    <3> QED
      BY <1>2, <1>3, <1>4, <3>1, <3>2 DEF SSA!Bind
  <2>2. CASE AppendOutcome(f, ty) = "TapeOutOfBounds"
    <3>1. f.index_count # f.index_cap /\ f.cursor + 1 + Size[ty] > f.tape_len
      BY <1>5, <2>2 DEF AppendOutcome, RecordEnd, plan_payload_offset
    <3>2. SSA!Fail("TapeOutOfBounds")
      BY <1>1, <2>2, AbortFails DEF LetBinding
    <3> QED
      BY <1>2, <1>3, <1>4, <3>1, <3>2 DEF SSA!Bind
  <2>3. CASE AppendOutcome(f, ty) = "Ok"
    <3>1. f.index_count # f.index_cap /\ ~ (f.cursor + 1 + Size[ty] > f.tape_len)
      BY <1>5, <2>3 DEF AppendOutcome, RecordEnd, plan_payload_offset
    <3>2. SSA!Continue(SessionOf(append_value(f, ty, bytes)), ValueReply(f.index_count, ty, bytes))
      BY <1>1, <2>3, StepContinues DEF LetBinding
    <3>3. SessionOf(append_value(f, ty, bytes)) = SSA!Bound(s, ty, bytes)
      BY <1>1, <2>3, AppendedSession
    <3>4. SSA!Continue(SSA!Bound(s, ty, bytes), SSA!ValueReply(s.count, ty, bytes))
      BY <1>2, <3>2, <3>3, SameReplies
    <3> QED
      BY <1>2, <1>3, <1>4, <3>1, <3>4 DEF SSA!Bind
  <2> QED
    BY <2>1, <2>2, <2>3 DEF AppendOutcome
<1>7. bytes \in SSA!Payload(ty)
  BY DEF SSA!Payload, Payload
<1> QED
  BY <1>6, <1>7 DEF SSA!Next

\* A read by ReadValue or ReadRaw is a read of the abstract session.
LEMMA ReadValueRefines ==
  ASSUME IInv, NEW p \in {"ix", "let"}, NEW i \in Index, NEW ty \in ValueType, ReadValue(p, i, ty)
  PROVE  SSA!Next
<1> DEFINE s == SessionOf(frame)
<1>0. pc # "idle"
  BY DEF ReadValue, Runs
<1>1. CASE frame = NoFrame
  BY <1>0, <1>1, GuardFails DEF ReadValue, SSA!GuardErrors
<1>2. CASE frame # NoFrame
  <2>1. IsAccount(frame) /\ PackedFrame(frame) /\ s # NoFrame /\ s.count = frame.index_count
    BY <1>2, SessionState, SessionFields
  <2>2. i \in Nat /\ frame.index_count \in Nat
    BY <1>2, <2>1, RecordFields, WidthsAssumption DEF Index
  <2>3. SSA!Get(i, ty)
    <3>1. CASE i >= frame.index_count
      <4>1. ReadOutcome(frame, i, ty) = "InvalidValueIndex"
        BY <1>2, <2>1, <3>1, LiveReads DEF ReadOutcome
      <4>2. SSA!Fail("InvalidValueIndex")
        BY <1>0, <1>2, <4>1, AbortFails DEF ReadValue
      <4> QED
        BY <2>1, <3>1, <4>2 DEF SSA!Get
    <3>2. CASE i < frame.index_count
      <4>1. /\ s.binds[i].ty = StoredType(frame, i)
            /\ s.binds[i].bytes = ReadBytes(frame, i, StoredType(frame, i))
            /\ ~ (i >= s.count)
        BY <1>2, <2>1, <2>2, <3>2, SessionFields
      <4>2. ReadOutcome(frame, i, ty) = IF StoredType(frame, i) = ty THEN "Ok" ELSE "LoadTypeMismatch"
        BY <1>2, <2>1, <3>2, LiveReads
      <4>3. CASE StoredType(frame, i) # ty
        <5>1. SSA!Fail("LoadTypeMismatch")
          BY <1>0, <1>2, <4>2, <4>3, AbortFails DEF ReadValue
        <5> QED
          BY <2>1, <4>1, <4>3, <5>1 DEF SSA!Get
      <4>4. CASE StoredType(frame, i) = ty
        <5>1. SSA!Continue(s, SSA!ValueReply(i, ty, s.binds[i].bytes))
          BY <1>0, <1>2, <4>1, <4>2, <4>4, StepContinues, SameReplies DEF ReadValue
        <5> QED
          BY <2>1, <4>1, <4>4, <5>1 DEF SSA!Get
      <4> QED
        BY <4>3, <4>4
    <3> QED
      BY <2>2, <3>1, <3>2
  <2> QED
    BY <2>3 DEF SSA!Next, Index
<1> QED
  BY <1>1, <1>2

LEMMA ReadRawRefines ==
  ASSUME IInv, NEW i \in Index, ReadRaw(i)
  PROVE  SSA!Next
<1> DEFINE s == SessionOf(frame)
           ty == StoredType(frame, i)
<1>0. pc # "idle"
  BY DEF ReadRaw, Runs
<1>1. CASE frame = NoFrame
  BY <1>0, <1>1, GuardFails DEF ReadRaw, SSA!GuardErrors
<1>2. CASE frame # NoFrame
  <2>1. IsAccount(frame) /\ PackedFrame(frame) /\ s # NoFrame /\ s.count = frame.index_count
    BY <1>2, SessionState, SessionFields
  <2>2. i \in Nat /\ frame.index_count \in Nat
    BY <1>2, <2>1, RecordFields, WidthsAssumption DEF Index
  <2>3. SSA!GetRaw(i)
    <3>1. CASE i >= frame.index_count
      <4>1. ReadTypeOutcome(frame, i) = "InvalidValueIndex"
        BY <1>2, <2>1, <3>1, LiveReads
      <4>2. SSA!Fail("InvalidValueIndex")
        BY <1>0, <1>2, <4>1, AbortFails DEF ReadRaw
      <4> QED
        BY <2>1, <3>1, <4>2 DEF SSA!GetRaw
    <3>2. CASE i < frame.index_count
      <4>1. /\ s.binds[i].ty = ty /\ s.binds[i].bytes = ReadBytes(frame, i, ty)
            /\ ~ (i >= s.count)
        BY <1>2, <2>1, <2>2, <3>2, SessionFields
      <4>2. ReadTypeOutcome(frame, i) = "Ok" /\ ReadOutcome(frame, i, ty) = "Ok"
        BY <1>2, <2>1, <3>2, LiveReads
      <4>3. SSA!Continue(s, SSA!ValueReply(i, s.binds[i].ty, s.binds[i].bytes))
        BY <1>0, <1>2, <4>1, <4>2, StepContinues, SameReplies DEF ReadRaw
      <4> QED
        BY <2>1, <4>1, <4>3 DEF SSA!GetRaw
    <3> QED
      BY <2>2, <3>1, <3>2
  <2> QED
    BY <2>3 DEF SSA!Next, Index
<1> QED
  BY <1>1, <1>2

\* Every step of the program is a step of single assignment, or none.
LEMMA NextRefines ==
  ASSUME IInv, [Next]_vars
  PROVE  [SSA!Next]_(SSA!vars)
<1>1. CASE \E S \in SUBSET Users : Begin(S)
  <2>1. PICK S \in SUBSET Users : Begin(S)
    BY <1>1
  <2>2. SSA!Begin(S)
    BY <2>1, SameReplies DEF Begin, SSA!Begin
  <2> QED
    BY <2>2 DEF SSA!Next
<1>2. CASE Commit
  <2>1. SSA!Commit
    BY <1>2, SameReplies DEF Commit, SSA!Commit
  <2> QED
    BY <2>1 DEF SSA!Next
<1>3. CASE CallerFails
  BY <1>3, GuardFails DEF CallerFails, SSA!GuardErrors
<1>4. CASE Create
  BY <1>4, CreateRefines DEF Create
<1>5. CASE Close
  BY <1>5, CloseRefines DEF Close
<1>6. CASE Reset
  BY <1>6, ResetRefines DEF Reset
<1>7. CASE Let
  <2>1. CASE LetReturn
    BY <2>1 DEF LetReturn, SSA!vars
  <2> QED
    BY <1>7, <2>1, LetEnterRefines, LetBindingRefines DEF Let
<1>8. CASE Read
  BY <1>8, ReadValueRefines, ReadRawRefines DEF Read
<1>9. CASE UNCHANGED vars
  BY <1>9 DEF vars, SSA!vars
<1> QED
  BY <1>1, <1>2, <1>3, <1>4, <1>5, <1>6, <1>7, <1>8, <1>9 DEF Next

\* The bytes of the tape, lazily reset, behave as a list of values that are
\* assigned once: FrameProgram implements FrameSSA.
THEOREM ImplementsSingleAssignment == Spec => ImplementsSSA
<1>1. Init => SSA!Init
  BY NoSession, SameReplies DEF Init, SSA!Init
<1>2. IInv /\ [Next]_vars => [SSA!Next]_(SSA!vars)
  BY NextRefines
<1> QED
  BY <1>1, <1>2, Invariance, PTL DEF Spec, ImplementsSSA, SSA!Spec

-----------------------------------------------------------------------------
(* The reader of FrameNote.                                                *)

\* Two numbers of wrapping increments add up.
LEMMA WrappedTwice ==
  ASSUME NEW g \in 0 .. U64 - 1, NEW r \in Nat, NEW q \in Nat, r + q < U64
  PROVE  Wrapped(Wrapped(g, q), r) = Wrapped(g, r + q)
BY WidthsAssumption DEF Wrapped

\* Generations that are equal are so after no increment at all.
LEMMA WrappedIsSame ==
  ASSUME NEW g \in 0 .. U64 - 1, NEW r \in Nat, r < U64, Wrapped(g, r) = g
  PROVE  r = 0
BY WidthsAssumption DEF Wrapped

LEMMA ExtendsBoth ==
  ASSUME NEW f, IsAccount(f), f # NoFrame, NEW g, IsAccount(g), g # NoFrame, NEW h,
         IsAccount(h), h # NoFrame, Extends(g, f), Extends(h, g)
  PROVE  Extends(h, f)
<1>1. f.index_count \in Nat /\ g.index_count \in Nat /\ h.index_count \in Nat
  BY RecordFields
<1>2. /\ f.index_count <= g.index_count /\ g.index_count <= h.index_count
      /\ \A i \in 0 .. f.index_count - 1 : BindingOf(g, i) = BindingOf(f, i)
      /\ \A i \in 0 .. g.index_count - 1 : BindingOf(h, i) = BindingOf(g, i)
  BY DEF Extends
<1>3. \A i \in 0 .. f.index_count - 1 : i \in 0 .. g.index_count - 1
  BY <1>1, <1>2
<1> QED
  BY <1>1, <1>2, <1>3 DEF Extends

LEMMA DescendsBoth ==
  ASSUME NEW f, IsAccount(f), f # NoFrame, NEW g, IsAccount(g), g # NoFrame, NEW h,
         IsAccount(h), h # NoFrame, NEW q \in Nat, NEW r \in Nat, r + q < U64,
         Descends(g, f, q), Descends(h, g, r)
  PROVE  Descends(h, f, r + q)
<1>1. f.generation \in 0 .. U64 - 1
  BY RecordFields
<1>2. h.generation = Wrapped(f.generation, r + q)
  BY <1>1, WrappedTwice DEF Descends
<1>3. ASSUME r + q = 0 PROVE Extends(h, f)
  <2>1. r = 0 /\ q = 0
    BY <1>3
  <2> QED
    BY <2>1, ExtendsBoth DEF Descends
<1> QED
  BY <1>2, <1>3 DEF Descends

LEMMA NoteInitInv == NoteInit => NoteInv
<1> SUFFICES ASSUME NoteInit PROVE NoteInv
  OBVIOUS
<1>1. IInv
  BY InitInv DEF NoteInit
<1>2. age \in 0 .. U64 - 1
  BY WidthsAssumption DEF NoteInit
<1> QED
  BY <1>1, <1>2 DEF NoteInit, NoteInv, IsAccount

LEMMA NoteTaken ==
  ASSUME NoteInv, Note
  PROVE  NoteInv'
<1>1. IsAccount(ledger) /\ ledger # NoFrame /\ noted' = ledger /\ ledger' = ledger /\ age' = 0
  BY DEF NoteInv, IInv, TypeOK, Note, vars
<1>2. IInv'
  BY StutterInv DEF NoteInv, Note
<1>3. Descends(ledger, ledger, 0) /\ 0 \in 0 .. 0 /\ 0 \in 0 .. U64 - 1
  BY <1>1, DescendsItself, WidthsAssumption
<1> QED
  BY <1>1, <1>2, <1>3 DEF NoteInv, IsAccount

\* Without the authority's signature nothing is closed, and with it but without
\* the payer's nothing is created, so a note that has not lapsed is still of an
\* account from which the one now committed descends.
LEMMA NoteCommitted ==
  ASSUME NoteInv, CommitNoted
  PROVE  NoteInv'
<1>1. Commit /\ noted' = noted /\ ledger' = frame /\ pc = "ix"
  BY DEF CommitNoted, Commit
<1>2. IInv'
  BY <1>1, CommitInv DEF NoteInv
<1>3. IsAccount(noted) /\ age \in 0 .. U64 - 1 /\ steps \in Nat /\ U64 \in Nat \ {0}
  BY KeysAssumption, WidthsAssumption DEF NoteInv, IInv, TypeOK
<1>4. age' \in 0 .. U64 - 1 /\ IsAccount(noted)'
  BY <1>1, <1>3 DEF CommitNoted, Lapses, IsAccount
<1>5. ASSUME noted # NoFrame
      PROVE  frame # NoFrame /\ \E r \in 0 .. age' : Descends(frame, noted, r)
  <2>1. age + steps < U64 /\ age' = age + steps /\ ~ Exposes
    BY <1>3, <1>5 DEF CommitNoted, Lapses
  <2>2. PICK q \in 0 .. age : ledger # NoFrame /\ Descends(ledger, noted, q)
    BY <1>5 DEF NoteInv
  <2>3. ledger.authority = noted.authority
    BY <2>2 DEF Descends
  <2>4. ~ ({ledger.authority, Payer} \subseteq signers)
        /\ ~ (frame = NoFrame /\ ledger.authority \in signers)
    BY <2>1, <2>3 DEF Exposes
  <2>5. PICK r \in 0 .. steps : frame # NoFrame /\ Descends(frame, ledger, r)
    BY <1>1, <2>2, <2>4 DEF NoteInv, IInv, Lineage
  <2>6. q \in Nat /\ r \in Nat /\ r + q < U64 /\ r + q \in 0 .. age'
    BY <1>3, <2>1
  <2>7. IsAccount(ledger) /\ IsAccount(frame)
    BY DEF NoteInv, IInv, TypeOK
  <2>8. Descends(frame, noted, r + q)
    BY <1>3, <1>5, <2>2, <2>5, <2>6, <2>7, DescendsBoth
  <2> QED
    BY <2>5, <2>6, <2>8
<1> QED
  BY <1>1, <1>2, <1>4, <1>5 DEF NoteInv

LEMMA NoteLapsed ==
  ASSUME NoteInv, CommitLapsed
  PROVE  NoteInv'
<1>1. IInv'
  BY CommitInv DEF NoteInv, CommitLapsed
<1>2. noted' = NoFrame /\ age' = 0 /\ 0 \in 0 .. U64 - 1
  BY WidthsAssumption DEF CommitLapsed
<1> QED
  BY <1>1, <1>2 DEF NoteInv, IsAccount

LEMMA NoteStep == NoteInv /\ [NoteNext]_<<vars, noteVars>> => NoteInv'
<1> SUFFICES ASSUME NoteInv, [NoteNext]_<<vars, noteVars>> PROVE NoteInv'
  OBVIOUS
<1>1. CASE Note
  BY <1>1, NoteTaken
<1>2. CASE CommitNoted
  BY <1>2, NoteCommitted
<1>3. CASE CommitLapsed
  BY <1>3, NoteLapsed
<1>4. CASE /\ (\E S \in SUBSET Users : Begin(S)) \/ CallerFails \/ Create \/ Close \/ Reset \/ Let \/ Read
           /\ UNCHANGED noteVars
  <2>1. Next
    BY <1>4 DEF Next
  <2>2. IInv'
    BY <2>1, NextInv DEF NoteInv
  <2>3. ledger' = ledger
    BY <1>4 DEF Begin, CallerFails, Create, Close, Reset, Let, Read, CreateFrame, CloseFrame, ResetFrame,
                LetEnter, LetBinding, LetReturn, ReadValue, ReadRaw, Step, Abort
  <2> QED
    BY <1>4, <2>2, <2>3 DEF NoteInv, noteVars, IsAccount
<1>5. CASE UNCHANGED <<vars, noteVars>>
  <2>1. IInv' /\ ledger' = ledger
    BY <1>5, StutterInv DEF NoteInv, vars
  <2> QED
    BY <1>5, <2>1 DEF NoteInv, noteVars, IsAccount
<1> QED
  BY <1>1, <1>2, <1>3, <1>4, <1>5 DEF NoteNext

\* A generation that is the one noted names the session noted, over any number
\* of transactions of anybody, until the authority frees the address or the
\* generation has gone round (reset_frame.rs, close_frame.rs, create_frame.rs).
THEOREM PairsNameSessions == NoteSpec => []PairNamesSession
<1>1. NoteInv => PairNamesSession
  <2> SUFFICES ASSUME NoteInv, noted # NoFrame
               PROVE  /\ ledger # NoFrame
                      /\ ledger.authority = noted.authority /\ ledger.tape_len = noted.tape_len
                      /\ ledger.generation = noted.generation => Extends(ledger, noted)
    BY DEF PairNamesSession
  <2>1. PICK r \in 0 .. age : ledger # NoFrame /\ Descends(ledger, noted, r)
    BY DEF NoteInv
  <2>2. ASSUME ledger.generation = noted.generation PROVE r = 0
    <3>1. r \in Nat /\ r < U64 /\ noted.generation \in 0 .. U64 - 1
      BY RecordFields, WidthsAssumption DEF NoteInv
    <3>2. Wrapped(noted.generation, r) = noted.generation
      BY <2>1, <2>2 DEF Descends
    <3> QED
      BY <3>1, <3>2, WrappedIsSame
  <2> QED
    BY <2>1, <2>2 DEF Descends
<1> QED
  BY <1>1, NoteInitInv, NoteStep, PTL DEF NoteSpec

=============================================================================
