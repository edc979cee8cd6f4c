------------------------------ MODULE Lets_proofs ------------------------------
(***************************************************************************)
(* Proofs about lets: what an SDK plans (Planner), and what the program    *)
(* reads for each binding (LetBatch).                                      *)
(*                                                                         *)
(* The planner has counted on through everything that is planned and not   *)
(* yet run.  So the invariant speaks of the path of predictions that leads *)
(* from where the next binding of the unit will land, through every item   *)
(* and every binding still to run, to what the planner predicts now; the   *)
(* start of that path is what agrees with the chain.                       *)
(*                                                                         *)
(* The cache of a let never shows, by an invariant of what the cache       *)
(* keeps; what a load answers is stated for every account there can be.    *)
(***************************************************************************)
EXTENDS Planner, LetBatch, FrameSSA_proofs, DataLemmas, FiniteSetTheorems

RealMeaning == [ty : ValueType, account : Account]
Meanings == RealMeaning \cup {NoMeaning}

\* What a planner predicts at one moment.
Prediction ==
  [index : PlannedIndex, cursor : 0 .. TapeLen, types : [PlannedIndex -> Meanings]]

Predict(i, c, types) == [index |-> i, cursor |-> c, types |-> types]
Now == Predict(next_index, cursor, index_types)
Unpredicted == [i \in PlannedIndex |-> NoMeaning]
Cleared == Predict(0, 0, Unpredicted)

PlannedBinding ==
  [source : {"account", "value"}, at : Nat, meaning : RealMeaning, index : PlannedIndex]
Item == [op : {"reset", "let"}, remaining : Seq(Account \cup Key), bindings : Seq(PlannedBinding)]

-----------------------------------------------------------------------------
(* Paths of predictions.                                                   *)

\* The elements of s lead from P to Q, each by a step of the relation R.
Path(R, P, Q, s) ==
  \E w \in [0 .. Len(s) -> Prediction] :
    /\ w[0] = P /\ w[Len(s)] = Q
    /\ \A i \in 1 .. Len(s) : <<w[i - 1], s[i], w[i]>> \in R

\* Nothing to do leads nowhere.
LEMMA PathEmpty ==
  ASSUME NEW R, NEW P \in Prediction, NEW Q, NEW S, NEW s \in Seq(S), s = <<>>
  PROVE  Path(R, P, Q, s) <=> P = Q
<1>1. Len(s) = 0
  BY EmptySeq
<1>2. ASSUME P = Q PROVE Path(R, P, Q, s)
  <2> DEFINE w == [i \in 0 .. 0 |-> P]
  <2>1. w \in [0 .. 0 -> Prediction] /\ w[0] = P
    OBVIOUS
  <2> HIDE DEF w
  <2> QED
    BY <1>1, <1>2, <2>1 DEF Path
<1>3. ASSUME Path(R, P, Q, s) PROVE P = Q
  BY <1>1, <1>3 DEF Path
<1> QED
  BY <1>2, <1>3

\* One more element at the end of a path.
LEMMA PathAppend ==
  ASSUME NEW R, NEW P \in Prediction, NEW Q \in Prediction, NEW T \in Prediction,
         NEW S, NEW s \in Seq(S), NEW e \in S,
         Path(R, P, Q, s), <<Q, e, T>> \in R
  PROVE  Path(R, P, T, Append(s, e))
<1> DEFINE n == Len(s)
           t == Append(s, e)
<1>1. n \in Nat
  BY LenProperties
<1>2. PICK w \in [0 .. n -> Prediction] :
        /\ w[0] = P /\ w[n] = Q
        /\ \A i \in 1 .. n : <<w[i - 1], s[i], w[i]>> \in R
  BY DEF Path
<1>3. Len(t) = n + 1 /\ t[n + 1] = e /\ \A i \in 1 .. n : t[i] = s[i]
  BY AppendProperties
<1> HIDE DEF n, t
<1> DEFINE v == [i \in 0 .. n + 1 |-> IF i = n + 1 THEN T ELSE w[i]]
<1>4. \A i \in 0 .. n + 1 : i # n + 1 => i \in 0 .. n
  BY <1>1
<1>5. v \in [0 .. n + 1 -> Prediction] /\ v[0] = P /\ v[n + 1] = T
      /\ \A i \in 0 .. n : v[i] = w[i]
  BY <1>1, <1>2, <1>4
<1> HIDE DEF v
<1>6. ASSUME NEW i \in 1 .. n + 1 PROVE <<v[i - 1], t[i], v[i]>> \in R
  <2>1. CASE i = n + 1
    <3>1. i - 1 = n /\ n \in 0 .. n
      BY <1>1, <2>1
    <3>2. v[i - 1] = Q /\ t[i] = e /\ v[i] = T
      BY <1>2, <1>3, <1>5, <2>1, <3>1
    <3> QED
      BY <3>2
  <2>2. CASE i # n + 1
    <3>1. i \in 1 .. n /\ i - 1 \in 0 .. n /\ i \in 0 .. n
      BY <1>1, <2>2
    <3>2. v[i - 1] = w[i - 1] /\ t[i] = s[i] /\ v[i] = w[i]
      BY <1>3, <1>5, <3>1
    <3> QED
      BY <1>2, <3>1, <3>2
  <2> QED
    BY <2>1, <2>2
<1>7. Path(R, P, T, t)
  BY <1>3, <1>5, <1>6 DEF Path
<1> QED
  BY <1>7 DEF t

\* A path starts with the step of its first element.
LEMMA PathHead ==
  ASSUME NEW R, NEW P \in Prediction, NEW Q \in Prediction,
         NEW S, NEW s \in Seq(S), s # <<>>, Path(R, P, Q, s)
  PROVE  \E T \in Prediction : <<P, Head(s), T>> \in R /\ Path(R, T, Q, Tail(s))
<1> DEFINE n == Len(s)
           t == Tail(s)
<1>1. n \in Nat /\ n # 0
  BY LenProperties, EmptySeq
<1>2. PICK w \in [0 .. n -> Prediction] :
        /\ w[0] = P /\ w[n] = Q
        /\ \A i \in 1 .. n : <<w[i - 1], s[i], w[i]>> \in R
  BY DEF Path
<1>3. Len(t) = n - 1 /\ Head(s) = s[1] /\ \A i \in 1 .. n - 1 : t[i] = s[i + 1]
  BY <1>1, HeadTailProperties
<1> HIDE DEF n, t
<1> DEFINE v == [i \in 0 .. n - 1 |-> w[i + 1]]
<1>4. \A i \in 0 .. n - 1 : i + 1 \in 0 .. n
  BY <1>1
<1>5. 0 \in 0 .. n - 1 /\ n - 1 \in 0 .. n - 1 /\ (n - 1) + 1 = n /\ 0 + 1 = 1 /\ 1 \in 1 .. n /\ 1 - 1 = 0
  BY <1>1
<1>6. v \in [0 .. n - 1 -> Prediction] /\ v[0] = w[1] /\ v[n - 1] = Q
      /\ \A i \in 0 .. n - 1 : v[i] = w[i + 1]
  BY <1>2, <1>4, <1>5
<1> HIDE DEF v
<1>7. ASSUME NEW i \in 1 .. n - 1 PROVE <<v[i - 1], t[i], v[i]>> \in R
  <2>1. i \in 0 .. n - 1 /\ i - 1 \in 0 .. n - 1 /\ (i - 1) + 1 = i
        /\ i + 1 \in 1 .. n /\ (i + 1) - 1 = i
    BY <1>1
  <2>2. v[i - 1] = w[i] /\ v[i] = w[i + 1] /\ t[i] = s[i + 1]
    BY <1>3, <1>6, <2>1
  <2>3. <<w[(i + 1) - 1], s[i + 1], w[i + 1]>> \in R
    BY <1>2, <2>1
  <2> QED
    BY <2>1, <2>2, <2>3
<1>8. Path(R, w[1], Q, t)
  BY <1>3, <1>6, <1>7 DEF Path
<1>9. <<P, Head(s), w[1]>> \in R /\ w[1] \in Prediction
  <2>1. <<w[1 - 1], s[1], w[1]>> \in R
    BY <1>2, <1>5
  <2> QED
    BY <1>2, <1>3, <1>4, <1>5, <2>1
<1> QED
  BY <1>8, <1>9 DEF t

\* One more element before a path.
LEMMA PathCons ==
  ASSUME NEW R, NEW P \in Prediction, NEW Q \in Prediction, NEW T \in Prediction,
         NEW S, NEW s \in Seq(S), NEW e \in S,
         <<P, e, T>> \in R, Path(R, T, Q, s)
  PROVE  Path(R, P, Q, <<e>> \o s)
<1> DEFINE n == Len(s)
           t == <<e>> \o s
<1>1. n \in Nat
  BY LenProperties
<1>2. PICK w \in [0 .. n -> Prediction] :
        /\ w[0] = T /\ w[n] = Q
        /\ \A i \in 1 .. n : <<w[i - 1], s[i], w[i]>> \in R
  BY DEF Path
<1>3. Len(t) = n + 1 /\ t[1] = e /\ \A i \in 1 .. n : t[i + 1] = s[i]
  BY PrependProperties
<1> HIDE DEF n, t
<1> DEFINE v == [i \in 0 .. n + 1 |-> IF i = 0 THEN P ELSE w[i - 1]]
<1>4. \A i \in 0 .. n + 1 : i # 0 => i - 1 \in 0 .. n
  BY <1>1
<1>5. n + 1 \in 0 .. n + 1 /\ (n + 1) - 1 = n /\ n + 1 # 0 /\ 0 \in 0 .. n + 1
  BY <1>1
<1>6. v \in [0 .. n + 1 -> Prediction] /\ v[0] = P /\ v[n + 1] = Q
      /\ \A i \in 0 .. n + 1 : i # 0 => v[i] = w[i - 1]
  BY <1>2, <1>4, <1>5
<1> HIDE DEF v
<1>7. ASSUME NEW i \in 1 .. n + 1 PROVE <<v[i - 1], t[i], v[i]>> \in R
  <2>1. CASE i = 1
    <3>1. i - 1 = 0 /\ 1 \in 0 .. n + 1 /\ i # 0
      BY <1>1, <2>1
    <3>2. v[i - 1] = P /\ t[i] = e /\ v[i] = T
      BY <1>2, <1>3, <1>6, <2>1, <3>1
    <3> QED
      BY <3>2
  <2>2. CASE i # 1
    <3>1. i - 1 \in 1 .. n /\ (i - 1) + 1 = i /\ i \in 0 .. n + 1 /\ i # 0
          /\ i - 1 \in 0 .. n + 1 /\ i - 1 # 0
      BY <1>1, <2>2
    <3>2. v[i - 1] = w[(i - 1) - 1] /\ t[i] = s[i - 1] /\ v[i] = w[i - 1]
      BY <1>3, <1>6, <3>1
    <3> QED
      BY <1>2, <3>1, <3>2
  <2> QED
    BY <2>1, <2>2
<1>8. Path(R, P, Q, t)
  BY <1>3, <1>6, <1>7 DEF Path
<1> QED
  BY <1>8 DEF t

-----------------------------------------------------------------------------
(* Well-formed planners and chains.                                        *)

\* The accounts `accts` are those that the bindings bs were planned with.
AccountsNamed(accts, bs) ==
  \A p \in 1 .. Len(bs) : bs[p].source = "account" =>
    /\ bs[p].at < Len(accts)
    /\ accts[bs[p].at + 1] = bs[p].meaning.account

\* The accounts of a let on a Frame whose authority is a.
Behind(a, list) == IF a \in Users THEN Tail(list) ELSE list

ItemOK(a, ix) ==
  ix.op = "let" =>
    /\ ix.bindings # <<>>
    /\ a \in Users => ix.remaining # <<>>
    /\ AccountsNamed(Behind(a, ix.remaining), ix.bindings)

\* The Frame is there, and nobody closes it or changes its authority.
ChainShape ==
  /\ SSATypeOK
  /\ session # NoFrame /\ session.tape_len = TapeLen
  /\ committed # NoFrame /\ committed.tape_len = TapeLen
  /\ committed.authority = session.authority

ScratchShape ==
  /\ sdk \in Sdk
  /\ cursor \in 0 .. TapeLen /\ next_index \in PlannedIndex
  /\ index_types \in [PlannedIndex -> Meanings]

BuilderShape ==
  /\ accounts \in Seq(Account) /\ bindings \in Seq(PlannedBinding)
  /\ AccountsNamed(accounts, bindings)

UnitShape ==
  /\ unit \in Seq(Item)
  /\ \A p \in 1 .. Len(unit) : ItemOK(session.authority, unit[p])

\* Who works when: a unit that runs has been planned to its end, and what
\* another client lands is never taken for what was planned against.
TurnShape ==
  /\ running \in {"nobody", "unit", "foreign"}
  /\ running = "nobody" <=> ~ open
  /\ anchored \in {"no", "refresh", "reset"} /\ synced \in BOOLEAN
  /\ running = "unit" => bindings = <<>>
  /\ running = "foreign" => anchored = "no" /\ ~ synced

Shape == ChainShape /\ ScratchShape /\ BuilderShape /\ UnitShape /\ TurnShape

LEMMA ShapeTypes ==
  ASSUME Shape
  PROVE  PlannerTypeOK
<1>1. \A i \in PlannedIndex : index_types[i].ty \in ValueType \cup {NoType}
  BY DEF Shape, ScratchShape, Meanings, RealMeaning, NoMeaning
<1>2. \A p \in 1 .. Len(bindings) : bindings[p].index \in PlannedIndex
  <2>1. \A p \in 1 .. Len(bindings) : bindings[p] \in PlannedBinding
    BY ElementOfSeq DEF Shape, BuilderShape
  <2> QED
    BY <2>1 DEF PlannedBinding
<1> QED
  BY <1>1, <1>2 DEF Shape, PlannerTypeOK, ScratchShape, TurnShape

\* What the constants say of the Frame's tape.
LEMMA TapeFacts ==
  /\ TapeLen \in Nat /\ TapeLen \in 1 .. MaxTapeLen
  /\ Capacity(TapeLen) \in Nat /\ Capacity(TapeLen) <= U8
  /\ U8 \in Nat /\ U8 > 0
<1>1. TapeLen \in 1 .. MaxTapeLen /\ MaxTapeLen \in Nat /\ U8 \in Nat /\ U8 > 0
      /\ MaxBindingIndex \in Nat /\ MaxBindingIndex <= U8
  BY PlannerAssumption, SSAAssumption
<1>2. Capacity(TapeLen) \in 0 .. MaxBindingIndex
  BY <1>1, CapacityBounds
<1> HIDE DEF Capacity
<1> QED
  BY <1>1, <1>2

LEMMA SizeFacts ==
  ASSUME NEW ty \in ValueType
  PROVE  Size[ty] \in Nat /\ Size[ty] >= 1
BY SSAAssumption

\* The content of an account is a value of any type there is.
LEMMA LoadedPayload ==
  ASSUME NEW ty \in ValueType, NEW k \in Account \cup Key
  PROVE  Loaded(ty, k) \in Payload(ty)
BY PlannerAssumption DEF Loaded, Payload

LEMMA ChainSessions ==
  ASSUME ChainShape
  PROVE  SessionOK(session) /\ SessionOK(committed)
BY DEF ChainShape, SSATypeOK

-----------------------------------------------------------------------------
(* What the chain's steps leave of a Frame.                                *)

LEMMA ChainBegin ==
  ASSUME ChainShape, NEW S \in SUBSET Users, Begin(S)
  PROVE  ChainShape' /\ open' /\ session' = session /\ ret' = NoReply
BY DEF ChainShape, SSATypeOK, Begin

LEMMA ChainCommit ==
  ASSUME ChainShape, Commit
  PROVE  ChainShape' /\ ~ open' /\ session' = session /\ ret' = NoReply
BY DEF ChainShape, SSATypeOK, Commit

LEMMA ChainFail ==
  ASSUME ChainShape, NEW err, Fail(err)
  PROVE  ChainShape' /\ ~ open' /\ session'.authority = session.authority /\ ret'.err = err
<1>1. SSATypeOK'
  BY FailTypes DEF ChainShape
<1> QED
  BY <1>1 DEF ChainShape, Fail, ErrorReply, NoReply

LEMMA ChainReset ==
  ASSUME ChainShape, Reset
  PROVE  /\ ChainShape' /\ open' = open /\ session'.authority = session.authority
         /\ session'.count = 0 /\ session'.used = 0 /\ ret' = NoReply
<1>1. /\ SSATypeOK' /\ SessionOK(session') /\ session'.count = 0 /\ session'.used = 0
      /\ session'.authority = session.authority /\ session'.tape_len = session.tape_len
  BY ResetTypes DEF ChainShape
<1>2. session' # NoFrame
  BY <1>1, SessionFields
<1>3. committed' = committed /\ open' = open /\ ret' = NoReply
  BY DEF Reset, Continue
<1> QED
  BY <1>1, <1>2, <1>3 DEF ChainShape

LEMMA ChainBind ==
  ASSUME ChainShape, NEW ty \in ValueType, NEW bytes \in Payload(ty), Bind(ty, bytes)
  PROVE  /\ ChainShape' /\ session'.authority = session.authority
         /\ \/ /\ Fail("IndexCapReached") /\ session.count = Capacity(TapeLen)
            \/ /\ Fail("TapeOutOfBounds") /\ session.used + 1 + Size[ty] > TapeLen
            \/ /\ ret' = ValueReply(session.count, ty, bytes) /\ open' = open
               /\ session'.count = session.count + 1
               /\ session'.used = session.used + 1 + Size[ty]
               /\ session'.binds[session.count] = [ty |-> ty, bytes |-> bytes]
               /\ \A i \in 0 .. session.count - 1 : session'.binds[i] = session.binds[i]
<1>1. /\ SSATypeOK'
      /\ \/ Fail("IndexCapReached") /\ session.count = Capacity(session.tape_len)
         \/ Fail("TapeOutOfBounds") /\ session.used + 1 + Size[ty] > session.tape_len
         \/ /\ Continue(Bound(session, ty, bytes), ValueReply(session.count, ty, bytes))
            /\ session.count # Capacity(session.tape_len)
            /\ session.used + 1 + Size[ty] <= session.tape_len
            /\ SessionOK(session')
  BY BindTypes DEF ChainShape
<1>2. SessionOK(session) /\ session.tape_len = TapeLen
  BY ChainSessions DEF ChainShape
<1>3. CASE Fail("IndexCapReached") /\ session.count = Capacity(session.tape_len)
  BY <1>2, <1>3, ChainFail
<1>4. CASE Fail("TapeOutOfBounds") /\ session.used + 1 + Size[ty] > session.tape_len
  BY <1>2, <1>4, ChainFail
<1>5. CASE /\ Continue(Bound(session, ty, bytes), ValueReply(session.count, ty, bytes))
           /\ session.count # Capacity(session.tape_len)
           /\ session.used + 1 + Size[ty] <= session.tape_len
           /\ SessionOK(session')
  <2> DEFINE t == Bound(session, ty, bytes)
  <2>1. /\ t.authority = session.authority /\ t.tape_len = session.tape_len
        /\ t.count = session.count + 1 /\ t.used = session.used + 1 + Size[ty]
        /\ t.binds[session.count] = [ty |-> ty, bytes |-> bytes]
        /\ \A i \in 0 .. session.count - 1 : t.binds[i] = session.binds[i]
    BY <1>2, <1>5, BoundSession
  <2>2. session' = t /\ ret' = ValueReply(session.count, ty, bytes)
        /\ committed' = committed /\ open' = open
    BY <1>5 DEF Continue
  <2>3. session' # NoFrame
    BY <1>5, SessionFields
  <2> HIDE DEF t
  <2> QED
    BY <1>1, <2>1, <2>2, <2>3 DEF ChainShape
<1> QED
  BY <1>1, <1>3, <1>4, <1>5

-----------------------------------------------------------------------------
(* Every step leaves a well-formed planner.                                *)

\* A step that leaves the chain leaves it well formed.
LEMMA ChainStutters ==
  ASSUME ChainShape, UNCHANGED chainVars
  PROVE  ChainShape'
BY DEF ChainShape, SSATypeOK, chainVars

LEMMA UnitStutters ==
  ASSUME UnitShape, unit' = unit, session'.authority = session.authority
  PROVE  UnitShape'
BY DEF UnitShape

\* plan() either changes nothing or takes one step of the planner.
LEMMA PlanCases ==
  ASSUME Shape, NEW source \in {"account", "value"}, NEW at \in Nat, NEW meaning \in RealMeaning,
         Plan(source, at, meaning)
  PROVE  LET b == [source |-> source, at |-> at, meaning |-> meaning, index |-> next_index]
         IN /\ ScratchShape' /\ bindings' \in Seq(PlannedBinding) /\ b \in PlannedBinding
            /\ UNCHANGED <<chainVars, unit, synced, running, anchored, sdk>>
            /\ \/ UNCHANGED <<scratchVars, bindings>>
               \/ /\ PlanAccepts(meaning.ty) /\ bindings' = Append(bindings, b)
                  /\ cursor' = EndCursor(cursor, meaning.ty)
                  /\ next_index' = IndexAfter(next_index)
                  /\ index_types' = [index_types EXCEPT ![next_index] = meaning]
<1> DEFINE b == [source |-> source, at |-> at, meaning |-> meaning, index |-> next_index]
<1>1. b \in PlannedBinding
  BY DEF Shape, ScratchShape, PlannedBinding
<1>2. UNCHANGED <<chainVars, unit, synced, running, anchored>>
  BY DEF Plan
<1>3. bindings \in Seq(PlannedBinding) /\ ScratchShape
  BY DEF Shape, BuilderShape
<1>4. CASE PlanAccepts(meaning.ty)
  <2>1. /\ cursor' = EndCursor(cursor, meaning.ty)
        /\ next_index' = IndexAfter(next_index)
        /\ index_types' = [index_types EXCEPT ![next_index] = meaning]
        /\ bindings' = Append(bindings, b) /\ sdk' = sdk
    BY <1>4 DEF Plan
  <2>2. bindings' \in Seq(PlannedBinding)
    <3> HIDE DEF b
    <3> QED
      BY <1>1, <1>3, <2>1, AppendProperties
  <2>3. cursor' \in 0 .. TapeLen
    <3>1. meaning.ty \in ValueType
      BY DEF RealMeaning
    <3>2. Size[meaning.ty] \in Nat
      BY <3>1, SizeFacts
    <3>3. cursor \in Nat /\ TapeLen \in Nat
      BY <1>3, TapeFacts DEF ScratchShape
    <3>4. EndCursor(cursor, meaning.ty) \in Nat
      BY <3>2, <3>3 DEF EndCursor
    <3>5. EndCursor(cursor, meaning.ty) <= TapeLen
      BY <1>4 DEF PlanAccepts
    <3> HIDE DEF EndCursor
    <3> QED
      BY <2>1, <3>3, <3>4, <3>5
  <2>4. next_index' \in PlannedIndex
    <3>1. next_index \in Nat /\ next_index < Capacity(TapeLen) /\ Capacity(TapeLen) \in Nat
          /\ Capacity(TapeLen) <= U8 /\ U8 \in Nat /\ U8 > 0
      BY <1>3, <1>4, TapeFacts DEF ScratchShape, PlanAccepts, PlannedIndex
    <3> HIDE DEF Capacity
    <3>2. next_index + 1 \in 0 .. U8
      BY <3>1
    <3>3. (next_index + 1) % U8 \in 0 .. U8
      BY <3>1
    <3>4. sdk \in {"rust", "ts", "go"}
      BY <1>3, PlannerAssumption DEF ScratchShape
    <3>5. IndexAfter(next_index) \in {next_index + 1, U8 - 1, (next_index + 1) % U8}
      BY <3>4 DEF IndexAfter
    <3>6. U8 - 1 \in 0 .. U8
      BY <3>1
    <3> QED
      BY <2>1, <3>2, <3>3, <3>5, <3>6 DEF PlannedIndex
  <2>5. index_types' \in [PlannedIndex -> Meanings]
    BY <1>3, <2>1 DEF ScratchShape, Meanings
  <2> QED
    BY <1>1, <1>2, <1>3, <1>4, <2>1, <2>2, <2>3, <2>4, <2>5 DEF ScratchShape
<1>5. CASE ~ PlanAccepts(meaning.ty)
  BY <1>1, <1>2, <1>3, <1>5 DEF Plan, ScratchShape, scratchVars
<1> QED
  BY <1>4, <1>5

\* The accounts a batch was planned with stay where they are when one more
\* joins them, and so they do for a binding planned with them.
LEMMA NamesStay ==
  ASSUME NEW accts \in Seq(Account), NEW more \in Seq(Account), Len(accts) <= Len(more),
         \A p \in 1 .. Len(accts) : more[p] = accts[p],
         NEW bs \in Seq(PlannedBinding), AccountsNamed(accts, bs)
  PROVE  AccountsNamed(more, bs)
<1> SUFFICES ASSUME NEW p \in 1 .. Len(bs), bs[p].source = "account"
             PROVE  bs[p].at < Len(more) /\ more[bs[p].at + 1] = bs[p].meaning.account
  BY DEF AccountsNamed
<1>1. bs[p].at < Len(accts) /\ accts[bs[p].at + 1] = bs[p].meaning.account
  BY DEF AccountsNamed
<1>2. bs[p].at \in Nat /\ Len(accts) \in Nat /\ Len(more) \in Nat
  <2>1. bs[p] \in PlannedBinding
    BY ElementOfSeq
  <2> QED
    BY <2>1, LenProperties DEF PlannedBinding
<1>3. bs[p].at + 1 \in 1 .. Len(accts) /\ bs[p].at < Len(more)
  BY <1>1, <1>2
<1> QED
  BY <1>1, <1>3

LEMMA NamesAppend ==
  ASSUME NEW accts, NEW bs \in Seq(PlannedBinding), AccountsNamed(accts, bs),
         NEW b \in PlannedBinding,
         b.source = "account" => b.at < Len(accts) /\ accts[b.at + 1] = b.meaning.account
  PROVE  AccountsNamed(accts, Append(bs, b))
<1> DEFINE t == Append(bs, b)
           n == Len(bs)
<1>1. n \in Nat /\ Len(t) = n + 1 /\ t[n + 1] = b /\ \A p \in 1 .. n : t[p] = bs[p]
  BY LenProperties, AppendProperties
<1> HIDE DEF t
<1>2. \A p \in 1 .. n + 1 : p \in 1 .. n \/ p = n + 1
  BY <1>1
<1>3. AccountsNamed(accts, t)
  BY <1>1, <1>2 DEF AccountsNamed
<1> QED
  BY <1>3 DEF t

\* account_index(): the accounts grow by k, or have it, at the position it gives.
LEMMA InternedAccounts ==
  ASSUME accounts \in Seq(Account), NEW k \in Account
  PROVE  LET more == Interned(k)
             at == Position(more, k) - 1
         IN /\ more \in Seq(Account) /\ Len(accounts) <= Len(more)
            /\ \A p \in 1 .. Len(accounts) : more[p] = accounts[p]
            /\ at \in Nat /\ at < Len(more) /\ more[at + 1] = k
<1> DEFINE more == Interned(k)
           n == Len(accounts)
<1>1. n \in Nat
  BY LenProperties
<1>2. /\ more \in Seq(Account) /\ n <= Len(more) /\ \A p \in 1 .. n : more[p] = accounts[p]
      /\ Len(more) \in Nat /\ \E p \in 1 .. Len(more) : more[p] = k
  <2>1. CASE \E p \in 1 .. n : accounts[p] = k
    <3>1. more = accounts
      BY <2>1 DEF Interned
    <3> HIDE DEF more
    <3> QED
      BY <1>1, <2>1, <3>1
  <2>2. CASE ~ \E p \in 1 .. n : accounts[p] = k
    <3>1. more = Append(accounts, k)
      BY <2>2 DEF Interned
    <3>2. more \in Seq(Account) /\ Len(more) = n + 1 /\ more[n + 1] = k
          /\ \A p \in 1 .. n : more[p] = accounts[p]
      <4> HIDE DEF more
      <4> QED
        BY <3>1, AppendProperties
    <3> HIDE DEF more, n
    <3>3. n + 1 \in 1 .. n + 1 /\ n <= n + 1 /\ n + 1 \in Nat
      BY <1>1
    <3> QED
      BY <3>2, <3>3
  <2> QED
    BY <2>1, <2>2
<1> HIDE DEF more, n
<1>3. Position(more, k) \in 1 .. Len(more) /\ more[Position(more, k)] = k
  BY <1>2 DEF Position
<1> DEFINE q == Position(more, k)
<1> HIDE DEF q
<1>4. q \in 1 .. Len(more) /\ more[q] = k
  BY <1>3 DEF q
<1>5. q - 1 \in Nat /\ q - 1 < Len(more) /\ (q - 1) + 1 = q
  BY <1>2, <1>4
<1> QED
  BY <1>2, <1>4, <1>5 DEF q, more, n

\* Steps that plan a binding.
LEMMA PlanLoadShape ==
  ASSUME Shape, NEW k \in Account, PlanLoad(k)
  PROVE  Shape'
<1> DEFINE more == Interned(k)
           at == Position(more, k) - 1
           mean == Meaning(Field[k], k)
           b == [source |-> "account", at |-> at, meaning |-> mean, index |-> next_index]
<1>1. accounts \in Seq(Account) /\ bindings \in Seq(PlannedBinding)
      /\ AccountsNamed(accounts, bindings)
  BY DEF Shape, BuilderShape
<1>2. /\ more \in Seq(Account) /\ Len(accounts) <= Len(more)
      /\ \A p \in 1 .. Len(accounts) : more[p] = accounts[p]
      /\ at \in Nat /\ at < Len(more) /\ more[at + 1] = k
  BY <1>1, InternedAccounts
<1>3. accounts' = more /\ Plan("account", at, mean) /\ running = "nobody"
  BY DEF PlanLoad, Planning
<1>4. mean \in RealMeaning /\ mean.account = k
  BY PlannerAssumption DEF Meaning, RealMeaning
<1> HIDE DEF more, at, mean
<1>5. /\ ScratchShape' /\ bindings' \in Seq(PlannedBinding) /\ b \in PlannedBinding
      /\ UNCHANGED <<chainVars, unit, synced, running, anchored>>
      /\ bindings' = bindings \/ bindings' = Append(bindings, b)
  BY <1>2, <1>3, <1>4, PlanCases DEF scratchVars
<1>6. b.source = "account" /\ b.at = at /\ b.meaning = mean
  OBVIOUS
<1> HIDE DEF b
<1>7. AccountsNamed(more, bindings)
  BY <1>1, <1>2, NamesStay
<1>8. AccountsNamed(more, Append(bindings, b))
  BY <1>1, <1>2, <1>4, <1>5, <1>6, <1>7, NamesAppend
<1>9. BuilderShape'
  BY <1>2, <1>3, <1>5, <1>7, <1>8 DEF BuilderShape
<1>10. ChainShape' /\ UnitShape'
  BY <1>5, ChainStutters, UnitStutters DEF Shape, chainVars
<1>11. TurnShape'
  BY <1>3, <1>5 DEF Shape, TurnShape, chainVars
<1> QED
  BY <1>5, <1>9, <1>10, <1>11 DEF Shape

LEMMA PlanEvalShape ==
  ASSUME Shape, NEW i \in PlannedIndex, PlanEval(i)
  PROVE  Shape' /\ i \in Nat /\ index_types[i] \in RealMeaning
<1> DEFINE mean == index_types[i]
           b == [source |-> "value", at |-> i, meaning |-> mean, index |-> next_index]
<1>1. bindings \in Seq(PlannedBinding) /\ AccountsNamed(accounts, bindings)
  BY DEF Shape, BuilderShape
<1>2. i \in Nat
  BY TapeFacts DEF PlannedIndex
<1>3. accounts' = accounts /\ Plan("value", i, mean) /\ running = "nobody"
  BY DEF PlanEval, Planning
<1>4. mean \in RealMeaning
  BY DEF PlanEval, Shape, ScratchShape, Meanings
<1> HIDE DEF mean
<1>5. /\ ScratchShape' /\ bindings' \in Seq(PlannedBinding) /\ b \in PlannedBinding
      /\ UNCHANGED <<chainVars, unit, synced, running, anchored>>
      /\ bindings' = bindings \/ bindings' = Append(bindings, b)
  BY <1>2, <1>3, <1>4, PlanCases DEF scratchVars
<1>6. b.source = "value"
  OBVIOUS
<1> HIDE DEF b
<1>7. AccountsNamed(accounts, Append(bindings, b))
  BY <1>1, <1>5, <1>6, NamesAppend
<1>8. BuilderShape'
  BY <1>1, <1>3, <1>5, <1>7 DEF Shape, BuilderShape
<1>9. ChainShape' /\ UnitShape'
  BY <1>5, ChainStutters, UnitStutters DEF Shape, chainVars
<1>10. TurnShape'
  BY <1>3, <1>5 DEF Shape, TurnShape, chainVars
<1> QED
  BY <1>2, <1>4, <1>5, <1>8, <1>9, <1>10 DEF Shape, mean

\* One more well-formed item.
LEMMA ItemAppends ==
  ASSUME UnitShape, NEW ix \in Item, ItemOK(session.authority, ix),
         unit' = Append(unit, ix), session'.authority = session.authority
  PROVE  UnitShape'
<1> DEFINE n == Len(unit)
<1>1. unit \in Seq(Item)
  BY DEF UnitShape
<1>2. n \in Nat /\ unit' \in Seq(Item) /\ Len(unit') = n + 1 /\ unit'[n + 1] = ix
      /\ \A p \in 1 .. n : unit'[p] = unit[p]
  BY <1>1, LenProperties, AppendProperties
<1>3. \A p \in 1 .. n + 1 : p \in 1 .. n \/ p = n + 1
  BY <1>2
<1> QED
  BY <1>2, <1>3 DEF UnitShape

ResetItem == [op |-> "reset", remaining |-> <<>>, bindings |-> <<>>]

LEMMA IxResetShape ==
  ASSUME Shape, IxReset
  PROVE  Shape' /\ ResetItem \in Item /\ ScratchShape'
<1>1. ResetItem \in Item /\ ResetItem.op = "reset"
  BY DEF ResetItem, Item
<1>2. unit' = Append(unit, ResetItem) /\ UNCHANGED <<chainVars, builderVars, synced, running, anchored, sdk>>
  BY DEF IxReset, ResetItem
<1>3. ItemOK(session.authority, ResetItem)
  BY <1>1 DEF ItemOK
<1>4. UnitShape' /\ ChainShape'
  <2> HIDE DEF ResetItem
  <2> QED
    BY <1>1, <1>2, <1>3, ItemAppends, ChainStutters DEF Shape, chainVars
<1>5. ScratchShape'
  <2>1. cursor' = 0 /\ next_index' = 0 /\ index_types' = [i \in PlannedIndex |-> NoMeaning]
    BY DEF IxReset, ResetScratch
  <2> QED
    BY <1>2, <2>1, TapeFacts DEF Shape, ScratchShape, Meanings, PlannedIndex
<1>6. BuilderShape' /\ TurnShape'
  BY <1>2 DEF Shape, BuilderShape, TurnShape, builderVars, chainVars
<1> QED
  BY <1>1, <1>4, <1>5, <1>6 DEF Shape

\* The instruction build_ix() makes.
BuiltItem ==
  [ op |-> "let",
    remaining |-> (IF PrivateFrame THEN <<committed.authority>> ELSE <<>>) \o accounts,
    bindings |-> bindings ]

LEMMA BuiltItemOK ==
  ASSUME Shape, bindings # <<>>
  PROVE  BuiltItem \in Item /\ ItemOK(session.authority, BuiltItem)
<1> DEFINE a == session.authority
           r == BuiltItem.remaining
<1>1. accounts \in Seq(Account) /\ bindings \in Seq(PlannedBinding)
      /\ AccountsNamed(accounts, bindings) /\ committed.authority = a
  BY DEF Shape, BuilderShape, ChainShape
<1>2. accounts \in Seq(Account \cup Key) /\ Len(accounts) \in Nat
  BY <1>1, LenProperties
<1>3. a \in Key
  BY ChainSessions, SessionFields DEF Shape
<1>4. BuiltItem.op = "let" /\ BuiltItem.bindings = bindings
      /\ r = (IF a \in Users THEN <<a>> ELSE <<>>) \o accounts
  BY <1>1 DEF BuiltItem, PrivateFrame
<1>5. CASE a \in Users
  <2>1. r = <<a>> \o accounts
    BY <1>4, <1>5
  <2>2. a \in Account \cup Key
    BY <1>3
  <2> HIDE DEF a, r
  <2>3. /\ r \in Seq(Account \cup Key) /\ Len(r) = Len(accounts) + 1
        /\ \A j \in 1 .. Len(accounts) : r[j + 1] = accounts[j]
    BY <1>2, <2>1, <2>2, PrependProperties
  <2>4. r # <<>>
    BY <1>2, <2>3
  <2>5. Len(Tail(r)) = Len(accounts) /\ \A j \in 1 .. Len(accounts) : Tail(r)[j] = accounts[j]
    BY <1>2, <2>3, <2>4, HeadTailProperties
  <2>6. AccountsNamed(Tail(r), bindings)
    <3> SUFFICES ASSUME NEW p \in 1 .. Len(bindings), bindings[p].source = "account"
                 PROVE  /\ bindings[p].at < Len(Tail(r))
                        /\ Tail(r)[bindings[p].at + 1] = bindings[p].meaning.account
      BY DEF AccountsNamed
    <3>1. bindings[p].at < Len(accounts) /\ accounts[bindings[p].at + 1] = bindings[p].meaning.account
      BY <1>1 DEF AccountsNamed
    <3>2. bindings[p].at \in Nat
      <4>1. bindings[p] \in PlannedBinding
        BY <1>1, ElementOfSeq
      <4> QED
        BY <4>1 DEF PlannedBinding
    <3>3. bindings[p].at + 1 \in 1 .. Len(accounts)
      BY <1>2, <3>1, <3>2
    <3> QED
      BY <2>5, <3>1, <3>3
  <2>7. BuiltItem \in Item
    BY <1>1, <1>4, <2>3 DEF Item, BuiltItem, r
  <2> QED
    BY <1>4, <1>5, <2>4, <2>6, <2>7 DEF ItemOK, Behind, a, r
<1>6. CASE a \notin Users
  <2>1. r = <<>> \o accounts
    BY <1>4, <1>6
  <2> HIDE DEF r
  <2>2. r = accounts
    BY <1>1, <2>1
  <2>3. BuiltItem \in Item
    BY <1>1, <1>2, <1>4, <2>2 DEF Item, BuiltItem, r
  <2> QED
    BY <1>1, <1>4, <1>6, <2>2, <2>3 DEF ItemOK, Behind, r
<1> QED
  BY <1>5, <1>6

LEMMA IxLetShape ==
  ASSUME Shape, IxLet
  PROVE  Shape' /\ BuiltItem \in Item /\ unit' = Append(unit, BuiltItem)
<1>1. unit' = Append(unit, BuiltItem) /\ bindings # <<>>
      /\ accounts' = <<>> /\ bindings' = <<>>
      /\ UNCHANGED <<chainVars, scratchVars, synced, running, anchored>>
  BY DEF IxLet, BuiltItem
<1>2. BuiltItem \in Item /\ ItemOK(session.authority, BuiltItem)
  BY <1>1, BuiltItemOK
<1> HIDE DEF BuiltItem
<1>3. UnitShape' /\ ChainShape'
  BY <1>1, <1>2, ItemAppends, ChainStutters DEF Shape, chainVars
<1>4. BuilderShape'
  <2>1. <<>> \in Seq(Account) /\ <<>> \in Seq(PlannedBinding) /\ Len(<<>>) = 0
    OBVIOUS
  <2>2. AccountsNamed(<<>>, <<>>)
    BY <2>1 DEF AccountsNamed
  <2> QED
    BY <1>1, <2>1, <2>2 DEF BuilderShape
<1>5. ScratchShape' /\ TurnShape'
  BY <1>1 DEF Shape, ScratchShape, TurnShape, scratchVars, chainVars
<1> QED
  BY <1>1, <1>2, <1>3, <1>4, <1>5 DEF Shape

LEMMA RefreshShape ==
  ASSUME Shape, Refresh
  PROVE  Shape'
<1>1. /\ cursor' = committed.used /\ next_index' = committed.count /\ synced' = TRUE
      /\ running = "nobody"
      /\ UNCHANGED <<chainVars, sdk, index_types, builderVars, unit, running, anchored>>
  BY DEF Refresh
<1>2. committed.used \in Nat /\ committed.used <= TapeLen
      /\ committed.count \in Nat /\ committed.count <= Capacity(TapeLen)
  BY ChainSessions, SessionFields DEF Shape, ChainShape
<1>3. committed.used \in 0 .. TapeLen /\ committed.count \in PlannedIndex
  <2> HIDE DEF Capacity
  <2> QED
    BY <1>2, TapeFacts DEF PlannedIndex
<1>4. ChainShape' /\ UnitShape'
  BY <1>1, ChainStutters, UnitStutters DEF Shape, chainVars
<1>5. ScratchShape' /\ BuilderShape' /\ TurnShape'
  BY <1>1, <1>3 DEF Shape, ScratchShape, BuilderShape, TurnShape, builderVars, chainVars
<1> QED
  BY <1>4, <1>5 DEF Shape

LEMMA EmptyUnit ==
  ASSUME unit' = <<>>
  PROVE  UnitShape'
BY DEF UnitShape

LEMMA DropShape ==
  ASSUME Shape, Drop
  PROVE  Shape'
<1>1. unit' = <<>> /\ synced' = FALSE
      /\ UNCHANGED <<chainVars, scratchVars, builderVars, running, anchored>>
  BY DEF Drop
<1>2. ChainShape' /\ UnitShape'
  BY <1>1, ChainStutters, EmptyUnit DEF Shape
<1>3. ScratchShape' /\ BuilderShape' /\ TurnShape'
  BY <1>1 DEF Shape, ScratchShape, BuilderShape, TurnShape, builderVars, chainVars, scratchVars
<1> QED
  BY <1>2, <1>3 DEF Shape

\* The first item of a unit, and the rest of it.
LEMMA UnitParts ==
  ASSUME UnitShape, unit # <<>>
  PROVE  /\ Head(unit) \in Item /\ ItemOK(session.authority, Head(unit))
         /\ Tail(unit) \in Seq(Item)
         /\ \A p \in 1 .. Len(Tail(unit)) : ItemOK(session.authority, Tail(unit)[p])
<1> DEFINE n == Len(unit)
           t == Tail(unit)
<1>1. unit \in Seq(Item) /\ \A p \in 1 .. n : ItemOK(session.authority, unit[p])
  BY DEF UnitShape
<1>2. n \in Nat /\ n # 0
  BY <1>1, LenProperties, EmptySeq
<1>3. /\ Head(unit) = unit[1] /\ Head(unit) \in Item /\ t \in Seq(Item)
      /\ Len(t) = n - 1 /\ \A p \in 1 .. n - 1 : t[p] = unit[p + 1]
  BY <1>1, <1>2, HeadTailProperties
<1>4. 1 \in 1 .. n /\ \A p \in 1 .. n - 1 : p + 1 \in 1 .. n
  BY <1>2
<1> HIDE DEF n, t
<1>5. \A p \in 1 .. Len(t) : ItemOK(session.authority, t[p])
  BY <1>1, <1>3, <1>4
<1> QED
  BY <1>1, <1>3, <1>4, <1>5 DEF t

\* A let that has run its first binding, of several.
Shorter(ix) == [ix EXCEPT !.bindings = Tail(@)]

LEMMA ShorterFields ==
  ASSUME NEW ix \in Item
  PROVE  Shorter(ix) = [op |-> ix.op, remaining |-> ix.remaining, bindings |-> Tail(ix.bindings)]
<1> DEFINE o == ix.op
           r == ix.remaining
           b == ix.bindings
           c == Tail(b)
<1>1. ix = [op |-> o, remaining |-> r, bindings |-> b]
  BY DEF Item
<1>2. Shorter(ix) = [ix EXCEPT !.bindings = c]
  BY <1>1 DEF Shorter
<1> HIDE DEF o, r, b, c
<1>3. [ix EXCEPT !.bindings = c] = [op |-> o, remaining |-> r, bindings |-> c]
  BY <1>1
<1> QED
  BY <1>2, <1>3 DEF o, r, b, c

LEMMA ShorterOK ==
  ASSUME NEW ix \in Item, NEW a, ItemOK(a, ix), ix.op = "let", Len(ix.bindings) # 1
  PROVE  /\ Shorter(ix) \in Item /\ ItemOK(a, Shorter(ix))
         /\ Shorter(ix).op = "let" /\ Shorter(ix).bindings = Tail(ix.bindings)
<1> DEFINE bs == ix.bindings
           t == Tail(bs)
           n == Len(bs)
           r == Behind(a, ix.remaining)
<1>1. /\ bs \in Seq(PlannedBinding) /\ bs # <<>> /\ AccountsNamed(r, bs)
      /\ ix.remaining \in Seq(Account \cup Key)
      /\ a \in Users => ix.remaining # <<>>
  BY DEF ItemOK, Item
<1>2. n # 1
  OBVIOUS
<1> HIDE DEF bs, n
<1>3. Shorter(ix) = [op |-> "let", remaining |-> ix.remaining, bindings |-> t]
  BY ShorterFields DEF bs
<1>4. /\ Shorter(ix).op = "let" /\ Shorter(ix).remaining = ix.remaining
      /\ Shorter(ix).bindings = t
  <2> HIDE DEF t
  <2> QED
    BY <1>3
<1>5. n \in Nat /\ n # 0
  BY <1>1, LenProperties, EmptySeq DEF n
<1>6. t \in Seq(PlannedBinding) /\ Len(t) = n - 1 /\ \A p \in 1 .. n - 1 : t[p] = bs[p + 1]
  BY <1>1, <1>5, HeadTailProperties DEF n
<1> HIDE DEF t, r
<1>7. t # <<>>
  <2>1. n - 1 # 0
    BY <1>2, <1>5
  <2> QED
    BY <1>6, <2>1, EmptySeq
<1>8. AccountsNamed(r, t)
  <2>1. \A p \in 1 .. n - 1 : p + 1 \in 1 .. n
    BY <1>5
  <2>2. \A p \in 1 .. n : bs[p].source = "account" =>
          bs[p].at < Len(r) /\ r[bs[p].at + 1] = bs[p].meaning.account
    BY <1>1 DEF AccountsNamed, n
  <2>3. \A p \in 1 .. n - 1 : t[p].source = "account" =>
          t[p].at < Len(r) /\ r[t[p].at + 1] = t[p].meaning.account
    BY <1>6, <2>1, <2>2
  <2> QED
    BY <1>6, <2>3 DEF AccountsNamed
<1>9. Shorter(ix) \in Item
  BY <1>1, <1>3, <1>6 DEF Item
<1> HIDE DEF Shorter
<1> QED
  BY <1>1, <1>4, <1>7, <1>8, <1>9 DEF ItemOK, r, t, bs

\* What is left of a unit after its first binding.
Rest ==
  IF Len(Head(unit).bindings) = 1 THEN Tail(unit) ELSE <<Shorter(Head(unit))>> \o Tail(unit)

LEMMA RestOK ==
  ASSUME UnitShape, unit # <<>>, Head(unit).op = "let"
  PROVE  Rest \in Seq(Item) /\ \A p \in 1 .. Len(Rest) : ItemOK(session.authority, Rest[p])
<1> DEFINE ix == Head(unit)
           t == Tail(unit)
           e == Shorter(ix)
           u == <<e>> \o t
           n == Len(t)
           a == session.authority
<1>1. /\ ix \in Item /\ ItemOK(a, ix) /\ ix.op = "let"
      /\ t \in Seq(Item) /\ \A p \in 1 .. n : ItemOK(a, t[p])
  BY UnitParts
<1>2. CASE Len(ix.bindings) = 1
  BY <1>1, <1>2 DEF Rest
<1>3. CASE Len(ix.bindings) # 1
  <2>1. e \in Item /\ ItemOK(a, e)
    <3> HIDE DEF ix
    <3> QED
      BY <1>1, <1>3, ShorterOK
  <2> HIDE DEF ix, t, e, a
  <2>2. /\ u \in Seq(Item) /\ Len(u) = n + 1 /\ u[1] = e
        /\ \A j \in 1 .. n : u[j + 1] = t[j]
    BY <1>1, <2>1, PrependProperties
  <2>3. n \in Nat
    BY <1>1, LenProperties
  <2> HIDE DEF u, n
  <2>4. ASSUME NEW p \in 1 .. n + 1 PROVE ItemOK(a, u[p])
    <3>1. CASE p = 1
      BY <2>1, <2>2, <3>1
    <3>2. CASE p # 1
      <4>1. p - 1 \in 1 .. n /\ (p - 1) + 1 = p
        BY <2>3, <3>2
      <4> QED
        BY <1>1, <2>2, <4>1
    <3> QED
      BY <3>1, <3>2
  <2>5. Rest = u
    BY <1>3 DEF Rest, u, e, t, ix
  <2> QED
    BY <2>2, <2>4, <2>5 DEF a
<1> QED
  BY <1>2, <1>3

\* The binding a let runs next is one the client planned, with its account.
LEMMA HeadBinding ==
  ASSUME Shape, unit # <<>>, Head(unit).op = "let"
  PROVE  LET ix == Head(unit)
             b == Head(ix.bindings)
             r == Behind(session.authority, ix.remaining)
         IN /\ ix.bindings \in Seq(PlannedBinding) /\ ix.bindings # <<>>
            /\ b \in PlannedBinding
            /\ LetAccounts(ix.remaining) = r /\ r \in Seq(Account \cup Key)
            /\ b.source = "account" => b.at < Len(r) /\ r[b.at + 1] = b.meaning.account
<1> DEFINE ix == Head(unit)
           b == Head(ix.bindings)
           r == Behind(session.authority, ix.remaining)
<1>1. ix \in Item /\ ItemOK(session.authority, ix) /\ ix.op = "let"
  BY UnitParts DEF Shape
<1>2. /\ ix.bindings \in Seq(PlannedBinding) /\ ix.bindings # <<>>
      /\ ix.remaining \in Seq(Account \cup Key)
      /\ session.authority \in Users => ix.remaining # <<>>
      /\ AccountsNamed(r, ix.bindings)
  BY <1>1 DEF Item, ItemOK
<1>3. LetAccounts(ix.remaining) = r
  BY DEF LetAccounts, Behind
<1> HIDE DEF ix
<1>4. b \in PlannedBinding /\ b = ix.bindings[1] /\ 1 \in 1 .. Len(ix.bindings)
  <2>1. Len(ix.bindings) \in Nat /\ Len(ix.bindings) # 0
    BY <1>2, LenProperties, EmptySeq
  <2> QED
    BY <1>2, <2>1, HeadTailProperties
<1>5. r \in Seq(Account \cup Key)
  <2>1. session.authority \in Users => Tail(ix.remaining) \in Seq(Account \cup Key)
    BY <1>2, HeadTailProperties
  <2> QED
    BY <1>2, <2>1 DEF Behind
<1>6. b.source = "account" => b.at < Len(r) /\ r[b.at + 1] = b.meaning.account
  BY <1>2, <1>4 DEF AccountsNamed
<1> QED
  BY <1>2, <1>3, <1>4, <1>5, <1>6 DEF ix

\* How a binding can end on chain.
LEMMA RunBindingCases ==
  ASSUME Shape, RunBinding
  PROVE  LET b == Head(Head(unit).bindings)
             ty == b.meaning.ty
         IN /\ b \in PlannedBinding /\ b.at \in Nat /\ ty \in ValueType
            /\ \/ Fail("UnauthorizedFrameWrite")
               \/ b.source = "value" /\ b.at >= session.count /\ Fail("InvalidValueIndex")
               \/ /\ b.source = "value" /\ b.at < session.count
                  /\ session.binds[b.at].ty # ty /\ Fail("LoadTypeMismatch")
               \/ \E bytes \in Payload(ty) :
                    /\ Bind(ty, bytes)
                    /\ b.source = "account" => bytes = Loaded(ty, b.meaning.account)
                    /\ b.source = "value" =>
                         /\ b.at < session.count /\ session.binds[b.at].ty = ty
                         /\ bytes = session.binds[b.at].bytes
<1> DEFINE ix == Head(unit)
           b == Head(ix.bindings)
           ty == b.meaning.ty
           r == Behind(session.authority, ix.remaining)
<1>1. unit # <<>> /\ Head(unit).op = "let"
  BY DEF RunBinding
<1>2. /\ b \in PlannedBinding
      /\ LetAccounts(ix.remaining) = r /\ r \in Seq(Account \cup Key)
      /\ b.source = "account" => b.at < Len(r) /\ r[b.at + 1] = b.meaning.account
  BY <1>1, HeadBinding
<1>3. IF ~ GatePasses(ix.remaining) THEN Fail("UnauthorizedFrameWrite")
      ELSE IF b.source = "account"
      THEN IF b.at >= Len(LetAccounts(ix.remaining)) THEN Fail("AccountIndexOutOfRange")
           ELSE Bind(ty, Loaded(ty, LetAccounts(ix.remaining)[b.at + 1]))
      ELSE IF b.at >= session.count THEN Fail("InvalidValueIndex")
      ELSE IF session.binds[b.at].ty # ty THEN Fail("LoadTypeMismatch")
      ELSE Bind(ty, session.binds[b.at].bytes)
  BY DEF RunBinding
<1> HIDE DEF ix, b, r
<1>4. b.source \in {"account", "value"} /\ b.at \in Nat /\ ty \in ValueType
      /\ b.meaning.account \in Account
  BY <1>2 DEF PlannedBinding, RealMeaning
<1>5. CASE ~ GatePasses(ix.remaining)
  BY <1>2, <1>3, <1>4, <1>5 DEF b, ix
<1>6. CASE GatePasses(ix.remaining) /\ b.source = "account"
  <2>1. Len(r) \in Nat
    BY <1>2, LenProperties
  <2>2. ~ b.at >= Len(r)
    BY <1>2, <1>4, <1>6, <2>1
  <2>3. Bind(ty, Loaded(ty, b.meaning.account))
    BY <1>2, <1>3, <1>6, <2>2
  <2>4. Loaded(ty, b.meaning.account) \in Payload(ty)
    <3> HIDE DEF ty
    <3> QED
      BY <1>4, LoadedPayload
  <2>5. b.source # "value"
    BY <1>6
  <2> QED
    BY <1>2, <1>4, <2>3, <2>4, <2>5 DEF b, ix
<1>7. CASE GatePasses(ix.remaining) /\ b.source = "value"
  <2>1. b.source # "account"
    BY <1>7
  <2>2. session.count \in Nat
    BY ChainSessions, SessionFields DEF Shape
  <2>3. CASE b.at >= session.count
    BY <1>2, <1>3, <1>4, <1>7, <2>1, <2>3 DEF b, ix
  <2>4. CASE b.at < session.count
    <3>1. ~ b.at >= session.count /\ b.at \in 0 .. session.count - 1
      BY <1>4, <2>2, <2>4
    <3>2. session.binds[b.at].bytes \in Payload(session.binds[b.at].ty)
      BY <3>1, ChainSessions, SessionFields DEF Shape
    <3>3. CASE session.binds[b.at].ty # ty
      BY <1>2, <1>3, <1>4, <1>7, <2>1, <2>4, <3>1, <3>3 DEF b, ix
    <3>4. CASE session.binds[b.at].ty = ty
      <4>1. Bind(ty, session.binds[b.at].bytes)
        BY <1>3, <1>7, <2>1, <3>1, <3>4
      <4> QED
        BY <1>2, <1>4, <2>1, <2>4, <3>2, <3>4, <4>1 DEF b, ix
    <3> QED
      BY <3>3, <3>4
  <2>5. b.at >= session.count \/ b.at < session.count
    BY <1>4, <2>2
  <2> QED
    BY <2>3, <2>4, <2>5, Zenon
<1> QED
  BY <1>4, <1>5, <1>6, <1>7

\* Errors are not answers.
LEMMA ErrorIsNotOk ==
  ASSUME NEW err, err # "Ok", Fail(err)
  PROVE  ret'.err = err /\ ret'.err # "Ok" /\ ~ open' /\ session' = committed
BY DEF Fail, ErrorReply, NoReply

LEMMA ValueIsOk ==
  ASSUME NEW i, NEW ty, NEW bytes
  PROVE  /\ ValueReply(i, ty, bytes).err = "Ok" /\ ValueReply(i, ty, bytes).index = i
         /\ ValueReply(i, ty, bytes).ty = ty /\ ValueReply(i, ty, bytes).bytes = bytes
         /\ NoReply.err = "Ok"
BY DEF ValueReply, NoReply

LEMMA LandShape ==
  ASSUME Shape, Land
  PROVE  Shape'
<1>1. /\ Begin(Users) /\ running' = "unit" /\ bindings = <<>> /\ anchored' \in {"refresh", "no"}
      /\ UNCHANGED <<scratchVars, builderVars, unit, synced>>
  BY DEF Land
<1>2. Users \in SUBSET Users
  OBVIOUS
<1>3. ChainShape' /\ open' /\ session' = session
  BY <1>1, <1>2, ChainBegin DEF Shape
<1>4. UnitShape'
  BY <1>1, <1>3, UnitStutters DEF Shape
<1>5. ScratchShape' /\ BuilderShape' /\ TurnShape'
  BY <1>1, <1>3 DEF Shape, ScratchShape, BuilderShape, TurnShape, scratchVars, builderVars
<1> QED
  BY <1>3, <1>4, <1>5 DEF Shape

\* The rest of a unit, or the end of a failed one.
LEMMA ContinuesShape ==
  ASSUME Shape, NEW rest, Continues(rest), ChainShape', running = "unit",
         session'.authority = session.authority,
         rest \in Seq(Item), \A p \in 1 .. Len(rest) : ItemOK(session.authority, rest[p]),
         open' <=> ret'.err = "Ok", anchored' \in {anchored, "reset"}
  PROVE  Shape'
<1>1. UNCHANGED <<scratchVars, builderVars>>
  BY DEF Continues
<1>2. ScratchShape' /\ BuilderShape' /\ bindings' = <<>>
  BY <1>1 DEF Shape, ScratchShape, BuilderShape, TurnShape, scratchVars, builderVars
<1>3. CASE ret'.err = "Ok"
  <2>1. unit' = rest /\ synced' = synced /\ running' = running
    BY <1>3 DEF Continues
  <2>2. UnitShape'
    BY <2>1 DEF UnitShape
  <2>3. TurnShape'
    BY <1>2, <1>3, <2>1 DEF Shape, TurnShape
  <2> QED
    BY <1>2, <2>2, <2>3 DEF Shape
<1>4. CASE ret'.err # "Ok"
  <2>1. unit' = <<>> /\ synced' = FALSE /\ running' = "nobody"
    BY <1>4 DEF Continues
  <2>2. UnitShape'
    BY <2>1, EmptyUnit
  <2>3. TurnShape'
    BY <1>2, <1>4, <2>1 DEF Shape, TurnShape
  <2> QED
    BY <1>2, <2>2, <2>3 DEF Shape
<1> QED
  BY <1>3, <1>4

LEMMA RunResetShape ==
  ASSUME Shape, RunReset
  PROVE  /\ Shape'
         /\ \/ ret' = NoReply /\ session'.count = 0 /\ session'.used = 0
            \/ Fail("UnauthorizedFrameWrite")
<1>1. /\ running = "unit" /\ unit # <<>> /\ anchored' = "reset" /\ Continues(Tail(unit))
      /\ Reset \/ Fail("UnauthorizedFrameWrite")
  BY DEF RunReset
<1>2. Tail(unit) \in Seq(Item) /\ \A p \in 1 .. Len(Tail(unit)) : ItemOK(session.authority, Tail(unit)[p])
  BY <1>1, UnitParts DEF Shape
<1>3. open
  BY <1>1 DEF Shape, TurnShape
<1>4. CASE Reset
  <2>1. /\ ChainShape' /\ open' = open /\ session'.authority = session.authority
        /\ session'.count = 0 /\ session'.used = 0 /\ ret' = NoReply
    BY <1>4, ChainReset DEF Shape
  <2>2. open' <=> ret'.err = "Ok"
    BY <1>3, <2>1, ValueIsOk
  <2> QED
    BY <1>1, <1>2, <2>1, <2>2, ContinuesShape
<1>5. CASE Fail("UnauthorizedFrameWrite")
  <2>1. ChainShape' /\ session'.authority = session.authority
    BY <1>5, ChainFail DEF Shape
  <2>2. open' <=> ret'.err = "Ok"
    BY <1>5, ErrorIsNotOk
  <2> QED
    BY <1>1, <1>2, <1>5, <2>1, <2>2, ContinuesShape
<1> QED
  BY <1>1, <1>4, <1>5

LEMMA RunBindingShape ==
  ASSUME Shape, RunBinding
  PROVE  Shape'
<1> DEFINE b == Head(Head(unit).bindings)
           ty == b.meaning.ty
<1>1. running = "unit" /\ unit # <<>> /\ Head(unit).op = "let" /\ anchored' = anchored
  BY DEF RunBinding
<1>2. Continues(Rest)
  BY DEF RunBinding, Rest, Shorter
<1>3. Rest \in Seq(Item) /\ \A p \in 1 .. Len(Rest) : ItemOK(session.authority, Rest[p])
  BY <1>1, RestOK DEF Shape
<1>4. open /\ ChainShape
  BY <1>1 DEF Shape, TurnShape
<1>5. /\ ty \in ValueType
      /\ \/ \E err \in {"UnauthorizedFrameWrite", "InvalidValueIndex", "LoadTypeMismatch"} : Fail(err)
         \/ \E bytes \in Payload(ty) : Bind(ty, bytes)
  BY RunBindingCases
<1> HIDE DEF ty
<1>6. ChainShape' /\ session'.authority = session.authority /\ (open' <=> ret'.err = "Ok")
  <2>1. ASSUME NEW err, err # "Ok", Fail(err)
        PROVE  ChainShape' /\ session'.authority = session.authority /\ (open' <=> ret'.err = "Ok")
    BY <1>4, <2>1, ChainFail, ErrorIsNotOk
  <2>2. ASSUME NEW bytes \in Payload(ty), Bind(ty, bytes)
        PROVE  ChainShape' /\ session'.authority = session.authority /\ (open' <=> ret'.err = "Ok")
    <3>1. /\ ChainShape' /\ session'.authority = session.authority
          /\ \/ Fail("IndexCapReached")
             \/ Fail("TapeOutOfBounds")
             \/ ret' = ValueReply(session.count, ty, bytes) /\ open' = open
      BY <1>4, <1>5, <2>2, ChainBind
    <3>2. ASSUME ret' = ValueReply(session.count, ty, bytes) PROVE ret'.err = "Ok"
      BY <3>2, ValueIsOk
    <3>3. ASSUME Fail("IndexCapReached") \/ Fail("TapeOutOfBounds") PROVE open' <=> ret'.err = "Ok"
      BY <3>3, ErrorIsNotOk
    <3> QED
      BY <1>4, <3>1, <3>2, <3>3
  <2> QED
    BY <1>5, <2>1, <2>2
<1> QED
  BY <1>1, <1>2, <1>3, <1>6, ContinuesShape

LEMMA FinishShape ==
  ASSUME Shape, Finish
  PROVE  Shape'
<1>1. /\ running' = "nobody" /\ synced' = FALSE /\ Commit
      /\ UNCHANGED <<scratchVars, builderVars, unit, anchored>>
  BY DEF Finish
<1>2. ChainShape' /\ ~ open' /\ session' = session
  BY <1>1, ChainCommit DEF Shape
<1>3. UnitShape'
  BY <1>1, <1>2, UnitStutters DEF Shape
<1>4. ScratchShape' /\ BuilderShape' /\ TurnShape'
  BY <1>1, <1>2 DEF Shape, ScratchShape, BuilderShape, TurnShape, scratchVars, builderVars
<1> QED
  BY <1>2, <1>3, <1>4 DEF Shape

LEMMA ForeignBeginShape ==
  ASSUME Shape, NEW S \in SUBSET Users, ForeignBegin(S)
  PROVE  Shape'
<1>1. /\ Begin(S) /\ running' = "foreign" /\ anchored' = "no" /\ synced' = FALSE
      /\ UNCHANGED <<scratchVars, builderVars, unit>>
  BY DEF ForeignBegin
<1>2. ChainShape' /\ open' /\ session' = session
  BY <1>1, ChainBegin DEF Shape
<1>3. UnitShape'
  BY <1>1, <1>2, UnitStutters DEF Shape
<1>4. ScratchShape' /\ BuilderShape' /\ TurnShape'
  BY <1>1, <1>2 DEF Shape, ScratchShape, BuilderShape, TurnShape, scratchVars, builderVars
<1> QED
  BY <1>2, <1>3, <1>4 DEF Shape

LEMMA ForeignStepShape ==
  ASSUME Shape, ForeignStep
  PROVE  Shape'
<1>1. /\ running = "foreign"
      /\ running' = IF ret'.err = "Ok" THEN "foreign" ELSE "nobody"
      /\ UNCHANGED <<scratchVars, builderVars, unit, synced, anchored>>
      /\ Reset \/ \E k \in Account : Bind(Field[k], Loaded(Field[k], k))
  BY DEF ForeignStep
<1>2. open /\ ChainShape
  BY <1>1 DEF Shape, TurnShape
<1>3. ChainShape' /\ session'.authority = session.authority /\ (open' <=> ret'.err = "Ok")
  <2>1. CASE Reset
    BY <1>2, <2>1, ChainReset, ValueIsOk
  <2>2. ASSUME NEW k \in Account, Bind(Field[k], Loaded(Field[k], k))
        PROVE  ChainShape' /\ session'.authority = session.authority /\ (open' <=> ret'.err = "Ok")
    <3> DEFINE ty == Field[k]
               bytes == Loaded(ty, k)
    <3>1. ty \in ValueType
      BY PlannerAssumption
    <3> HIDE DEF ty
    <3>2. bytes \in Payload(ty)
      BY <3>1, LoadedPayload
    <3> HIDE DEF bytes
    <3>3. Bind(ty, bytes)
      BY <2>2 DEF ty, bytes
    <3>4. /\ ChainShape' /\ session'.authority = session.authority
          /\ \/ Fail("IndexCapReached")
             \/ Fail("TapeOutOfBounds")
             \/ ret' = ValueReply(session.count, ty, bytes) /\ open' = open
      BY <1>2, <3>1, <3>2, <3>3, ChainBind
    <3>5. ASSUME ret' = ValueReply(session.count, ty, bytes) PROVE ret'.err = "Ok"
      BY <3>5, ValueIsOk
    <3>6. ASSUME Fail("IndexCapReached") \/ Fail("TapeOutOfBounds") PROVE open' <=> ret'.err = "Ok"
      BY <3>6, ErrorIsNotOk
    <3> QED
      BY <1>2, <3>4, <3>5, <3>6
  <2> QED
    BY <1>1, <2>1, <2>2
<1>4. UnitShape'
  BY <1>1, <1>3, UnitStutters DEF Shape
<1>5. ScratchShape' /\ BuilderShape' /\ TurnShape'
  BY <1>1, <1>3 DEF Shape, ScratchShape, BuilderShape, TurnShape, scratchVars, builderVars
<1> QED
  BY <1>3, <1>4, <1>5 DEF Shape

LEMMA ForeignCommitShape ==
  ASSUME Shape, ForeignCommit
  PROVE  Shape'
<1>1. /\ running = "foreign" /\ running' = "nobody" /\ Commit
      /\ UNCHANGED <<scratchVars, builderVars, unit, synced, anchored>>
  BY DEF ForeignCommit
<1>2. ChainShape' /\ ~ open' /\ session' = session
  BY <1>1, ChainCommit DEF Shape
<1>3. UnitShape'
  BY <1>1, <1>2, UnitStutters DEF Shape
<1>4. ScratchShape' /\ BuilderShape' /\ TurnShape'
  BY <1>1, <1>2 DEF Shape, ScratchShape, BuilderShape, TurnShape, scratchVars, builderVars
<1> QED
  BY <1>2, <1>3, <1>4 DEF Shape

LEMMA InitShape ==
  ASSUME PlannerInit
  PROVE  Shape
<1>1. PICK a \in Key \ {DefaultKey} : committed = NewSession(a, TapeLen, 0)
  BY DEF PlannerInit
<1>2. SessionOK(committed)
  <2>1. 0 \in 0 .. U64 - 1 /\ TapeLen \in 1 .. MaxTapeLen
    BY TapeFacts, SSAAssumption
  <2> QED
    BY <1>1, <2>1, NewSessionOK
<1>3. committed.tape_len = TapeLen /\ committed # NoFrame /\ session = committed
      /\ open = FALSE /\ signers = {}
  BY <1>1, <1>2, SessionFields DEF PlannerInit, NewSession
<1>4. ChainShape
  BY <1>2, <1>3 DEF ChainShape, SSATypeOK
<1>5. ScratchShape
  BY TapeFacts DEF PlannerInit, ScratchShape, Meanings, PlannedIndex
<1>6. BuilderShape
  <2>1. <<>> \in Seq(Account) /\ <<>> \in Seq(PlannedBinding) /\ Len(<<>>) = 0
    OBVIOUS
  <2>2. AccountsNamed(<<>>, <<>>)
    BY <2>1 DEF AccountsNamed
  <2> QED
    BY <2>1, <2>2 DEF PlannerInit, BuilderShape
<1>7. UnitShape /\ TurnShape
  <2>1. <<>> \in Seq(Item) /\ Len(<<>>) = 0
    OBVIOUS
  <2>2. UnitShape
    BY <2>1 DEF PlannerInit, UnitShape
  <2>3. TurnShape
    BY <1>3 DEF PlannerInit, TurnShape
  <2> QED
    BY <2>2, <2>3
<1> QED
  BY <1>4, <1>5, <1>6, <1>7 DEF Shape

LEMMA ShapeStutters ==
  ASSUME Shape, UNCHANGED allVars
  PROVE  Shape'
<1>1. ChainShape' /\ UnitShape'
  BY ChainStutters, UnitStutters DEF Shape, allVars, plannerVars, chainVars
<1>2. ScratchShape' /\ BuilderShape' /\ TurnShape'
  BY DEF Shape, ScratchShape, BuilderShape, TurnShape, allVars, plannerVars, chainVars,
         scratchVars, builderVars
<1> QED
  BY <1>1, <1>2 DEF Shape

LEMMA NextShape ==
  ASSUME Shape, [PlannerNext]_allVars
  PROVE  Shape'
<1>1. ASSUME NEW k \in Account, PlanLoad(k) PROVE Shape'
  BY <1>1, PlanLoadShape
<1>2. ASSUME NEW i \in PlannedIndex, PlanEval(i) PROVE Shape'
  BY <1>2, PlanEvalShape
<1>3. ASSUME NEW S \in SUBSET Users, ForeignBegin(S) PROVE Shape'
  BY <1>3, ForeignBeginShape
<1>4. CASE IxReset \/ IxLet \/ Refresh \/ Drop
  BY <1>4, IxResetShape, IxLetShape, RefreshShape, DropShape
<1>5. CASE Land \/ RunReset \/ RunBinding \/ Finish
  BY <1>5, LandShape, RunResetShape, RunBindingShape, FinishShape
<1>6. CASE ForeignStep \/ ForeignCommit
  BY <1>6, ForeignStepShape, ForeignCommitShape
<1>7. CASE UNCHANGED allVars
  BY <1>7, ShapeStutters
<1> QED
  BY <1>1, <1>2, <1>3, <1>4, <1>5, <1>6, <1>7 DEF PlannerNext

\* The planner and the chain stay well formed, for every SDK and every tape:
\* its counters never leave their ranges, whatever is refused, lost or landed
\* in between (FrameScratch::plan, ix_reset, refreshFromChain).
THEOREM PlannerTypes == PlannerSpec => []PlannerTypeOK
<1>1. PlannerInit => Shape
  BY InitShape
<1>2. Shape /\ [PlannerNext]_allVars => Shape'
  BY NextShape
<1>3. Shape => PlannerTypeOK
  BY ShapeTypes
<1> QED
  BY <1>1, <1>2, <1>3, PTL DEF PlannerSpec

-----------------------------------------------------------------------------
(* Predictions.                                                            *)

\* The next index fits the client's number: the Rust planner's u8 saturates
\* and the Go planner's wraps, so for them a tape has fewer than U8 indices
\* (one of less than 512 bytes); the TypeScript planner's numbers are exact.
IndexIsExact == \A d \in Sdk : d = "ts" \/ Capacity(TapeLen) < U8

\* A binding b planned in language d when the planner predicted P: it has the
\* next index, it fits, and the values it reads have been planned.
Advances(d, P, b, Q) ==
  /\ b.index = P.index /\ P.index < Capacity(TapeLen)
  /\ Q.index = P.index + 1
  /\ Q.types = [P.types EXCEPT ![P.index] = b.meaning]
  /\ d # "rust" => Q.cursor = P.cursor + 1 + Size[b.meaning.ty]
  /\ b.source = "value" => b.at < U8 /\ P.types[b.at] = b.meaning /\ b.meaning # NoMeaning

BindingStep(d) ==
  {t \in Prediction \X PlannedBinding \X Prediction : Advances(d, t[1], t[2], t[3])}

\* An instruction: a reset clears the prediction, a let advances it.
Passes(d, P, ix, Q) ==
  \/ ix.op = "reset" /\ Q = Cleared
  \/ ix.op = "let" /\ Path(BindingStep(d), P, Q, ix.bindings)

ItemStep(d) == {t \in Prediction \X Item \X Prediction : Passes(d, t[1], t[2], t[3])}

\* The prediction P counts as the session s does; the Rust cursor is no cursor.
Agrees(d, P, s) == P.index = s.count /\ (d # "rust" => P.cursor = s.used)

\* What has been planned is bound, with the content that was meant.
Holds(types, s) ==
  \A i \in PlannedIndex : types[i] # NoMeaning =>
    /\ i < s.count
    /\ s.binds[i] = [ty |-> types[i].ty, bytes |-> Loaded(types[i].ty, types[i].account)]

\* Where the path of predictions starts, and what holds there.
Anchor(start) ==
  /\ running = "unit" /\ anchored # "no" => Agrees(sdk, start, session)
  /\ running = "unit" /\ anchored = "reset" => Holds(start.types, session)
  /\ running = "nobody" /\ synced => Agrees(sdk, start, committed)

Predicted ==
  \E start, mid \in Prediction :
    /\ Path(ItemStep(sdk), start, mid, unit)
    /\ Path(BindingStep(sdk), mid, Now, bindings)
    /\ Anchor(start)

Replies == PlanFitsIndex /\ PlanReads /\ (sdk # "rust" => PlanFitsTape)

PlannerInv == Shape /\ Predicted /\ Replies

LEMMA BindingStepDef ==
  ASSUME NEW d, NEW P \in Prediction, NEW b \in PlannedBinding, NEW Q \in Prediction
  PROVE  <<P, b, Q>> \in BindingStep(d) <=> Advances(d, P, b, Q)
BY DEF BindingStep

LEMMA ItemStepDef ==
  ASSUME NEW d, NEW P \in Prediction, NEW ix \in Item, NEW Q \in Prediction
  PROVE  <<P, ix, Q>> \in ItemStep(d) <=> Passes(d, P, ix, Q)
BY DEF ItemStep

LEMMA PredictOK ==
  ASSUME NEW i \in PlannedIndex, NEW c \in 0 .. TapeLen, NEW types \in [PlannedIndex -> Meanings]
  PROVE  /\ Predict(i, c, types) \in Prediction
         /\ Predict(i, c, types).index = i /\ Predict(i, c, types).cursor = c
         /\ Predict(i, c, types).types = types
BY DEF Predict, Prediction

LEMMA NowOK ==
  /\ ScratchShape => Now \in Prediction
  /\ ScratchShape' => Now' \in Prediction
  /\ Cleared \in Prediction
<1>1. 0 \in PlannedIndex /\ 0 \in 0 .. TapeLen /\ Unpredicted \in [PlannedIndex -> Meanings]
  BY TapeFacts DEF PlannedIndex, Unpredicted, Meanings
<1> QED
  BY <1>1, PredictOK DEF Now, ScratchShape, Cleared

\* What plan() accepts is a step of the prediction.
LEMMA PlanAdvances ==
  ASSUME IndexIsExact, ScratchShape, ScratchShape',
         NEW b \in PlannedBinding, b.index = next_index,
         PlanAccepts(b.meaning.ty),
         cursor' = EndCursor(cursor, b.meaning.ty), next_index' = IndexAfter(next_index),
         index_types' = [index_types EXCEPT ![next_index] = b.meaning],
         b.source = "value" => b.at < U8 /\ index_types[b.at] = b.meaning /\ b.meaning # NoMeaning
  PROVE  <<Now, b, Now'>> \in BindingStep(sdk)
<1>1. Now \in Prediction /\ Now' \in Prediction
  BY NowOK
<1>2. /\ Now.index = next_index /\ Now.cursor = cursor /\ Now.types = index_types
      /\ Now'.index = next_index' /\ Now'.cursor = cursor' /\ Now'.types = index_types'
  BY DEF Now, Predict
<1>3. next_index < Capacity(TapeLen)
  BY DEF PlanAccepts
<1>4. next_index' = next_index + 1
  <2>1. next_index \in Nat /\ Capacity(TapeLen) \in Nat /\ U8 \in Nat /\ U8 > 0
    BY TapeFacts DEF ScratchShape, PlannedIndex
  <2>2. sdk \in {"rust", "ts", "go"} /\ (sdk = "ts" \/ Capacity(TapeLen) < U8)
    BY PlannerAssumption DEF ScratchShape, IndexIsExact
  <2> HIDE DEF Capacity
  <2>3. CASE sdk = "ts"
    BY <2>3 DEF IndexAfter
  <2>4. CASE sdk # "ts"
    <3>1. next_index + 1 < U8 /\ next_index + 1 \in Nat
      BY <1>3, <2>1, <2>2, <2>4
    <3>2. (next_index + 1) % U8 = next_index + 1
      BY <2>1, <3>1
    <3> QED
      BY <2>2, <2>4, <3>1, <3>2 DEF IndexAfter
  <2> QED
    BY <2>3, <2>4
<1>5. sdk # "rust" => cursor' = cursor + 1 + Size[b.meaning.ty]
  BY DEF EndCursor
<1>6. Advances(sdk, Now, b, Now')
  <2> HIDE DEF Now, Capacity
  <2> QED
    BY <1>2, <1>3, <1>4, <1>5 DEF Advances
<1> HIDE DEF Now
<1> QED
  BY <1>1, <1>6, BindingStepDef

-----------------------------------------------------------------------------
(* Steps of the client.                                                    *)

LEMMA RepliesStay ==
  ASSUME Replies, ret' = ret, anchored' = anchored, sdk' = sdk
  PROVE  Replies'
BY DEF Replies, PlanFitsIndex, PlanFitsTape, PlanReads

LEMMA AnchorStays ==
  ASSUME NEW start, Anchor(start), UNCHANGED <<sdk, session, committed, running, anchored, synced>>
  PROVE  Anchor(start)'
BY DEF Anchor

\* Whatever is planned prolongs the path.
LEMMA PlanPredicts ==
  ASSUME IndexIsExact, Shape, Shape', Predicted,
         NEW source \in {"account", "value"}, NEW at \in Nat, NEW meaning \in RealMeaning,
         Plan(source, at, meaning),
         source = "value" => at < U8 /\ index_types[at] = meaning /\ meaning # NoMeaning
  PROVE  Predicted'
<1> DEFINE b == [source |-> source, at |-> at, meaning |-> meaning, index |-> next_index]
<1>1. /\ ScratchShape' /\ b \in PlannedBinding
      /\ UNCHANGED <<chainVars, unit, synced, running, anchored, sdk>>
      /\ \/ UNCHANGED <<scratchVars, bindings>>
         \/ /\ PlanAccepts(meaning.ty) /\ bindings' = Append(bindings, b)
            /\ cursor' = EndCursor(cursor, meaning.ty)
            /\ next_index' = IndexAfter(next_index)
            /\ index_types' = [index_types EXCEPT ![next_index] = meaning]
  BY PlanCases
<1>2. b.source = source /\ b.at = at /\ b.meaning = meaning /\ b.index = next_index
  OBVIOUS
<1> HIDE DEF b
<1>3. PICK start \in Prediction, mid \in Prediction :
        /\ Path(ItemStep(sdk), start, mid, unit)
        /\ Path(BindingStep(sdk), mid, Now, bindings)
        /\ Anchor(start)
  BY DEF Predicted
<1>4. Anchor(start)'
  BY <1>1, <1>3, AnchorStays DEF chainVars
<1>5. Path(BindingStep(sdk), mid, Now', bindings')
  <2>1. CASE UNCHANGED <<scratchVars, bindings>>
    <3>1. Now' = Now /\ bindings' = bindings
      BY <2>1 DEF Now, scratchVars
    <3> QED
      BY <1>3, <3>1
  <2>2. CASE /\ PlanAccepts(meaning.ty) /\ bindings' = Append(bindings, b)
             /\ cursor' = EndCursor(cursor, meaning.ty)
             /\ next_index' = IndexAfter(next_index)
             /\ index_types' = [index_types EXCEPT ![next_index] = meaning]
    <3>1. ScratchShape /\ bindings \in Seq(PlannedBinding)
      BY DEF Shape, BuilderShape
    <3>2. <<Now, b, Now'>> \in BindingStep(sdk)
      BY <1>1, <1>2, <2>2, <3>1, PlanAdvances
    <3>3. Now \in Prediction /\ Now' \in Prediction
      BY <1>1, <3>1, NowOK
    <3> HIDE DEF Now
    <3> DEFINE now == Now
               next == Now'
    <3>4. now \in Prediction /\ next \in Prediction /\ <<now, b, next>> \in BindingStep(sdk)
          /\ Path(BindingStep(sdk), mid, now, bindings)
      BY <1>3, <3>2, <3>3
    <3> HIDE DEF now, next
    <3>5. Path(BindingStep(sdk), mid, next, Append(bindings, b))
      BY <1>1, <3>1, <3>4, PathAppend
    <3> QED
      BY <2>2, <3>5 DEF next
  <2> QED
    BY <1>1, <2>1, <2>2
<1> HIDE DEF Now
<1> QED
  BY <1>1, <1>3, <1>4, <1>5 DEF Predicted

LEMMA PlanLoadPredicts ==
  ASSUME IndexIsExact, PlannerInv, NEW k \in Account, PlanLoad(k)
  PROVE  Predicted' /\ Replies'
<1> DEFINE more == Interned(k)
           at == Position(more, k) - 1
           mean == Meaning(Field[k], k)
<1>1. Plan("account", at, mean) /\ Shape'
  BY PlanLoadShape DEF PlannerInv, PlanLoad
<1>2. at \in Nat
  BY InternedAccounts DEF PlannerInv, Shape, BuilderShape
<1>3. mean \in RealMeaning
  BY PlannerAssumption DEF Meaning, RealMeaning
<1> HIDE DEF at, mean
<1>4. Predicted'
  BY <1>1, <1>2, <1>3, PlanPredicts DEF PlannerInv
<1>5. Replies'
  <2>1. ret' = ret /\ anchored' = anchored /\ sdk' = sdk
    BY <1>1 DEF Plan, chainVars, scratchVars
  <2> QED
    BY <2>1, RepliesStay DEF PlannerInv
<1> QED
  BY <1>4, <1>5

LEMMA PlanEvalPredicts ==
  ASSUME IndexIsExact, PlannerInv, NEW i \in PlannedIndex, PlanEval(i)
  PROVE  Predicted' /\ Replies'
<1> DEFINE mean == index_types[i]
<1>1. Plan("value", i, mean) /\ Shape' /\ i \in Nat /\ mean \in RealMeaning
      /\ i < U8 /\ mean # NoMeaning
  BY PlanEvalShape DEF PlannerInv, PlanEval
<1>2. index_types[i] = mean
  OBVIOUS
<1> HIDE DEF mean
<1>3. Predicted'
  BY <1>1, <1>2, PlanPredicts DEF PlannerInv
<1>4. Replies'
  <2>1. ret' = ret /\ anchored' = anchored /\ sdk' = sdk
    BY <1>1 DEF Plan, chainVars, scratchVars
  <2> QED
    BY <2>1, RepliesStay DEF PlannerInv
<1> QED
  BY <1>3, <1>4

\* With nothing planned and nothing to run, the path is empty and starts now.
LEMMA NothingPlanned ==
  ASSUME ScratchShape', unit' = <<>>, bindings' = <<>>, Anchor(Now)'
  PROVE  Predicted'
<1> DEFINE now == Now'
           none == <<>>
<1>1. now \in Prediction /\ none \in Seq(Item) /\ none \in Seq(PlannedBinding)
  BY NowOK
<1>2. Path(ItemStep(sdk'), now, now, none) /\ Path(BindingStep(sdk'), now, now, none)
  <2> HIDE DEF now
  <2> QED
    BY <1>1, PathEmpty
<1>3. unit' = none /\ bindings' = none /\ Now' = now
  OBVIOUS
<1>4. /\ running' = "unit" /\ anchored' # "no" => Agrees(sdk', now, session')
      /\ running' = "unit" /\ anchored' = "reset" => Holds(now.types, session')
      /\ running' = "nobody" /\ synced' => Agrees(sdk', now, committed')
  BY DEF Anchor
<1> HIDE DEF now, none, Now, Agrees, Holds
<1> QED
  BY <1>1, <1>2, <1>3, <1>4 DEF Predicted, Anchor

LEMMA IxResetPredicts ==
  ASSUME PlannerInv, IxReset
  PROVE  Predicted' /\ Replies'
<1>1. Shape /\ ScratchShape' /\ ResetItem \in Item
  BY IxResetShape DEF PlannerInv
<1>2. PICK start \in Prediction, mid \in Prediction :
        /\ Path(ItemStep(sdk), start, mid, unit)
        /\ Path(BindingStep(sdk), mid, Now, bindings)
        /\ Anchor(start)
  BY DEF PlannerInv, Predicted
<1>3. /\ bindings = <<>> /\ bindings' = <<>> /\ unit' = Append(unit, ResetItem)
      /\ UNCHANGED <<sdk, committed, session, ret, running, anchored, synced>>
  BY DEF IxReset, ResetItem, chainVars, builderVars
<1>4. Now' = Cleared
  BY DEF IxReset, ResetScratch, Now, Cleared, Unpredicted
<1>5. <<mid, ResetItem, Cleared>> \in ItemStep(sdk) /\ Cleared \in Prediction
  <2>1. Passes(sdk, mid, ResetItem, Cleared)
    BY DEF Passes, ResetItem
  <2> HIDE DEF Cleared, ResetItem
  <2> QED
    BY <1>1, <2>1, ItemStepDef, NowOK
<1> HIDE DEF Now, Cleared, ResetItem
<1>6. Path(ItemStep(sdk), start, Cleared, Append(unit, ResetItem))
  <2>1. unit \in Seq(Item)
    BY <1>1 DEF Shape, UnitShape
  <2> QED
    BY <1>1, <1>2, <1>5, <2>1, PathAppend
<1>7. Path(BindingStep(sdk), Cleared, Cleared, <<>>)
  <2>1. <<>> \in Seq(PlannedBinding)
    OBVIOUS
  <2> QED
    BY <1>5, <2>1, PathEmpty
<1>8. Anchor(start)'
  BY <1>2, <1>3, AnchorStays
<1>9. Predicted'
  BY <1>2, <1>3, <1>4, <1>5, <1>6, <1>7, <1>8 DEF Predicted
<1> QED
  BY <1>3, <1>9, RepliesStay DEF PlannerInv

LEMMA IxLetPredicts ==
  ASSUME PlannerInv, IxLet
  PROVE  Predicted' /\ Replies'
<1>1. Shape /\ Shape' /\ BuiltItem \in Item /\ unit' = Append(unit, BuiltItem)
  BY IxLetShape DEF PlannerInv
<1>2. PICK start \in Prediction, mid \in Prediction :
        /\ Path(ItemStep(sdk), start, mid, unit)
        /\ Path(BindingStep(sdk), mid, Now, bindings)
        /\ Anchor(start)
  BY DEF PlannerInv, Predicted
<1>3. /\ bindings' = <<>>
      /\ UNCHANGED <<sdk, committed, session, ret, running, anchored, synced, cursor, next_index,
                     index_types>>
  BY DEF IxLet, chainVars, scratchVars
<1>4. Now' = Now /\ Now \in Prediction
  BY <1>1, <1>3, NowOK DEF Now, Shape
<1>5. BuiltItem.op = "let" /\ BuiltItem.bindings = bindings
  BY DEF BuiltItem
<1> HIDE DEF BuiltItem, Now
<1> DEFINE now == Now
<1>6. now \in Prediction /\ Path(BindingStep(sdk), mid, now, bindings)
  BY <1>2, <1>4
<1>7. Now' = now
  BY <1>4
<1> HIDE DEF now
<1>8. <<mid, BuiltItem, now>> \in ItemStep(sdk)
  <2>1. Passes(sdk, mid, BuiltItem, now)
    BY <1>5, <1>6 DEF Passes
  <2> QED
    BY <1>1, <1>6, <2>1, ItemStepDef
<1>9. Path(ItemStep(sdk), start, now, Append(unit, BuiltItem))
  <2>1. unit \in Seq(Item)
    BY <1>1 DEF Shape, UnitShape
  <2> QED
    BY <1>1, <1>2, <1>6, <1>8, <2>1, PathAppend
<1>10. Path(BindingStep(sdk), now, now, <<>>)
  <2>1. <<>> \in Seq(PlannedBinding)
    OBVIOUS
  <2> QED
    BY <1>6, <2>1, PathEmpty
<1>11. Anchor(start)'
  BY <1>2, <1>3, AnchorStays
<1>12. Predicted'
  BY <1>1, <1>2, <1>3, <1>6, <1>7, <1>9, <1>10, <1>11 DEF Predicted
<1> QED
  BY <1>3, <1>12, RepliesStay DEF PlannerInv

LEMMA RefreshPredicts ==
  ASSUME PlannerInv, Refresh
  PROVE  Predicted' /\ Replies'
<1>1. /\ cursor' = committed.used /\ next_index' = committed.count
      /\ running' = "nobody" /\ unit' = <<>> /\ bindings' = <<>>
      /\ UNCHANGED <<sdk, committed, ret, anchored>>
  BY DEF Refresh, chainVars, builderVars
<1>2. Anchor(Now)'
  BY <1>1 DEF Anchor, Agrees, Now, Predict
<1>3. ScratchShape'
  BY RefreshShape DEF PlannerInv, Shape
<1> QED
  BY <1>1, <1>2, <1>3, NothingPlanned, RepliesStay DEF PlannerInv

LEMMA DropPredicts ==
  ASSUME PlannerInv, Drop
  PROVE  Predicted' /\ Replies'
<1>1. /\ unit' = <<>> /\ bindings' = <<>> /\ synced' = FALSE /\ running' = "nobody"
      /\ UNCHANGED <<sdk, ret, anchored>>
  BY DEF Drop, chainVars, scratchVars, builderVars
<1>2. Anchor(Now)'
  BY <1>1 DEF Anchor
<1>3. ScratchShape'
  BY DropShape DEF PlannerInv, Shape
<1> QED
  BY <1>1, <1>2, <1>3, NothingPlanned, RepliesStay DEF PlannerInv

-----------------------------------------------------------------------------
(* Steps of the chain.                                                     *)

\* The path goes on when only the chain or the turn changes.
LEMMA PathStays ==
  ASSUME NEW start \in Prediction, NEW mid \in Prediction,
         Path(ItemStep(sdk), start, mid, unit), Path(BindingStep(sdk), mid, Now, bindings),
         UNCHANGED <<scratchVars, builderVars, unit>>, Anchor(start)'
  PROVE  Predicted'
<1>1. Now' = Now /\ bindings' = bindings /\ unit' = unit /\ sdk' = sdk
  BY DEF Now, scratchVars, builderVars
<1> HIDE DEF Now
<1> QED
  BY <1>1 DEF Predicted

LEMMA NoReplyIsFine ==
  /\ ret' = NoReply => Replies'
  /\ anchored' = "no" => Replies'
  /\ ret'.err = "UnauthorizedFrameWrite" => Replies'
BY DEF Replies, PlanFitsIndex, PlanFitsTape, PlanReads, NoReply

LEMMA LandPredicts ==
  ASSUME PlannerInv, Land
  PROVE  Predicted' /\ Replies'
<1>1. PICK start \in Prediction, mid \in Prediction :
        /\ Path(ItemStep(sdk), start, mid, unit)
        /\ Path(BindingStep(sdk), mid, Now, bindings)
        /\ Anchor(start)
  BY DEF PlannerInv, Predicted
<1>2. /\ running = "nobody" /\ running' = "unit"
      /\ anchored' = IF synced THEN "refresh" ELSE "no"
      /\ ret' = NoReply /\ session' = session
      /\ UNCHANGED <<scratchVars, builderVars, unit>>
  BY DEF Land, Begin
<1>3. session = committed /\ sdk' = sdk
  BY <1>2 DEF PlannerInv, Shape, ChainShape, TurnShape, SSATypeOK, scratchVars
<1>4. Anchor(start)'
  BY <1>1, <1>2, <1>3 DEF Anchor
<1> QED
  BY <1>1, <1>2, <1>4, PathStays, NoReplyIsFine

\* After a failed step nothing of the unit is left.
LEMMA FailedPredicts ==
  ASSUME Shape', NEW rest, Continues(rest), ret'.err # "Ok", bindings' = <<>>
  PROVE  Predicted'
<1>1. unit' = <<>> /\ running' = "nobody" /\ synced' = FALSE
  BY DEF Continues
<1>2. Anchor(Now)'
  BY <1>1 DEF Anchor
<1> QED
  BY <1>1, <1>2, NothingPlanned DEF Shape

\* The first item of the running unit starts the path.
LEMMA UnitStarts ==
  ASSUME PlannerInv, unit # <<>>, running = "unit"
  PROVE  /\ bindings = <<>>
         /\ \E start, mid, T \in Prediction :
              /\ Head(unit) \in Item /\ Passes(sdk, start, Head(unit), T)
              /\ Path(ItemStep(sdk), T, mid, Tail(unit))
              /\ Path(BindingStep(sdk), mid, Now, bindings)
              /\ Anchor(start)
<1>1. PICK start \in Prediction, mid \in Prediction :
        /\ Path(ItemStep(sdk), start, mid, unit)
        /\ Path(BindingStep(sdk), mid, Now, bindings)
        /\ Anchor(start)
  BY DEF PlannerInv, Predicted
<1>2. unit \in Seq(Item) /\ Head(unit) \in Item
  BY UnitParts DEF PlannerInv, Shape, UnitShape
<1>3. PICK T \in Prediction :
        <<start, Head(unit), T>> \in ItemStep(sdk) /\ Path(ItemStep(sdk), T, mid, Tail(unit))
  BY <1>1, <1>2, PathHead
<1>4. Passes(sdk, start, Head(unit), T)
  <2> DEFINE ix == Head(unit)
  <2>1. ix \in Item /\ <<start, ix, T>> \in ItemStep(sdk)
    BY <1>2, <1>3
  <2> HIDE DEF ix
  <2>2. Passes(sdk, start, ix, T)
    BY <2>1, ItemStepDef
  <2> QED
    BY <2>2 DEF ix
<1>5. bindings = <<>>
  BY DEF PlannerInv, Shape, TurnShape
<1> QED
  BY <1>1, <1>2, <1>3, <1>4, <1>5

\* Nothing is unbound in a cleared session.
LEMMA ClearedHolds ==
  ASSUME NEW d, NEW s, s.count = 0, s.used = 0
  PROVE  Agrees(d, Cleared, s) /\ Holds(Cleared.types, s)
<1>1. Cleared.index = 0 /\ Cleared.cursor = 0 /\ Cleared.types = Unpredicted
  BY DEF Cleared, Predict
<1>2. \A i \in PlannedIndex : Unpredicted[i] = NoMeaning
  BY DEF Unpredicted
<1> HIDE DEF Cleared, Unpredicted
<1> QED
  BY <1>1, <1>2 DEF Agrees, Holds

LEMMA RunResetPredicts ==
  ASSUME PlannerInv, RunReset
  PROVE  Predicted' /\ Replies'
<1>1. /\ Shape'
      /\ \/ ret' = NoReply /\ session'.count = 0 /\ session'.used = 0
         \/ Fail("UnauthorizedFrameWrite")
  BY RunResetShape DEF PlannerInv
<1>2. /\ running = "unit" /\ unit # <<>> /\ Head(unit).op = "reset"
      /\ anchored' = "reset" /\ Continues(Tail(unit))
      /\ UNCHANGED <<scratchVars, builderVars>>
  BY DEF RunReset, Continues
<1>3. bindings = <<>> /\ bindings' = bindings /\ sdk' = sdk
  BY <1>2 DEF PlannerInv, Shape, TurnShape, scratchVars, builderVars
<1>4. CASE Fail("UnauthorizedFrameWrite")
  <2>1. ret'.err = "UnauthorizedFrameWrite" /\ ret'.err # "Ok"
    BY <1>4, ErrorIsNotOk
  <2> QED
    BY <1>1, <1>2, <1>3, <2>1, FailedPredicts, NoReplyIsFine
<1>5. CASE ret' = NoReply /\ session'.count = 0 /\ session'.used = 0
  <2>1. PICK start \in Prediction, mid \in Prediction, T \in Prediction :
          /\ Passes(sdk, start, Head(unit), T)
          /\ Path(ItemStep(sdk), T, mid, Tail(unit))
          /\ Path(BindingStep(sdk), mid, Now, bindings)
    BY <1>2, UnitStarts
  <2>2. T = Cleared
    BY <1>2, <2>1 DEF Passes
  <2>3. unit' = Tail(unit) /\ running' = "unit"
    BY <1>2, <1>5, ValueIsOk DEF Continues
  <2>4. Anchor(T)'
    <3>1. Agrees(sdk', T, session') /\ Holds(T.types, session')
      BY <1>5, <2>2, ClearedHolds
    <3> HIDE DEF Agrees, Holds
    <3> QED
      BY <2>3, <3>1 DEF Anchor
  <2>5. Now' = Now
    BY <1>2 DEF Now, scratchVars
  <2> HIDE DEF Now
  <2>6. Predicted'
    BY <1>3, <2>1, <2>3, <2>4, <2>5 DEF Predicted
  <2> QED
    BY <1>5, <2>6, NoReplyIsFine
<1> QED
  BY <1>1, <1>4, <1>5

LEMMA FinishPredicts ==
  ASSUME PlannerInv, Finish
  PROVE  Predicted' /\ Replies'
<1>1. /\ unit' = <<>> /\ synced' = FALSE /\ running' = "nobody" /\ ret' = NoReply
      /\ running = "unit" /\ UNCHANGED builderVars
  BY DEF Finish, Commit
<1>2. bindings' = <<>>
  BY <1>1 DEF PlannerInv, Shape, TurnShape, builderVars
<1>3. Anchor(Now)'
  BY <1>1 DEF Anchor
<1>4. ScratchShape'
  BY FinishShape DEF PlannerInv, Shape
<1> QED
  BY <1>1, <1>2, <1>3, <1>4, NothingPlanned, NoReplyIsFine

\* Other clients' steps leave what is planned, and nothing to rely on.
LEMMA ForeignPredicts ==
  ASSUME PlannerInv,
         (\E S \in SUBSET Users : ForeignBegin(S)) \/ ForeignStep \/ ForeignCommit
  PROVE  Predicted' /\ Replies'
<1>1. PICK start \in Prediction, mid \in Prediction :
        /\ Path(ItemStep(sdk), start, mid, unit)
        /\ Path(BindingStep(sdk), mid, Now, bindings)
  BY DEF PlannerInv, Predicted
<1>2. /\ running' # "unit" /\ ~ synced' /\ anchored' = "no"
      /\ UNCHANGED <<scratchVars, builderVars, unit>>
  BY DEF ForeignBegin, ForeignStep, ForeignCommit, PlannerInv, Shape, TurnShape
<1>3. Anchor(start)'
  BY <1>2 DEF Anchor
<1> QED
  BY <1>1, <1>2, <1>3, PathStays, NoReplyIsFine

-----------------------------------------------------------------------------
(* A binding of the unit.                                                  *)

\* A let starts with the step of its first binding.
LEMMA BindingStarts ==
  ASSUME NEW d, NEW start \in Prediction, NEW T \in Prediction,
         NEW bs \in Seq(PlannedBinding), bs # <<>>, Path(BindingStep(d), start, T, bs)
  PROVE  \E M \in Prediction :
           Advances(d, start, Head(bs), M) /\ Path(BindingStep(d), M, T, Tail(bs))
<1>1. PICK M \in Prediction :
        <<start, Head(bs), M>> \in BindingStep(d) /\ Path(BindingStep(d), M, T, Tail(bs))
  BY PathHead
<1>2. Head(bs) \in PlannedBinding
  BY HeadTailProperties
<1>3. Advances(d, start, Head(bs), M)
  <2> DEFINE b == Head(bs)
  <2>1. b \in PlannedBinding /\ <<start, b, M>> \in BindingStep(d)
    BY <1>1, <1>2
  <2> HIDE DEF b
  <2>2. Advances(d, start, b, M)
    BY <2>1, BindingStepDef
  <2> QED
    BY <2>2 DEF b
<1> QED
  BY <1>1, <1>3

\* From M, where the first binding leads, the rest of the unit leads on.
LEMMA RestLeads ==
  ASSUME Shape, unit # <<>>, Head(unit).op = "let",
         NEW M \in Prediction, NEW T \in Prediction, NEW mid \in Prediction,
         Path(BindingStep(sdk), M, T, Tail(Head(unit).bindings)),
         Path(ItemStep(sdk), T, mid, Tail(unit))
  PROVE  Path(ItemStep(sdk), M, mid, Rest)
<1> DEFINE ix == Head(unit)
           bs == ix.bindings
           t == Tail(unit)
           e == Shorter(ix)
<1>1. ix \in Item /\ ItemOK(session.authority, ix) /\ ix.op = "let" /\ t \in Seq(Item)
  BY UnitParts DEF Shape
<1>2. bs \in Seq(PlannedBinding) /\ bs # <<>>
  BY HeadBinding
<1>3. Path(BindingStep(sdk), M, T, Tail(bs)) /\ Path(ItemStep(sdk), T, mid, t)
  OBVIOUS
<1>4. CASE Len(bs) = 1
  <2>1. Tail(bs) \in Seq(PlannedBinding) /\ Tail(bs) = <<>>
    <3> HIDE DEF bs
    <3>1. Tail(bs) \in Seq(PlannedBinding) /\ Len(Tail(bs)) = 0
      BY <1>2, <1>4, HeadTailProperties
    <3> QED
      BY <3>1, EmptySeq
  <2>2. M = T
    <3> DEFINE none == Tail(bs)
    <3>1. none \in Seq(PlannedBinding) /\ none = <<>> /\ Path(BindingStep(sdk), M, T, none)
      BY <1>3, <2>1
    <3> HIDE DEF none
    <3> QED
      BY <3>1, PathEmpty
  <2> QED
    BY <1>3, <1>4, <2>2 DEF Rest
<1>5. CASE Len(bs) # 1
  <2>1. e \in Item /\ e.op = "let" /\ e.bindings = Tail(bs)
    <3> HIDE DEF ix
    <3>1. Len(ix.bindings) # 1
      BY <1>5
    <3> QED
      BY <1>1, <3>1, ShorterOK
  <2>2. Passes(sdk, M, e, T)
    BY <1>3, <2>1 DEF Passes
  <2> HIDE DEF e, t
  <2>3. <<M, e, T>> \in ItemStep(sdk)
    BY <2>1, <2>2, ItemStepDef
  <2>4. Path(ItemStep(sdk), M, mid, <<e>> \o t)
    BY <1>1, <1>3, <2>1, <2>3, PathCons
  <2> QED
    BY <1>5, <2>4 DEF Rest, e, t
<1> QED
  BY <1>4, <1>5

\* A binding that is appended as planned leaves the session as predicted.
LEMMA BoundAgrees ==
  ASSUME NEW d, NEW P \in Prediction, NEW b \in PlannedBinding, NEW Q \in Prediction,
         Advances(d, P, b, Q), NEW s, NEW t, s.count \in Nat, s.used \in Nat,
         t.count = s.count + 1, t.used = s.used + 1 + Size[b.meaning.ty],
         Agrees(d, P, s)
  PROVE  Agrees(d, Q, t)
BY DEF Agrees, Advances

LEMMA BoundHolds ==
  ASSUME NEW d, NEW P \in Prediction, NEW b \in PlannedBinding, NEW Q \in Prediction,
         Advances(d, P, b, Q), NEW s, NEW t, s.count \in Nat, P.index = s.count,
         t.count = s.count + 1,
         t.binds[s.count] = [ty |-> b.meaning.ty, bytes |-> Loaded(b.meaning.ty, b.meaning.account)],
         \A i \in 0 .. s.count - 1 : t.binds[i] = s.binds[i],
         Holds(P.types, s)
  PROVE  Holds(Q.types, t)
<1> SUFFICES ASSUME NEW i \in PlannedIndex, Q.types[i] # NoMeaning
             PROVE  /\ i < t.count
                    /\ t.binds[i] = [ty |-> Q.types[i].ty,
                                     bytes |-> Loaded(Q.types[i].ty, Q.types[i].account)]
  BY DEF Holds
<1>1. P.types \in [PlannedIndex -> Meanings] /\ P.index \in PlannedIndex /\ i \in Nat
  BY TapeFacts DEF Prediction, PlannedIndex
<1>2. Q.types = [P.types EXCEPT ![P.index] = b.meaning]
  BY DEF Advances
<1>3. CASE i = P.index
  <2>1. Q.types[i] = b.meaning
    BY <1>1, <1>2, <1>3
  <2>2. i < t.count /\ i = s.count
    BY <1>1, <1>3
  <2> QED
    BY <2>1, <2>2
<1>4. CASE i # P.index
  <2>1. Q.types[i] = P.types[i]
    BY <1>1, <1>2, <1>4
  <2>2. /\ i < s.count
        /\ s.binds[i] = [ty |-> P.types[i].ty, bytes |-> Loaded(P.types[i].ty, P.types[i].account)]
    BY <2>1 DEF Holds
  <2>3. i \in 0 .. s.count - 1 /\ i < t.count
    BY <1>1, <2>2
  <2> QED
    BY <2>1, <2>2, <2>3
<1> QED
  BY <1>3, <1>4

\* What the next binding of an anchored unit finds, and what it leaves.
LEMMA BindingAsPlanned ==
  ASSUME PlannerInv, RunBinding,
         NEW start \in Prediction, NEW M \in Prediction,
         Advances(sdk, start, Head(Head(unit).bindings), M), Anchor(start)
  PROVE  LET b == Head(Head(unit).bindings)
         IN /\ Replies'
            /\ ret'.err = "Ok" => Anchor(M)'
            /\ ret'.err = "Ok" /\ anchored # "no" =>
                 /\ ret'.index = b.index /\ ret'.ty = b.meaning.ty
                 /\ anchored = "reset" \/ b.source = "account"
                      => ret'.bytes = Loaded(b.meaning.ty, b.meaning.account)
<1> DEFINE b == Head(Head(unit).bindings)
           ty == b.meaning.ty
<1>1. /\ running = "unit" /\ anchored' = anchored /\ sdk' = sdk
      /\ ret'.err = "Ok" => running' = running /\ synced' = synced
  BY DEF RunBinding, Continues, scratchVars
<1>2. /\ anchored # "no" => Agrees(sdk, start, session)
      /\ anchored = "reset" => Holds(start.types, session) /\ anchored # "no"
  BY <1>1 DEF Anchor
<1>3. Advances(sdk, start, b, M)
  OBVIOUS
<1>4. /\ b \in PlannedBinding /\ b.at \in Nat /\ ty \in ValueType
      /\ \/ Fail("UnauthorizedFrameWrite")
         \/ b.source = "value" /\ b.at >= session.count /\ Fail("InvalidValueIndex")
         \/ /\ b.source = "value" /\ b.at < session.count
            /\ session.binds[b.at].ty # ty /\ Fail("LoadTypeMismatch")
         \/ \E bytes \in Payload(ty) :
              /\ Bind(ty, bytes)
              /\ b.source = "account" => bytes = Loaded(ty, b.meaning.account)
              /\ b.source = "value" =>
                   /\ b.at < session.count /\ session.binds[b.at].ty = ty
                   /\ bytes = session.binds[b.at].bytes
  BY RunBindingCases DEF PlannerInv
<1> HIDE DEF b
<1>5. ChainShape /\ session.count \in Nat /\ session.used \in Nat
  BY ChainSessions, SessionFields DEF PlannerInv, Shape
<1>6. b.source \in {"account", "value"}
  BY <1>4 DEF PlannedBinding
\* An expression reads what was planned.
<1>7. ASSUME anchored = "reset", b.source = "value"
      PROVE  /\ b.at < session.count /\ session.binds[b.at].ty = ty
             /\ session.binds[b.at].bytes = Loaded(ty, b.meaning.account)
  <2>1. b.at < U8 /\ start.types[b.at] = b.meaning /\ b.meaning # NoMeaning
    BY <1>3, <1>7 DEF Advances
  <2>2. b.at \in PlannedIndex
    BY <1>4, <2>1, TapeFacts DEF PlannedIndex
  <2>3. b.at < session.count
        /\ session.binds[b.at] = [ty |-> ty, bytes |-> Loaded(ty, b.meaning.account)]
    BY <1>2, <1>7, <2>1, <2>2 DEF Holds
  <2> HIDE DEF ty
  <2> QED
    BY <2>3
<1> HIDE DEF ty
<1>8. CASE Fail("UnauthorizedFrameWrite")
  BY <1>8, ErrorIsNotOk, NoReplyIsFine
<1>9. CASE b.source = "value" /\ b.at >= session.count /\ Fail("InvalidValueIndex")
  <2>1. ret'.err = "InvalidValueIndex" /\ anchored # "reset"
    BY <1>4, <1>5, <1>7, <1>9, ErrorIsNotOk
  <2> QED
    BY <1>1, <2>1 DEF Replies, PlanFitsIndex, PlanFitsTape, PlanReads
<1>10. CASE /\ b.source = "value" /\ session.binds[b.at].ty # ty
            /\ Fail("LoadTypeMismatch")
  <2>1. ret'.err = "LoadTypeMismatch" /\ anchored # "reset"
    BY <1>7, <1>10, ErrorIsNotOk
  <2> QED
    BY <1>1, <2>1 DEF Replies, PlanFitsIndex, PlanFitsTape, PlanReads
<1>11. ASSUME NEW bytes \in Payload(ty), Bind(ty, bytes),
              b.source = "account" => bytes = Loaded(ty, b.meaning.account),
              b.source = "value" => bytes = session.binds[b.at].bytes
       PROVE  /\ Replies'
              /\ ret'.err = "Ok" => Anchor(M)'
              /\ ret'.err = "Ok" /\ anchored # "no" =>
                   /\ ret'.index = b.index /\ ret'.ty = ty
                   /\ anchored = "reset" \/ b.source = "account"
                        => ret'.bytes = Loaded(ty, b.meaning.account)
  <2>1. \/ /\ Fail("IndexCapReached") /\ session.count = Capacity(TapeLen)
        \/ /\ Fail("TapeOutOfBounds") /\ session.used + 1 + Size[ty] > TapeLen
        \/ /\ ret' = ValueReply(session.count, ty, bytes) /\ open' = open
           /\ session'.count = session.count + 1
           /\ session'.used = session.used + 1 + Size[ty]
           /\ session'.binds[session.count] = [ty |-> ty, bytes |-> bytes]
           /\ \A i \in 0 .. session.count - 1 : session'.binds[i] = session.binds[i]
    BY <1>4, <1>5, <1>11, ChainBind
  <2>2. CASE Fail("IndexCapReached") /\ session.count = Capacity(TapeLen)
    <3>1. ret'.err = "IndexCapReached"
      BY <2>2, ErrorIsNotOk
    <3>2. anchored = "no"
      <4>1. start.index < Capacity(TapeLen)
        BY <1>3 DEF Advances
      <4> HIDE DEF Capacity
      <4> QED
        BY <1>2, <1>5, <2>2, <4>1 DEF Agrees
    <3> QED
      BY <1>1, <3>1, <3>2, NoReplyIsFine
  <2>3. CASE Fail("TapeOutOfBounds") /\ session.used + 1 + Size[ty] > TapeLen
    <3>1. ret'.err = "TapeOutOfBounds"
      BY <2>3, ErrorIsNotOk
    <3>2. anchored = "no" \/ sdk = "rust"
      <4> SUFFICES ASSUME anchored # "no", sdk # "rust" PROVE FALSE
        OBVIOUS
      <4>1. M.cursor = start.cursor + 1 + Size[ty] /\ start.cursor = session.used
        BY <1>2, <1>3 DEF Advances, Agrees, ty
      <4>2. M.cursor \in 0 .. TapeLen
        BY DEF Prediction
      <4> QED
        BY <2>3, <4>1, <4>2, TapeFacts
    <3> QED
      BY <1>1, <3>1, <3>2 DEF Replies, PlanFitsIndex, PlanFitsTape, PlanReads
  <2>4. CASE /\ ret' = ValueReply(session.count, ty, bytes) /\ open' = open
             /\ session'.count = session.count + 1
             /\ session'.used = session.used + 1 + Size[ty]
             /\ session'.binds[session.count] = [ty |-> ty, bytes |-> bytes]
             /\ \A i \in 0 .. session.count - 1 : session'.binds[i] = session.binds[i]
    <3>1. ret'.err = "Ok" /\ ret'.index = session.count /\ ret'.ty = ty /\ ret'.bytes = bytes
      BY <2>4, ValueIsOk
    <3>2. running' = "unit" /\ synced' = synced
      BY <1>1, <3>1
    <3>3. anchored # "no" => b.index = session.count /\ start.index = session.count
      BY <1>2, <1>3 DEF Advances, Agrees
    <3>4. anchored = "reset" \/ b.source = "account" => bytes = Loaded(ty, b.meaning.account)
      BY <1>6, <1>7, <1>11
    <3>5. anchored # "no" => Agrees(sdk, M, session')
      <4>1. session'.used = session.used + 1 + Size[b.meaning.ty]
        BY <2>4 DEF ty
      <4> QED
        BY <1>2, <1>3, <1>4, <1>5, <2>4, <4>1, BoundAgrees
    <3>6. anchored = "reset" => Holds(M.types, session')
      <4> SUFFICES ASSUME anchored = "reset" PROVE Holds(M.types, session')
        OBVIOUS
      <4>1. session'.binds[session.count] =
              [ty |-> b.meaning.ty, bytes |-> Loaded(b.meaning.ty, b.meaning.account)]
        BY <2>4, <3>4 DEF ty
      <4>2. Holds(start.types, session) /\ start.index = session.count
        BY <1>2, <3>3
      <4> QED
        BY <1>3, <1>4, <1>5, <2>4, <4>1, <4>2, BoundHolds
    <3>7. Anchor(M)'
      <4> HIDE DEF Agrees, Holds
      <4> QED
        BY <1>1, <3>2, <3>5, <3>6 DEF Anchor
    <3>8. Replies'
      BY <3>1 DEF Replies, PlanFitsIndex, PlanFitsTape, PlanReads
    <3> QED
      BY <3>1, <3>3, <3>4, <3>7, <3>8
  <2> QED
    BY <2>1, <2>2, <2>3, <2>4
<1> QED
  BY <1>4, <1>8, <1>9, <1>10, <1>11 DEF b, ty

\* The path of the running unit, at the binding that is next.
LEMMA RunBindingPath ==
  ASSUME PlannerInv, RunBinding
  PROVE  /\ bindings = <<>>
         /\ \E start, M, mid \in Prediction :
              /\ Advances(sdk, start, Head(Head(unit).bindings), M)
              /\ Path(ItemStep(sdk), M, mid, Rest)
              /\ Path(BindingStep(sdk), mid, Now, bindings)
              /\ Anchor(start)
<1>1. Shape /\ running = "unit" /\ unit # <<>> /\ Head(unit).op = "let"
  BY DEF PlannerInv, RunBinding
<1>2. /\ bindings = <<>>
      /\ \E start, mid, T \in Prediction :
           /\ Passes(sdk, start, Head(unit), T)
           /\ Path(ItemStep(sdk), T, mid, Tail(unit))
           /\ Path(BindingStep(sdk), mid, Now, bindings)
           /\ Anchor(start)
  BY <1>1, UnitStarts
<1>3. PICK start \in Prediction, mid \in Prediction, T \in Prediction :
        /\ Passes(sdk, start, Head(unit), T)
        /\ Path(ItemStep(sdk), T, mid, Tail(unit))
        /\ Path(BindingStep(sdk), mid, Now, bindings)
        /\ Anchor(start)
  BY <1>2
<1>4. Path(BindingStep(sdk), start, T, Head(unit).bindings)
  BY <1>1, <1>3 DEF Passes
<1>5. Head(unit).bindings \in Seq(PlannedBinding) /\ Head(unit).bindings # <<>>
  BY <1>1, HeadBinding
<1>6. PICK M \in Prediction :
        /\ Advances(sdk, start, Head(Head(unit).bindings), M)
        /\ Path(BindingStep(sdk), M, T, Tail(Head(unit).bindings))
  BY <1>4, <1>5, BindingStarts
<1>7. Path(ItemStep(sdk), M, mid, Rest)
  BY <1>1, <1>3, <1>6, RestLeads
<1> QED
  BY <1>2, <1>3, <1>6, <1>7

LEMMA RunBindingPredicts ==
  ASSUME PlannerInv, RunBinding
  PROVE  Predicted' /\ Replies'
<1>1. bindings = <<>>
  BY RunBindingPath
<1>2. PICK start \in Prediction, M \in Prediction, mid \in Prediction :
        /\ Advances(sdk, start, Head(Head(unit).bindings), M)
        /\ Path(ItemStep(sdk), M, mid, Rest)
        /\ Path(BindingStep(sdk), mid, Now, bindings)
        /\ Anchor(start)
  BY RunBindingPath
<1>3. Replies' /\ (ret'.err = "Ok" => Anchor(M)')
  BY <1>2, BindingAsPlanned
<1>4. Continues(Rest) /\ UNCHANGED <<scratchVars, builderVars>>
  BY DEF RunBinding, Rest, Shorter, Continues
<1>5. Shape'
  BY RunBindingShape DEF PlannerInv
<1>6. Now' = Now /\ bindings' = bindings /\ sdk' = sdk
  BY <1>4 DEF Now, scratchVars, builderVars
<1>7. CASE ret'.err # "Ok"
  BY <1>1, <1>3, <1>4, <1>5, <1>6, <1>7, FailedPredicts
<1>8. CASE ret'.err = "Ok"
  <2>1. unit' = Rest
    BY <1>4, <1>8 DEF Continues
  <2> DEFINE rest == Rest
  <2>2. unit' = rest /\ Path(ItemStep(sdk), M, mid, rest)
    BY <1>2, <2>1
  <2> HIDE DEF rest, Now
  <2> QED
    BY <1>2, <1>3, <1>6, <1>8, <2>2 DEF Predicted
<1> QED
  BY <1>7, <1>8

-----------------------------------------------------------------------------
(* The invariant, and what follows from it.                                *)

LEMMA InitPlanner ==
  ASSUME PlannerInit
  PROVE  PlannerInv
<1>1. Shape
  BY InitShape
<1>2. Replies
  BY DEF PlannerInit, Replies, PlanFitsIndex, PlanFitsTape, PlanReads
<1>3. unit = <<>> /\ bindings = <<>> /\ running = "nobody" /\ ~ synced
  BY DEF PlannerInit
<1>4. Anchor(Now)
  BY <1>3 DEF Anchor
<1> DEFINE now == Now
           none == <<>>
<1>5. now \in Prediction /\ none \in Seq(Item) /\ none \in Seq(PlannedBinding)
  BY <1>1, NowOK DEF Shape
<1>6. Path(ItemStep(sdk), now, now, none) /\ Path(BindingStep(sdk), now, now, none)
  <2> HIDE DEF now
  <2> QED
    BY <1>5, PathEmpty
<1> HIDE DEF Now
<1>7. Predicted
  BY <1>3, <1>4, <1>5, <1>6 DEF Predicted
<1> QED
  BY <1>1, <1>2, <1>7 DEF PlannerInv

LEMMA StutterPredicts ==
  ASSUME PlannerInv, UNCHANGED allVars
  PROVE  Predicted' /\ Replies'
<1>1. PICK start \in Prediction, mid \in Prediction :
        /\ Path(ItemStep(sdk), start, mid, unit)
        /\ Path(BindingStep(sdk), mid, Now, bindings)
        /\ Anchor(start)
  BY DEF PlannerInv, Predicted
<1>2. /\ UNCHANGED <<scratchVars, builderVars, unit>>
      /\ UNCHANGED <<sdk, session, committed, running, anchored, synced, ret>>
  BY DEF allVars, plannerVars, chainVars, scratchVars, builderVars
<1>3. Anchor(start)'
  BY <1>1, <1>2, AnchorStays
<1> QED
  BY <1>1, <1>2, <1>3, PathStays, RepliesStay DEF PlannerInv

LEMMA NextPlanner ==
  ASSUME IndexIsExact, PlannerInv, [PlannerNext]_allVars
  PROVE  PlannerInv'
<1>1. Shape'
  BY NextShape DEF PlannerInv
<1>2. Predicted' /\ Replies'
  <2>1. ASSUME NEW k \in Account, PlanLoad(k) PROVE Predicted' /\ Replies'
    BY <2>1, PlanLoadPredicts
  <2>2. ASSUME NEW i \in PlannedIndex, PlanEval(i) PROVE Predicted' /\ Replies'
    BY <2>2, PlanEvalPredicts
  <2>3. CASE (\E S \in SUBSET Users : ForeignBegin(S)) \/ ForeignStep \/ ForeignCommit
    BY <2>3, ForeignPredicts
  <2>4. CASE IxReset \/ IxLet \/ Refresh \/ Drop
    BY <2>4, IxResetPredicts, IxLetPredicts, RefreshPredicts, DropPredicts
  <2>5. CASE Land \/ RunReset \/ RunBinding \/ Finish
    BY <2>5, LandPredicts, RunResetPredicts, RunBindingPredicts, FinishPredicts
  <2>6. CASE UNCHANGED allVars
    BY <2>6, StutterPredicts
  <2> QED
    BY <2>1, <2>2, <2>3, <2>4, <2>5, <2>6 DEF PlannerNext
<1> QED
  BY <1>1, <1>2 DEF PlannerInv

LEMMA PlannerInvariance ==
  ASSUME IndexIsExact
  PROVE  PlannerSpec => []PlannerInv
<1>1. PlannerInit => PlannerInv
  BY InitPlanner
<1>2. PlannerInv /\ [PlannerNext]_allVars => PlannerInv'
  BY NextPlanner
<1> QED
  BY <1>1, <1>2, PTL DEF PlannerSpec

\* No unit that plan() accepted runs out of indices on chain, once it counts
\* from its own reset or from a refresh that nothing has overtaken.
THEOREM FitsIndex ==
  ASSUME IndexIsExact
  PROVE  PlannerSpec => []PlanFitsIndex
<1>1. PlannerInv => PlanFitsIndex
  BY DEF PlannerInv, Replies
<1> QED
  BY <1>1, PlannerInvariance, PTL

\* Nor does it run out of tape, if its client counts the bytes of a payload:
\* TypeScript's planner does, and Go's; Rust's does not.
THEOREM FitsTape ==
  ASSUME IndexIsExact, "rust" \notin Sdk
  PROVE  PlannerSpec => []PlanFitsTape
<1>1. PlannerInv => PlanFitsTape
  BY DEF PlannerInv, Replies, Shape, ScratchShape
<1> QED
  BY <1>1, PlannerInvariance, PTL

\* The expressions of a unit that starts from its own reset find every value
\* they name, of the type the planner recorded, and every account.
THEOREM ReadsAsPlanned ==
  ASSUME IndexIsExact
  PROVE  PlannerSpec => []PlanReads
<1>1. PlannerInv => PlanReads
  BY DEF PlannerInv, Replies
<1> QED
  BY <1>1, PlannerInvariance, PTL

LEMMA BoundAsPlannedStep ==
  ASSUME PlannerInv, PlannerNext,
         running = "unit", unit # <<>>, Head(unit).op = "let",
         anchored # "no", ret'.err = "Ok", ret' # ret
  PROVE  LET b == Head(Head(unit).bindings)
         IN /\ ret'.index = b.index /\ ret'.ty = b.meaning.ty
            /\ anchored = "reset" \/ b.source = "account"
                 => ret'.bytes = Loaded(b.meaning.ty, b.meaning.account)
<1>1. RunBinding
  <2>1. ASSUME NEW k \in Account PROVE ~ PlanLoad(k)
    BY DEF PlanLoad, Planning
  <2>2. ASSUME NEW i \in PlannedIndex PROVE ~ PlanEval(i)
    BY DEF PlanEval, Planning
  <2>3. ASSUME NEW S \in SUBSET Users PROVE ~ ForeignBegin(S)
    BY DEF ForeignBegin
  <2>4. ~ (IxReset \/ IxLet \/ Refresh \/ Drop)
    BY DEF IxReset, IxLet, Refresh, Drop, Planning
  <2>5. ~ (Land \/ RunReset \/ Finish \/ ForeignStep \/ ForeignCommit)
    BY DEF Land, RunReset, Finish, ForeignStep, ForeignCommit
  <2> QED
    BY <2>1, <2>2, <2>3, <2>4, <2>5 DEF PlannerNext
<1>2. PICK start \in Prediction, M \in Prediction, mid \in Prediction :
        Advances(sdk, start, Head(Head(unit).bindings), M) /\ Anchor(start)
  BY <1>1, RunBindingPath
<1> QED
  BY <1>1, <1>2, BindingAsPlanned

\* A binding that lands after the unit's own reset, or on the session the
\* planner was refreshed from, gets the index and the type planned for it and
\* the content of the account the client named: for every SDK, whatever was
\* planned, lost or landed before (FrameScratch::plan, LetBuilder,
\* let_remaining_after_write_gate).
THEOREM BoundAsPlanned ==
  ASSUME IndexIsExact
  PROVE  PlannerSpec => PlannedIsBound
<1> DEFINE A == (/\ running = "unit" /\ unit # <<>> /\ Head(unit).op = "let"
                 /\ anchored # "no" /\ ret'.err = "Ok" /\ ret' # ret)
                => LET b == Head(Head(unit).bindings) IN
                   /\ ret'.index = b.index
                   /\ ret'.ty = b.meaning.ty
                   /\ (anchored = "reset" \/ b.source = "account")
                        => ret'.bytes = Loaded(b.meaning.ty, b.meaning.account)
<1>1. PlannerInv /\ [PlannerNext]_allVars => [A]_allVars
  BY BoundAsPlannedStep
<1>2. PlannerSpec => [][A]_allVars
  <2> HIDE DEF A
  <2> QED
    BY <1>1, PlannerInvariance, PTL DEF PlannerSpec
<1> QED
  BY <1>2 DEF PlannedIsBound

-----------------------------------------------------------------------------
(* Kinds and loads.                                                        *)

\* The kinds, by the program they read.
LEMMA KindCases ==
  ASSUME NEW k \in Kind
  PROVE  \/ k.src = "token" /\ k.form = "account" /\ k.field \in AccountFields
         \/ k.src = "token" /\ k.form = "mint" /\ k.field \in MintFields
         \/ k.src = "token22" /\ k.form = "account" /\ k.field \in AccountFields \cup {"fee_withheld"}
         \/ /\ k.src = "token22" /\ k.form = "mint"
            /\ k.field \in MintFields \cup
                 {"fee_basis_points", "fee_maximum", "fee_mint_withheld", "default_account_state"}
         \/ k.src = "stake" /\ k.form = "any" /\ k.field = "account_state"
         \/ k.src = "stake" /\ k.form = "meta" /\ k.field \in MetaFields
         \/ k.src = "stake" /\ k.form = "stake" /\ k.field \in StakeFields
         \/ k.src = "loader" /\ k.form = "any" /\ k.field = "program_data_tag"
         \/ k.src = "loader" /\ k.form = "program_data" /\ k.field = "upgrade_authority"
         \/ k.src = "loader" /\ k.form = "program" /\ k.field = "programdata_address"
         \/ k.src = "info" /\ k.form = "any" /\ k.field \in InfoFields
BY DEF Kind, Kinds

\* A kind is a record, the same as another of equal fields.
LEMMA KindShape ==
  ASSUME NEW k \in Kind
  PROVE  k # OwnCount /\ k # ClockEpoch
BY KindCases DEF OwnCount, ClockEpoch

\* A load that succeeds answers with the contents of the field.
LEMMA LoadAnswer ==
  ASSUME NEW k \in Kind, NEW a, Load(k, a).err = "Ok"
  PROVE  /\ Load(k, a) = Ok(Contents(a, k.field))
         /\ OwnerOk(k, a) /\ LengthOk(k, a) /\ Unpacks(k, a) /\ StateOk(k, a)
         /\ k.field \in DOMAIN ExtensionOf => ExtensionOf[k.field] \in a.exts
         /\ k.field \in Optional => k.field \in a.set
<1>1. ASSUME NEW e PROVE Err(e).err = e
  BY DEF Err
<1>2. OwnerOk(k, a)
  BY <1>1 DEF Load
<1>3. LengthOk(k, a)
  BY <1>1, <1>2 DEF Load
<1>4. Unpacks(k, a)
  <2>1. k.src \notin {"token", "token22", "stake", "loader"} => Unpacks(k, a)
    BY DEF Unpacks
  <2>2. k.src \in {"token", "token22", "stake", "loader"} => UnpackError[k.src] # "Ok"
    BY DEF UnpackError
  <2> QED
    BY <1>1, <1>2, <1>3, <2>1, <2>2 DEF Load
<1>5. StateOk(k, a)
  <2>1. k.src \notin {"stake", "loader"} => StateOk(k, a)
    BY KindCases DEF StateOk
  <2>2. k.src \in {"stake", "loader"} => StateError[k.src] # "Ok"
    BY DEF StateError
  <2> QED
    BY <1>1, <1>2, <1>3, <1>4, <2>1, <2>2 DEF Load
<1>6. Load(k, a) = FieldOf(k, a)
  BY <1>2, <1>3, <1>4, <1>5 DEF Load
<1>7. k.field \in DOMAIN ExtensionOf => ExtensionOf[k.field] \in a.exts
  BY <1>1, <1>6 DEF FieldOf
<1>8. k.field \in Optional => k.field \in a.set
  BY <1>1, <1>6, <1>7 DEF FieldOf
<1> QED
  BY <1>2, <1>3, <1>4, <1>5, <1>6, <1>7, <1>8 DEF FieldOf

\* And it succeeds when every check of it does.
LEMMA LoadSucceeds ==
  ASSUME NEW k, NEW a,
         OwnerOk(k, a), LengthOk(k, a), Unpacks(k, a), StateOk(k, a),
         k.field \in DOMAIN ExtensionOf => ExtensionOf[k.field] \in a.exts,
         k.field \in Optional => k.field \in a.set
  PROVE  Load(k, a) = Ok(Contents(a, k.field)) /\ Load(k, a).err = "Ok"
BY DEF Load, FieldOf, Ok

-----------------------------------------------------------------------------
(* The kinds that share a tuple of the cache.                              *)

TupleForm == [account_base |-> "account", account_fee |-> "account",
              mint_base |-> "mint", mint_fee |-> "mint", mint_default |-> "mint"]
TupleExtension == [account_fee |-> "fee_amount", mint_fee |-> "fee_config",
                   mint_default |-> "default_state"]

\* A cached kind stands in its tuple, and all that decides whether it loads is
\* the tuple's.
LEMMA CachedKinds ==
  ASSUME NEW k \in CachedKind
  PROVE  LET f == PlaceOf[k.field][1]
             p == PlaceOf[k.field][2]
         IN /\ k \in Kind /\ k.src = "token22"
            /\ f \in CacheField /\ k.form = TupleForm[f]
            /\ p \in DOMAIN CachedFields[f] /\ CachedFields[f][p] = k.field
            /\ k.field \notin Optional
            /\ k.field \in DOMAIN ExtensionOf <=> f \in DOMAIN TupleExtension
            /\ f \in DOMAIN TupleExtension => ExtensionOf[k.field] = TupleExtension[f]
<1>1. k \in Kind /\ k.src = "token22" /\ k.field \in DOMAIN PlaceOf
  BY DEF CachedKind
<1>2. k.field \in {"amount", "delegated_amount", "state", "fee_withheld", "supply", "decimals",
                   "fee_basis_points", "fee_maximum", "fee_mint_withheld", "default_account_state"}
  BY <1>1 DEF PlaceOf
<1>3. /\ k.field \in {"amount", "delegated_amount", "state", "fee_withheld"} => k.form = "account"
      /\ k.field \notin {"amount", "delegated_amount", "state", "fee_withheld"} => k.form = "mint"
  BY <1>1, <1>2, KindCases DEF AccountFields, MintFields
<1>4. k.field \notin Optional
  BY <1>2 DEF Optional
<1>5. CASE k.field \in {"amount", "delegated_amount", "state"}
  BY <1>1, <1>3, <1>4, <1>5
     DEF PlaceOf, CacheField, CachedFields, TupleForm, TupleExtension, ExtensionOf
<1>6. CASE k.field \in {"fee_withheld", "default_account_state"}
  BY <1>1, <1>3, <1>4, <1>6
     DEF PlaceOf, CacheField, CachedFields, TupleForm, TupleExtension, ExtensionOf
<1>7. CASE k.field \in {"supply", "decimals"}
  BY <1>1, <1>3, <1>4, <1>7
     DEF PlaceOf, CacheField, CachedFields, TupleForm, TupleExtension, ExtensionOf
<1>8. CASE k.field \in {"fee_basis_points", "fee_maximum", "fee_mint_withheld"}
  BY <1>1, <1>3, <1>4, <1>8
     DEF PlaceOf, CacheField, CachedFields, TupleForm, TupleExtension, ExtensionOf
<1> QED
  BY <1>2, <1>5, <1>6, <1>7, <1>8

\* An account from which one field of a tuple loads gives them all.
LEMMA TupleLoadsTogether ==
  ASSUME NEW k \in CachedKind, NEW l \in CachedKind,
         PlaceOf[k.field][1] = PlaceOf[l.field][1],
         NEW a, Load(k, a).err = "Ok"
  PROVE  Load(l, a).err = "Ok"
<1>1. /\ k \in Kind /\ k.src = l.src /\ k.form = l.form /\ k.src = "token22"
      /\ l.field \notin Optional
      /\ l.field \in DOMAIN ExtensionOf =>
           k.field \in DOMAIN ExtensionOf /\ ExtensionOf[l.field] = ExtensionOf[k.field]
  BY CachedKinds
<1>2. /\ OwnerOk(k, a) /\ LengthOk(k, a) /\ Unpacks(k, a) /\ StateOk(k, a)
      /\ k.field \in DOMAIN ExtensionOf => ExtensionOf[k.field] \in a.exts
  BY <1>1, LoadAnswer
<1>3. OwnerOk(l, a) /\ LengthOk(l, a) /\ Unpacks(l, a) /\ StateOk(l, a)
  BY <1>1, <1>2 DEF OwnerOk, LengthOk, Unpacks, StateOk
<1> QED
  BY <1>1, <1>2, <1>3, LoadSucceeds

-----------------------------------------------------------------------------
(* What a load means.                                                      *)

\* How long the data of an account is, by the form it has.
LEMMA Lengths ==
  ASSUME NEW a, IsFiniteSet(a.exts)
  PROVE  /\ a.family \in {"token", "token22"} =>
              /\ a.form = "account" /\ a.exts = {} => DataLen(a) = 165
              /\ a.form = "mint" /\ a.exts = {} => DataLen(a) = 82
              /\ a.form = "account" => DataLen(a) \in Nat /\ DataLen(a) >= 165
              /\ a.form = "mint" => DataLen(a) \in Nat /\ DataLen(a) >= 82
         /\ a.form \in FormsOf(StakeForm) /\ a.family = "stake" => DataLen(a) = StakeLen
<1>1. Cardinality(a.exts) \in Nat /\ (a.exts = {} => Cardinality(a.exts) = 0)
  BY FS_CardinalityType, FS_EmptySet
<1>2. ASSUME a.family \in {"token", "token22"}, a.form = "account"
      PROVE  DataLen(a) = 165 + 13 * Cardinality(a.exts)
  BY <1>2 DEF DataLen
<1>3. ASSUME a.family \in {"token", "token22"}, a.form = "mint"
      PROVE  DataLen(a) = IF a.exts = {} THEN 82 ELSE 166 + 36 * Cardinality(a.exts)
  BY <1>3 DEF DataLen
<1>4. a.form \in FormsOf(StakeForm) /\ a.family = "stake" => DataLen(a) = StakeLen
  BY DEF DataLen, FormsOf, StakeForm
<1> QED
  BY <1>1, <1>2, <1>3, <1>4

\* An account of a program whose data is read has a form of that program.
LEMMA FormOfProgram ==
  ASSUME NEW a, IsState(a), NEW p \in {"token", "token22", "stake", "loader"}, a.program = p
  PROVE  /\ a.family = p /\ IsFiniteSet(a.exts)
         /\ p \in {"token", "token22"} => a.form \in TokenForm
         /\ p = "stake" => a.form \in FormsOf(StakeForm)
         /\ p = "loader" => a.form \in FormsOf(LoaderForm)
         /\ p = "token" => a.exts = {}
<1>1. p \in DOMAIN FormsBy
  BY DEF FormsBy
<1>2. a.family = p /\ a.form \in FormsBy[p]
  BY <1>1 DEF IsState
<1> QED
  BY <1>1, <1>2 DEF IsState, FormsBy

\* A load succeeds exactly on the accounts its kind is documented for.
LEMMA LoadIsGenuine ==
  ASSUME NEW k \in Kind, NEW a, IsState(a)
  PROVE  Load(k, a).err = "Ok" <=> Genuine(k, a)
<1> DEFINE Present == /\ k.field \in DOMAIN ExtensionOf => ExtensionOf[k.field] \in a.exts
                      /\ k.field \in Optional => k.field \in a.set
           Checked == OwnerOk(k, a) /\ LengthOk(k, a) /\ Unpacks(k, a) /\ StateOk(k, a)
<1>1. Load(k, a).err = "Ok" <=> Checked /\ Present
  BY LoadAnswer, LoadSucceeds
<1>2. k.src \in {"info", "token", "token22", "stake", "loader"}
  BY KindCases
<1>3. CASE k.src = "info"
  <2>1. k.field \in InfoFields /\ k.form = "any"
    BY <1>3, KindCases
  <2>2. k.field \notin DOMAIN ExtensionOf /\ k.field \notin Optional
    BY <2>1 DEF InfoFields, ExtensionOf, Optional
  <2>3. Checked
    BY <1>3, <2>1 DEF OwnerOk, LengthOk, Unpacks, StateOk
  <2> QED
    BY <1>1, <1>3, <2>2, <2>3 DEF Genuine
<1>4. CASE k.src = "token"
  <2>1. k.form \in {"account", "mint"}
    BY <1>4, KindCases
  <2>2. Checked <=> a.program = "token" /\ a.family = "token" /\ a.form = k.form
    <3>1. OwnerOk(k, a) <=> a.program = "token"
      BY <1>4 DEF OwnerOk
    <3>2. Unpacks(k, a) <=> a.form = k.form
      BY <1>4 DEF Unpacks
    <3>3. StateOk(k, a)
      BY <2>1 DEF StateOk
    <3>4. a.program = "token" => a.family = "token" /\ a.exts = {} /\ IsFiniteSet(a.exts)
      BY FormOfProgram
    <3>5. a.program = "token" /\ a.form = k.form => LengthOk(k, a)
      BY <1>4, <2>1, <3>4, Lengths DEF LengthOk, BaseLen
    <3> QED
      BY <3>1, <3>2, <3>3, <3>4, <3>5
  <2> QED
    BY <1>1, <1>4, <2>1, <2>2 DEF Genuine
<1>5. CASE k.src = "token22"
  <2>1. k.form \in {"account", "mint"}
    BY <1>5, KindCases
  <2>2. Checked <=> a.program = "token22" /\ a.family = "token22" /\ a.form = k.form
    <3>1. OwnerOk(k, a) <=> a.program = "token22"
      BY <1>5 DEF OwnerOk
    <3>2. Unpacks(k, a) <=> a.form = k.form
      BY <1>5 DEF Unpacks
    <3>3. StateOk(k, a)
      BY <2>1 DEF StateOk
    <3>4. a.program = "token22" => a.family = "token22" /\ IsFiniteSet(a.exts)
      BY FormOfProgram
    <3>5. a.program = "token22" /\ a.form = k.form => LengthOk(k, a)
      BY <1>5, <2>1, <3>4, Lengths DEF LengthOk, BaseLen
    <3> QED
      BY <3>1, <3>2, <3>3, <3>4, <3>5
  <2> QED
    BY <1>1, <1>5, <2>1, <2>2 DEF Genuine
<1>6. CASE k.src = "stake"
  <2>1. k.form \in {"any", "meta", "stake"}
    BY <1>6, KindCases
  <2>2. a.program = "stake" => a.family = "stake" /\ a.form \in FormsOf(StakeForm)
                               /\ IsFiniteSet(a.exts)
    BY FormOfProgram
  <2>3. a.program = "stake" => LengthOk(k, a) /\ Unpacks(k, a)
    BY <1>6, <2>2, Lengths DEF LengthOk, Unpacks
  <2>4. OwnerOk(k, a) <=> a.program = "stake"
    BY <1>6 DEF OwnerOk
  <2>5. StateOk(k, a) <=> /\ k.form = "meta" => a.form \in {"initialized", "stake"}
                          /\ k.form = "stake" => a.form = "stake"
    BY <2>1 DEF StateOk
  <2>6. Checked <=> /\ a.program = "stake"
                    /\ k.form = "meta" => a.form \in {"initialized", "stake"}
                    /\ k.form = "stake" => a.form = "stake"
    BY <2>3, <2>4, <2>5
  <2> QED
    BY <1>1, <1>6, <2>1, <2>2, <2>6 DEF Genuine
<1>7. CASE k.src = "loader"
  <2>1. k.form \in {"any", "program_data", "program"}
    BY <1>7, KindCases
  <2>2. a.program = "loader" => a.family = "loader" /\ a.form \in FormsOf(LoaderForm)
    BY FormOfProgram
  <2>3. Checked <=> a.program = "loader" /\ (k.form # "any" => a.form = k.form)
    BY <1>7, <2>1, <2>2 DEF OwnerOk, LengthOk, Unpacks, StateOk
  <2> QED
    BY <1>1, <1>7, <2>1, <2>2, <2>3 DEF Genuine
<1> QED
  BY <1>2, <1>3, <1>4, <1>5, <1>6, <1>7

\* The type the tape says is the type the value was encoded with.
LEMMA TypeIsEncoded ==
  ASSUME NEW k \in Kind
  PROVE  value_type(k.field) = EncodedType(k.field)
<1> DEFINE f == k.field
<1>1. f \in AccountFields \cup MintFields \cup MetaFields \cup StakeFields \cup InfoFields \cup
            {"fee_withheld", "fee_basis_points", "fee_maximum", "fee_mint_withheld",
             "default_account_state", "account_state", "program_data_tag", "upgrade_authority",
             "programdata_address"}
  BY KindCases
<1> HIDE DEF f
<1>2. ASSUME f \in AccountFields PROVE value_type(f) = EncodedType(f)
  BY <1>2 DEF AccountFields, value_type, EncodedType
<1>3. ASSUME f \in MintFields PROVE value_type(f) = EncodedType(f)
  BY <1>3 DEF MintFields, value_type, EncodedType
<1>4. ASSUME f \in MetaFields PROVE value_type(f) = EncodedType(f)
  BY <1>4 DEF MetaFields, value_type, EncodedType
<1>5. ASSUME f \in StakeFields PROVE value_type(f) = EncodedType(f)
  BY <1>5 DEF StakeFields, value_type, EncodedType
<1>6. ASSUME f \in InfoFields PROVE value_type(f) = EncodedType(f)
  BY <1>6 DEF InfoFields, value_type, EncodedType
<1>7. ASSUME f \in {"fee_withheld", "fee_basis_points", "fee_maximum", "fee_mint_withheld",
                    "default_account_state", "account_state", "program_data_tag",
                    "upgrade_authority", "programdata_address"}
      PROVE  value_type(f) = EncodedType(f)
  BY <1>7 DEF value_type, EncodedType
<1>8. value_type(f) = EncodedType(f)
  BY <1>1, <1>2, <1>3, <1>4, <1>5, <1>6, <1>7
<1> QED
  BY <1>8 DEF f

-----------------------------------------------------------------------------
(* The invariant, and what keeps it.                                       *)

\* Every account passed to a let is one there can be, the Frame and the
\* program among them.
LEMMA InfoIsState ==
  ASSUME ledger \in Ledger, NEW a \in Other \cup {Frame, Ifx}
  PROVE  IsState(InfoOf(a))
<1>1. CASE a = Frame
  <2>1. /\ InfoOf(a).family = "ifx" /\ InfoOf(a).program = Ifx /\ InfoOf(a).exts = {}
    BY <1>1 DEF InfoOf, FrameState
  <2>2. "ifx" \notin DOMAIN FormsBy /\ "token" \in DOMAIN FormsBy
    BY DEF FormsBy
  <2> QED
    BY <2>1, <2>2, LetBatchAssumption, FS_EmptySet DEF IsState
<1>2. CASE a = Ifx
  <2>1. /\ InfoOf(a).family = "loader" /\ InfoOf(a).program = "loader"
        /\ InfoOf(a).exts = {} /\ InfoOf(a).form = "program"
    BY <1>2, LetBatchAssumption DEF InfoOf, FrameState, ProgramState
  <2>2. "program" \in FormsBy["loader"]
    <3>1. LoaderForm[3] = "program" /\ 3 \in DOMAIN LoaderForm
      BY DEF LoaderForm
    <3>2. "program" \in FormsOf(LoaderForm)
      BY <3>1 DEF FormsOf
    <3> QED
      BY <3>2 DEF FormsBy
  <2> QED
    BY <2>1, <2>2, FS_EmptySet DEF IsState
<1>3. CASE a \in Other
  <2>1. IsState(ledger[a])
    BY <1>3, LetBatchAssumption DEF Ledger
  <2>2. /\ InfoOf(a).family = ledger[a].family /\ InfoOf(a).program = ledger[a].program
        /\ InfoOf(a).exts = ledger[a].exts /\ InfoOf(a).form = ledger[a].form
    BY <1>3, LetBatchAssumption DEF InfoOf
  <2> QED
    BY <2>1, <2>2 DEF IsState
<1> QED
  BY <1>1, <1>2, <1>3

\* With a cache that is current an unpack gives the tuple of the account, and
\* fails as a load of the field would.
LEMMA EnsureIsFresh ==
  ASSUME CacheIsCurrent, NEW k \in CachedKind, NEW i \in Index
  PROVE  LET f == PlaceOf[k.field][1]
             a == InfoOf(remaining[i + 1])
         IN \/ Ensure(k, i) = Fresh(k, i) /\ Fresh(k, i).err # "Ok"
            \/ Ensure(k, i) = Ok(TupleOf(f, a)) /\ Fresh(k, i).err = "Ok"
<1> DEFINE f == PlaceOf[k.field][1]
           a == InfoOf(remaining[i + 1])
<1>1. cache[f][i] # None => cache[f][i] = TupleOf(f, a) /\ Fresh(k, i).err = "Ok"
  BY CachedKinds DEF CacheIsCurrent
<1>2. Ensure(k, i) = IF cache[f][i] # None THEN Ok(cache[f][i])
                     ELSE IF Fresh(k, i).err # "Ok" THEN Fresh(k, i) ELSE Ok(TupleOf(f, a))
  BY DEF Ensure, Slot
<1>3. \/ Ensure(k, i) = Fresh(k, i) /\ Fresh(k, i).err # "Ok"
      \/ Ensure(k, i) = Ok(TupleOf(f, a)) /\ Fresh(k, i).err = "Ok"
  <2> HIDE DEF f, a
  <2> QED
    BY <1>1, <1>2
<1> QED
  BY <1>3

\* So a binding answers as it would without a cache.
LEMMA CacheNeverShows ==
  ASSUME CacheIsCurrent, NEW k \in CachedKind, NEW i \in Index
  PROVE  Evaluated(k, i) = Fresh(k, i)
<1> DEFINE f == PlaceOf[k.field][1]
           p == PlaceOf[k.field][2]
           a == InfoOf(remaining[i + 1])
<1>1. k \in Kind /\ f \in CacheField /\ p \in DOMAIN CachedFields[f] /\ CachedFields[f][p] = k.field
  BY CachedKinds
<1>2. TupleOf(f, a)[p] = Contents(a, k.field)
  BY <1>1 DEF TupleOf
<1>3. Fresh(k, i).err = "Ok" => Fresh(k, i) = Ok(Contents(a, k.field))
  BY <1>1, LoadAnswer DEF Fresh, Err
<1>4. \/ Ensure(k, i) = Fresh(k, i) /\ Fresh(k, i).err # "Ok"
      \/ Ensure(k, i) = Ok(TupleOf(f, a)) /\ Fresh(k, i).err = "Ok"
  BY EnsureIsFresh
<1>5. Evaluated(k, i) = IF Ensure(k, i).err # "Ok" THEN Ensure(k, i) ELSE Ok(Ensure(k, i).v[p])
  BY DEF Evaluated
<1>6. ASSUME NEW v PROVE Ok(v).err = "Ok" /\ Ok(v).v = v
  BY DEF Ok
<1> HIDE DEF f, p, a
<1>7. CASE Ensure(k, i) = Fresh(k, i) /\ Fresh(k, i).err # "Ok"
  BY <1>5, <1>7
<1>8. CASE Ensure(k, i) = Ok(TupleOf(f, a)) /\ Fresh(k, i).err = "Ok"
  BY <1>2, <1>3, <1>5, <1>6, <1>8
<1> QED
  BY <1>4, <1>7, <1>8

\* A binding more than a session that is not full has.
LEMMA OneMoreFits ==
  ASSUME NEW c \in Nat, NEW n \in Nat, NEW m \in Nat, c + n <= m, c + n # m
  PROVE  n + 1 \in Nat /\ c + (n + 1) <= m
OBVIOUS

\* A let that fails leaves an empty session.
LEMMA FailedInv ==
  ASSUME LetBatchInv, NEW e, Failed(e)
  PROVE  LetBatchInv'
<1>1. LetBatchTypeOK'
  <2>1. Len(<<>>) = 0 /\ <<>> = [p \in 1 .. 0 |-> <<>>[p]] /\ <<>> \in Seq(Other \cup {Frame, Ifx})
    OBVIOUS
  <2>2. EmptyCache = [f \in CacheField |-> [i \in Index |-> EmptyCache[f][i]]]
    BY DEF EmptyCache
  <2>3. /\ ledger \in Ledger /\ epoch \in 0 .. MaxEpoch
    BY DEF LetBatchInv, LetBatchTypeOK
  <2>4. /\ letting' = FALSE /\ remaining' = <<>> /\ cache' = EmptyCache /\ batch' = <<>>
        /\ count' = 0 /\ ledger' = ledger /\ epoch' = epoch
    BY DEF Failed
  <2>5. Len(batch') \in Nat /\ batch' = [p \in 1 .. Len(batch') |-> batch'[p]]
    BY <2>4
  <2>6. remaining' \in Seq(Other \cup {Frame, Ifx}) /\ Len(remaining') <= MaxRemaining
    BY <2>1, <2>4, LetBatchAssumption
  <2>7. count' \in Nat /\ index_count' <= MaxTape
    BY <2>4, LetBatchAssumption DEF index_count
  <2>8. cache' = [f \in CacheField |-> [i \in Index |-> cache'[f][i]]]
    BY <2>2, <2>4
  <2> QED
    BY <2>3, <2>4, <2>5, <2>6, <2>7, <2>8 DEF LetBatchTypeOK
<1>2. CacheIsCurrent'
  BY DEF CacheIsCurrent, Failed, EmptyCache
<1>3. BatchIsSnapshot'
  BY DEF BatchIsSnapshot, Failed
<1> QED
  BY <1>1, <1>2, <1>3 DEF LetBatchInv

\* A value is appended as it was read, with the tape's index where it stands.
LEMMA AppendInv ==
  ASSUME LetBatchInv, letting,
         NEW how, NEW a, NEW v, NEW filled, AppendValue(how, a, v, filled),
         filled = [f \in CacheField |-> [i \in Index |-> filled[f][i]]],
         \A f \in CacheField, i \in Index :
           filled[f][i] # None =>
             /\ i < Len(remaining)
             /\ filled[f][i] = TupleOf(f, InfoOf(remaining[i + 1]))
             /\ \A k \in CachedKind : PlaceOf[k.field][1] = f => Fresh(k, i).err = "Ok",
         how = ClockEpoch => v = epoch,
         how # ClockEpoch /\ how # OwnCount => Load(how, InfoOf(a)) = Ok(v)
  PROVE  LetBatchInv'
<1>1. CASE index_count = MaxTape
  <2>1. Failed("IndexCapReached")
    BY <1>1 DEF AppendValue
  <2> QED
    BY <2>1, FailedInv
<1>2. CASE index_count # MaxTape
  <2> DEFINE b == [how |-> how, account |-> a, v |-> v]
  <2>1. /\ batch' = Append(batch, b) /\ cache' = filled
        /\ UNCHANGED <<ledger, epoch, letting, remaining, count>>
    BY <1>2 DEF AppendValue
  <2>2. b.how = how /\ b.account = a /\ b.v = v
    OBVIOUS
  <2> HIDE DEF b
  <2>3. /\ Len(batch) \in Nat /\ batch = [p \in 1 .. Len(batch) |-> batch[p]]
        /\ count \in Nat /\ count + Len(batch) <= MaxTape
    BY DEF LetBatchInv, LetBatchTypeOK, index_count
  <2>4. /\ Len(batch') = Len(batch) + 1 /\ batch' = [p \in 1 .. Len(batch') |-> batch'[p]]
        /\ batch'[Len(batch) + 1] = b
        /\ \A p \in 1 .. Len(batch) : batch'[p] = batch[p]
    BY <2>1, <2>3, AppendShape
  <2>5. \A p \in 1 .. Len(batch') : p \in 1 .. Len(batch) \/ p = Len(batch) + 1
    BY <2>3, <2>4
  <2>6. LetBatchTypeOK'
    <3>1. Len(batch') \in Nat /\ count + Len(batch') <= MaxTape
      <4>1. count + Len(batch) # MaxTape
        BY <1>2 DEF index_count
      <4>2. MaxTape \in Nat
        BY LetBatchAssumption
      <4>3. Len(batch) + 1 \in Nat /\ count + (Len(batch) + 1) <= MaxTape
        BY <2>3, <4>1, <4>2, OneMoreFits
      <4> QED
        BY <2>4, <4>3
    <3> QED
      BY <2>1, <2>4, <3>1 DEF LetBatchInv, LetBatchTypeOK, index_count
  <2>7. CacheIsCurrent'
    BY <2>1, SMTT(30) DEF CacheIsCurrent, Fresh, InfoOf
  <2>8. BatchIsSnapshot'
    <3>1. ASSUME NEW p \in 1 .. Len(batch')
          PROVE  CASE batch'[p].how = ClockEpoch -> batch'[p].v = epoch
                   [] batch'[p].how = OwnCount -> TRUE
                   [] OTHER -> Load(batch'[p].how, InfoOf(batch'[p].account)) = Ok(batch'[p].v)
      <4>1. CASE p \in 1 .. Len(batch)
        BY <2>4, <4>1 DEF LetBatchInv, BatchIsSnapshot
      <4>2. CASE p = Len(batch) + 1
        BY <2>2, <2>4, <4>2 DEF OwnCount, ClockEpoch
      <4> QED
        BY <2>5, <4>1, <4>2
    <3> QED
      BY <2>1, <3>1, ZenonT(40) DEF BatchIsSnapshot, InfoOf
  <2> QED
    BY <2>6, <2>7, <2>8 DEF LetBatchInv
<1> QED
  BY <1>1, <1>2

\* A binding that reads an account.
LEMMA BindKindInv ==
  ASSUME LetBatchInv, NEW k \in BoundKind, NEW i \in Index, BindKind(k, i)
  PROVE  LetBatchInv'
<1> DEFINE f == PlaceOf[k.field][1]
           a == remaining[i + 1]
           out == Evaluated(k, i)
           filled == IF k \in CachedKind THEN [cache EXCEPT ![f][i] = Ensure(k, i).v] ELSE cache
<1>1. k \in Kind /\ letting /\ CacheIsCurrent
  BY LetBatchAssumption DEF BindKind, LetBatchInv
<1>2. Evaluated(k, i) = Fresh(k, i)
  BY <1>1, CacheNeverShows DEF Evaluated
<1>3. CASE out.err # "Ok"
  BY <1>3, FailedInv DEF BindKind
<1>4. CASE out.err = "Ok"
  <2>1. AppendValue(k, a, out.v, filled)
    BY <1>4 DEF BindKind, Slot
  <2>2. i < Len(remaining) /\ Load(k, InfoOf(a)) = Fresh(k, i) /\ Fresh(k, i).err = "Ok"
    <3>1. Err("InvalidAccountIndex").err # "Ok"
      BY DEF Err
    <3>2. Len(remaining) \in Nat /\ i \in Int
      BY LetBatchAssumption DEF LetBatchInv, LetBatchTypeOK, Index
    <3> QED
      BY <1>2, <1>4, <3>1, <3>2 DEF Fresh
  <2>3. Load(k, InfoOf(a)) = Ok(out.v)
    <3>1. Load(k, InfoOf(a)) = Ok(Contents(InfoOf(a), k.field))
      BY <1>1, <2>2, LoadAnswer
    <3>2. out.v = Contents(InfoOf(a), k.field)
      BY <1>2, <2>2, <3>1 DEF Ok
    <3> QED
      BY <3>1, <3>2
  <2>4. cache = [g \in CacheField |-> [j \in Index |-> cache[g][j]]]
    BY DEF LetBatchInv, LetBatchTypeOK
  <2>5. /\ filled = [g \in CacheField |-> [j \in Index |-> filled[g][j]]]
        /\ \A g \in CacheField, j \in Index :
             filled[g][j] # None =>
               /\ j < Len(remaining)
               /\ filled[g][j] = TupleOf(g, InfoOf(remaining[j + 1]))
               /\ \A l \in CachedKind : PlaceOf[l.field][1] = g => Fresh(l, j).err = "Ok"
    <3>1. CASE k \notin CachedKind
      BY <1>1, <2>4, <3>1 DEF CacheIsCurrent
    <3>2. CASE k \in CachedKind
      <4>1. f \in CacheField
        BY <3>2, CachedKinds
      <4>2. Ensure(k, i).v = TupleOf(f, InfoOf(a))
        BY <1>1, <2>2, <3>2, EnsureIsFresh DEF Ok
      <4>3. \A l \in CachedKind : PlaceOf[l.field][1] = f => Fresh(l, i).err = "Ok"
        <5>1. Len(remaining) \in Nat /\ i \in Int
          BY LetBatchAssumption DEF LetBatchInv, LetBatchTypeOK, Index
        <5>2. ASSUME NEW l \in CachedKind, PlaceOf[l.field][1] = f
              PROVE  Load(l, InfoOf(a)).err = "Ok"
          BY <2>2, <3>2, <5>2, TupleLoadsTogether
        <5>3. \A l : Fresh(l, i) = Load(l, InfoOf(a))
          BY <2>2, <5>1 DEF Fresh
        <5> QED
          BY <5>2, <5>3
      <4>4. filled = [cache EXCEPT ![f][i] = Ensure(k, i).v]
        BY <3>2
      <4> HIDE DEF f, filled, a
      <4>5. /\ filled = [g \in CacheField |-> [j \in Index |-> filled[g][j]]]
            /\ filled[f][i] = Ensure(k, i).v
            /\ \A g \in CacheField, j \in Index : g # f \/ j # i => filled[g][j] = cache[g][j]
        <5> DEFINE v == Ensure(k, i).v
        <5>1. filled = [cache EXCEPT ![f][i] = v]
          BY <4>4
        <5> HIDE DEF v
        <5>2. /\ filled = [g \in CacheField |-> [j \in Index |-> filled[g][j]]]
              /\ filled[f][i] = v
              /\ \A g \in CacheField, j \in Index : g # f \/ j # i => filled[g][j] = cache[g][j]
          BY <2>4, <4>1, <5>1
        <5> QED
          BY <5>2 DEF v
      <4>6. ASSUME NEW g \in CacheField, NEW j \in Index, filled[g][j] # None
            PROVE  /\ j < Len(remaining)
                   /\ filled[g][j] = TupleOf(g, InfoOf(remaining[j + 1]))
                   /\ \A l \in CachedKind : PlaceOf[l.field][1] = g => Fresh(l, j).err = "Ok"
        <5>1. CASE g = f /\ j = i
          BY <2>2, <4>2, <4>3, <4>5, <5>1 DEF a
        <5>2. CASE g # f \/ j # i
          BY <1>1, <4>5, <4>6, <5>2 DEF CacheIsCurrent
        <5> QED
          BY <5>1, <5>2
      <4> QED
        BY <4>5, <4>6
    <3> QED
      BY <3>1, <3>2
  <2> HIDE DEF filled, out, a
  <2> QED
    BY <1>1, <2>1, <2>3, <2>5, KindShape, AppendInv
<1> QED
  BY <1>3, <1>4

\* The bindings that read the Frame or the clock.
LEMMA OtherBindInv ==
  ASSUME LetBatchInv,
         \/ \E i \in Index, j \in Index, inside \in BOOLEAN : BindOwnSlice(i, j, inside)
         \/ BindIndexCount
         \/ BindEpoch
  PROVE  LetBatchInv'
<1>1. /\ cache = [f \in CacheField |-> [i \in Index |-> cache[f][i]]]
      /\ \A f \in CacheField, i \in Index :
           cache[f][i] # None =>
             /\ i < Len(remaining)
             /\ cache[f][i] = TupleOf(f, InfoOf(remaining[i + 1]))
             /\ \A k \in CachedKind : PlaceOf[k.field][1] = f => Fresh(k, i).err = "Ok"
  BY DEF LetBatchInv, LetBatchTypeOK, CacheIsCurrent
<1>2. OwnCount # ClockEpoch
  BY DEF OwnCount, ClockEpoch
<1>3. ASSUME NEW i \in Index, NEW j \in Index, NEW inside \in BOOLEAN, BindOwnSlice(i, j, inside)
      PROVE  LetBatchInv'
  <2>1. letting /\ FrameSlice(i, j, inside).v = index_count
    BY <1>3 DEF BindOwnSlice, FrameSlice
  <2>2. \/ \E e : Failed(e)
        \/ AppendValue(OwnCount, Frame, index_count, cache)
    BY <1>3, <2>1 DEF BindOwnSlice
  <2> QED
    BY <1>1, <1>2, <2>1, <2>2, FailedInv, AppendInv
<1>4. ASSUME BindIndexCount PROVE LetBatchInv'
  BY <1>1, <1>2, <1>4, AppendInv DEF BindIndexCount
<1>5. ASSUME BindEpoch PROVE LetBatchInv'
  BY <1>1, <1>2, <1>5, AppendInv DEF BindEpoch
<1> QED
  BY <1>3, <1>4, <1>5

\* A let that starts, ends, or leaves nothing behind for the next one.
LEMMA LetEnterInv ==
  ASSUME LetBatchInv, NEW n \in 0 .. MaxRemaining,
         NEW passed \in [1 .. n -> Other \cup {Frame, Ifx}], LetEnter(passed)
  PROVE  LetBatchInv'
<1>1. /\ letting' = TRUE /\ remaining' = passed /\ cache = EmptyCache /\ batch = <<>>
      /\ UNCHANGED <<ledger, epoch, cache, batch, count>>
  BY DEF LetEnter, LetBatchInv, LetBatchTypeOK
<1>2. n \in Nat /\ n <= MaxRemaining
  BY LetBatchAssumption
<1>3. passed \in Seq(Other \cup {Frame, Ifx}) /\ Len(passed) <= MaxRemaining
  <2> DEFINE A == Other \cup {Frame, Ifx}
  <2> HIDE DEF A
  <2>1. passed \in [1 .. n -> A]
    BY DEF A
  <2>2. passed \in Seq(A) /\ Len(passed) = n
    BY <1>2, <2>1, SeqDef
  <2> QED
    BY <1>2, <2>2 DEF A
<1>4. LetBatchTypeOK'
  BY <1>1, <1>3 DEF LetBatchInv, LetBatchTypeOK, index_count
<1>5. CacheIsCurrent'
  BY <1>1 DEF CacheIsCurrent, EmptyCache
<1>6. BatchIsSnapshot'
  BY <1>1 DEF BatchIsSnapshot
<1> QED
  BY <1>4, <1>5, <1>6 DEF LetBatchInv

LEMMA LetReturnInv ==
  ASSUME LetBatchInv, LetReturn
  PROVE  LetBatchInv'
<1>1. /\ letting' = FALSE /\ remaining' = <<>> /\ batch' = <<>> /\ cache' = EmptyCache
      /\ count' = count + Len(batch) /\ ledger' = ledger /\ epoch' = epoch
  BY DEF LetReturn, index_count
<1>2. /\ Len(batch) \in Nat /\ count \in Nat /\ count + Len(batch) <= MaxTape
      /\ ledger \in Ledger /\ epoch \in 0 .. MaxEpoch
  BY DEF LetBatchInv, LetBatchTypeOK, index_count
<1>3. LetBatchTypeOK'
  <2>1. Len(batch') \in Nat /\ batch' = [p \in 1 .. Len(batch') |-> batch'[p]]
    BY <1>1
  <2>2. remaining' \in Seq(Other \cup {Frame, Ifx}) /\ Len(remaining') <= MaxRemaining
    BY <1>1, LetBatchAssumption
  <2>3. count' \in Nat /\ count' + Len(batch') <= MaxTape
    BY <1>1, <1>2
  <2>4. cache' = [f \in CacheField |-> [i \in Index |-> cache'[f][i]]]
    BY <1>1 DEF EmptyCache
  <2> QED
    BY <1>1, <1>2, <2>1, <2>2, <2>3, <2>4 DEF LetBatchTypeOK, index_count
<1>4. CacheIsCurrent'
  BY <1>1 DEF CacheIsCurrent, EmptyCache
<1>5. BatchIsSnapshot'
  BY <1>1 DEF BatchIsSnapshot
<1> QED
  BY <1>3, <1>4, <1>5 DEF LetBatchInv

\* Between lets there is nothing that an account or the clock could change.
LEMMA BetweenLetsInv ==
  ASSUME LetBatchInv,
         \/ ResetFrame
         \/ EpochPasses
         \/ \E a \in Other : \E s \in AccountState[a] : AccountMoves(a, s)
  PROVE  LetBatchInv'
<1>1. /\ ~ letting /\ remaining = <<>> /\ batch = <<>> /\ cache = EmptyCache
      /\ UNCHANGED <<letting, remaining, batch, cache>>
  BY DEF ResetFrame, EpochPasses, AccountMoves, LetBatchInv, LetBatchTypeOK
<1>2. ledger' \in Ledger
  <2>1. ledger \in Ledger
    BY DEF LetBatchInv, LetBatchTypeOK
  <2>2. ASSUME NEW a \in Other, NEW s \in AccountState[a], ledger' = [ledger EXCEPT ![a] = s]
        PROVE  ledger' \in Ledger
    BY <2>1, <2>2 DEF Ledger
  <2> QED
    BY <2>1, <2>2 DEF ResetFrame, EpochPasses, AccountMoves
<1>3. epoch' \in 0 .. MaxEpoch
  BY LetBatchAssumption DEF ResetFrame, EpochPasses, AccountMoves, LetBatchInv, LetBatchTypeOK
<1>4. count' \in Nat /\ count' + Len(batch) <= MaxTape
  <2>1. count \in Nat /\ count + Len(batch) <= MaxTape /\ Len(batch) = 0
    BY <1>1 DEF LetBatchInv, LetBatchTypeOK, index_count
  <2>2. count' = count \/ count' = 0
    BY DEF ResetFrame, EpochPasses, AccountMoves
  <2> QED
    BY <2>1, <2>2, LetBatchAssumption
<1>5. LetBatchTypeOK'
  BY <1>1, <1>2, <1>3, <1>4 DEF LetBatchInv, LetBatchTypeOK, index_count
<1>6. CacheIsCurrent'
  BY <1>1 DEF CacheIsCurrent, EmptyCache
<1>7. BatchIsSnapshot'
  BY <1>1 DEF BatchIsSnapshot
<1> QED
  BY <1>5, <1>6, <1>7 DEF LetBatchInv

LEMMA LetBatchInitInv == LetBatchInit => LetBatchInv
<1> SUFFICES ASSUME LetBatchInit PROVE LetBatchInv
  OBVIOUS
<1>1. /\ ledger \in Ledger /\ epoch = 0 /\ letting = FALSE /\ remaining = <<>>
      /\ cache = EmptyCache /\ batch = <<>> /\ count = 0
  BY DEF LetBatchInit
<1>2. LetBatchTypeOK
  <2>1. Len(batch) \in Nat /\ batch = [p \in 1 .. Len(batch) |-> batch[p]]
    BY <1>1
  <2>2. remaining \in Seq(Other \cup {Frame, Ifx}) /\ Len(remaining) <= MaxRemaining
    BY <1>1, LetBatchAssumption
  <2>3. count \in Nat /\ count + Len(batch) <= MaxTape
    BY <1>1, LetBatchAssumption
  <2>4. cache = [f \in CacheField |-> [i \in Index |-> cache[f][i]]]
    BY <1>1 DEF EmptyCache
  <2>5. epoch \in 0 .. MaxEpoch
    BY <1>1, LetBatchAssumption
  <2> QED
    BY <1>1, <2>1, <2>2, <2>3, <2>4, <2>5 DEF LetBatchTypeOK, index_count
<1>3. CacheIsCurrent
  BY <1>1 DEF CacheIsCurrent, EmptyCache
<1>4. BatchIsSnapshot
  BY <1>1 DEF BatchIsSnapshot
<1> QED
  BY <1>2, <1>3, <1>4 DEF LetBatchInv

LEMMA LetBatchStep == LetBatchInv /\ [LetBatchNext]_letVars => LetBatchInv'
<1> SUFFICES ASSUME LetBatchInv, [LetBatchNext]_letVars PROVE LetBatchInv'
  OBVIOUS
<1>1. CASE \E n \in 0 .. MaxRemaining : \E passed \in [1 .. n -> Other \cup {Frame, Ifx}] :
             LetEnter(passed)
  BY <1>1, LetEnterInv
<1>2. CASE \E k \in BoundKind, i \in Index : BindKind(k, i)
  BY <1>2, BindKindInv
<1>3. CASE \/ \E i \in Index, j \in Index, inside \in BOOLEAN : BindOwnSlice(i, j, inside)
           \/ BindIndexCount
           \/ BindEpoch
  BY <1>3, OtherBindInv
<1>4. CASE LetReturn
  BY <1>4, LetReturnInv
<1>5. CASE \/ ResetFrame
           \/ EpochPasses
           \/ \E a \in Other : \E s \in AccountState[a] : AccountMoves(a, s)
  BY <1>5, BetweenLetsInv
<1>6. CASE UNCHANGED letVars
  BY <1>6, SMTT(30) DEF letVars, LetBatchInv, LetBatchTypeOK, CacheIsCurrent, BatchIsSnapshot,
              Fresh, InfoOf, index_count
<1> QED
  BY <1>1, <1>2, <1>3, <1>4, <1>5, <1>6 DEF LetBatchNext

-----------------------------------------------------------------------------
(* Theorems.                                                               *)

\* What a let keeps is current, whatever the accounts, the kinds bound and the
\* order they come in (execute_let, LetBatchCache).
THEOREM LetBatchInvariance == LetBatchSpec => []LetBatchInv
BY LetBatchInitInv, LetBatchStep, PTL DEF LetBatchSpec

\* The cache of a let never shows: each next binding answers as it would
\* without one (ensure_token2022_*).
THEOREM CacheTransparent == LetBatchSpec => []CacheIsTransparent
<1>1. LetBatchInv => CacheIsTransparent
  BY CacheNeverShows DEF LetBatchInv, CacheIsTransparent
<1> QED
  BY <1>1, LetBatchInvariance, PTL

\* All that a let has bound is one snapshot of the chain.
THEOREM BatchesAreSnapshots == LetBatchSpec => []BatchIsSnapshot
<1>1. LetBatchInv => BatchIsSnapshot
  BY DEF LetBatchInv
<1> QED
  BY <1>1, LetBatchInvariance, PTL

\* Every kind answers exactly for the accounts it is documented for, whatever
\* accounts there are (eval_binding and the load_* functions).
THEOREM LoadsMean == LetBatchSpec => []LoadIsMeaning
<1>1. LetBatchInv => LoadIsMeaning
  <2> SUFFICES ASSUME LetBatchInv, letting, NEW i \in 0 .. Len(remaining) - 1, NEW k \in Kind
               PROVE  LET a == InfoOf(remaining[i + 1])
                          out == Evaluated(k, i)
                      IN /\ out.err = "Ok" <=> Genuine(k, a)
                         /\ out.err = "Ok" => out.v = Contents(a, k.field)
                         /\ value_type(k.field) = EncodedType(k.field)
    BY DEF LoadIsMeaning
  <2> DEFINE a == InfoOf(remaining[i + 1])
  <2>1. remaining \in Seq(Other \cup {Frame, Ifx}) /\ Len(remaining) <= MaxRemaining
    BY DEF LetBatchInv, LetBatchTypeOK
  <2>2. remaining[i + 1] \in Other \cup {Frame, Ifx}
    <3> DEFINE A == Other \cup {Frame, Ifx}
    <3> HIDE DEF A
    <3>1. remaining \in Seq(A) /\ i + 1 \in 1 .. Len(remaining)
      BY <2>1 DEF A
    <3>2. remaining[i + 1] \in A
      BY <3>1, ElementOfSeq
    <3> QED
      BY <3>2 DEF A
  <2>3. i \in Index /\ ~ (i >= Len(remaining))
    BY <2>1, LetBatchAssumption DEF Index
  <2>4. IsState(a)
    BY <2>2, InfoIsState DEF LetBatchInv, LetBatchTypeOK
  <2>5. Evaluated(k, i) = Load(k, a)
    <3>1. Evaluated(k, i) = Fresh(k, i)
      BY <2>3, CacheNeverShows DEF Evaluated, LetBatchInv
    <3> QED
      BY <2>3, <3>1 DEF Fresh
  <2> HIDE DEF a
  <2>6. Load(k, a).err = "Ok" => Load(k, a).v = Contents(a, k.field)
    BY LoadAnswer DEF Ok
  <2>7. Load(k, a).err = "Ok" <=> Genuine(k, a)
    BY <2>4, LoadIsGenuine
  <2> QED
    BY <2>5, <2>6, <2>7, TypeIsEncoded DEF a
<1> QED
  BY <1>1, LetBatchInvariance, PTL

=============================================================================
