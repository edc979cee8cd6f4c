-------------------------- MODULE Orchestration_proofs --------------------------
(***************************************************************************)
(* Proofs about Orchestration, for stacks of any height, arms and lists of *)
(* conditions of any length, any balances and any number of values.        *)
(***************************************************************************)
EXTENDS Orchestration, FrameSSA_proofs, DataLemmas

-----------------------------------------------------------------------------
(* The invariant, of any stack, facts and session.                         *)

HoldsIn(c, s) == ~ (c.index >= s.count) /\ s.binds[c.index].bytes[1] >= c.least

\* What entry e keeps describes session s.
Describes(e, s) ==
  e.op # "ext" =>
    /\ s # NoFrame
    /\ e.layout = <<s.authority, s.tape_len>>
    /\ e.op = "if_else" => HoldsIn(e.cond, s) = e.holds

StackOK(stk, s) ==
  /\ stk \in Seq(Entry) /\ Len(stk) <= MaxHeight
  /\ \A h \in 1 .. Len(stk) :
       /\ stk[h].op = "ext" => h = 1
       /\ Describes(stk[h], s)

FactsOK(facts, s, bal) ==
  /\ facts \in Facts
  /\ \A i \in Index :
       facts.checked[i] # NoType
         => s # NoFrame /\ i < s.count /\ s.binds[i].bytes[1] = facts.checked[i]
  /\ \A i \in facts.fresh : s # NoFrame /\ i < s.count /\ s.binds[i].bytes[1] = bal
  /\ bal >= facts.assured

\* The invariant in those terms.
LEMMA InvParts ==
  ASSUME OrchestrationInv
  PROVE  /\ SSATypeOK /\ balance \in Byte /\ settled \in Byte
         /\ ~ open => stack = <<>>
         /\ StackOK(stack, session) /\ FactsOK(known, session, balance)
<1>1. FactsOK(known, session, balance)
  BY DEF OrchestrationInv, OrchestrationTypeOK, CheckedIsUsed, GuardsAreTrue, FactsOK, Value
<1>2. \A h \in 1 .. Len(stack) : Describes(stack[h], session)
  BY DEF OrchestrationInv, WaitingIsCurrent, Describes, HoldsIn, Holds, EvalFails, Value, Layout
<1> QED
  BY <1>1, <1>2 DEF OrchestrationInv, OrchestrationTypeOK, StackOK

LEMMA InvFromParts ==
  ASSUME SSATypeOK', balance' \in Byte, settled' \in Byte, ~ open' => stack' = <<>>,
         StackOK(stack', session'), FactsOK(known', session', balance')
  PROVE  OrchestrationInv'
<1>1. CheckedIsUsed' /\ GuardsAreTrue' /\ known' \in Facts
      /\ \A i \in known'.fresh :
           session' # NoFrame /\ i < session'.count /\ session'.binds[i].bytes[1] = balance'
  BY DEF CheckedIsUsed, GuardsAreTrue, FactsOK, Value
<1>2. WaitingIsCurrent'
  BY DEF StackOK, WaitingIsCurrent, Describes, HoldsIn, Holds, EvalFails, Value, Layout
<1> QED
  BY <1>1, <1>2 DEF OrchestrationInv, OrchestrationTypeOK, StackOK, Value

\* Bytes of a session's value: a balance or an amount.
LEMMA ValueIsByte ==
  ASSUME NEW s, SessionOK(s), NEW i \in Index, i < s.count
  PROVE  s.binds[i].bytes[1] \in Byte /\ s.binds[i].ty = Amount
<1>1. i \in 0 .. s.count - 1
  BY SessionFields, SSAAssumption DEF Index
<1>2. s.binds[i].ty \in ValueType /\ s.binds[i].bytes \in Payload(s.binds[i].ty)
  BY <1>1, SessionFields
<1>3. s.binds[i].ty = Amount /\ s.binds[i].bytes \in [1 .. 1 -> Byte]
  BY <1>2, OrchestrationAssumption DEF Payload
<1> QED
  BY <1>3

\* A byte less another is a byte (balances are counted from 0).
LEMMA Subtract ==
  ASSUME NEW a \in Byte, NEW b \in Byte, ~ (a > b)
  PROVE  b - a \in Byte
<1>1. a \in Nat /\ b \in Nat /\ b - a \in 0 .. b
  BY OrchestrationAssumption
<1> QED
  BY <1>1, OrchestrationAssumption

-----------------------------------------------------------------------------
(* Facts.                                                                  *)

LEMMA NothingOK ==
  ASSUME NEW s, NEW bal \in Byte
  PROVE  Nothing \in Facts /\ FactsOK(Nothing, s, bal)
<1>1. Nothing \in Facts
  BY OrchestrationAssumption DEF Nothing, Facts
<1>2. \A i \in Index : Nothing.checked[i] = NoType
  BY DEF Nothing
<1>3. Nothing.fresh = {} /\ Nothing.assured = 0 /\ bal >= 0
  BY OrchestrationAssumption DEF Nothing
<1> QED
  BY <1>1, <1>2, <1>3 DEF FactsOK

\* The fields of facts, after each of the updates the actions make.
LEMMA FactsFields ==
  ASSUME NEW A, NEW B, NEW C, NEW f \in [checked : A, fresh : B, assured : C],
         NEW a \in A, NEW b \in B, NEW c \in C
  PROVE  /\ f.checked \in A /\ f.fresh \in B /\ f.assured \in C
         /\ LET g == [f EXCEPT !.checked = a]
            IN  g \in [checked : A, fresh : B, assured : C]
                /\ g.checked = a /\ g.fresh = f.fresh /\ g.assured = f.assured
         /\ LET g == [f EXCEPT !.fresh = b]
            IN  g \in [checked : A, fresh : B, assured : C]
                /\ g.checked = f.checked /\ g.fresh = b /\ g.assured = f.assured
         /\ LET g == [f EXCEPT !.assured = c]
            IN  g \in [checked : A, fresh : B, assured : C]
                /\ g.checked = f.checked /\ g.fresh = f.fresh /\ g.assured = c
         /\ LET g == [f EXCEPT !.fresh = b, !.assured = c]
            IN  g \in [checked : A, fresh : B, assured : C]
                /\ g.checked = f.checked /\ g.fresh = b /\ g.assured = c
         /\ LET g == [f EXCEPT !.checked = a, !.fresh = b]
            IN  g \in [checked : A, fresh : B, assured : C]
                /\ g.checked = a /\ g.fresh = b /\ g.assured = f.assured
OBVIOUS

\* Reading values of the session adds them to what has been checked.
LEMMA ReadOK ==
  ASSUME OrchestrationInv, session # NoFrame,
         NEW I \in SUBSET Index, \A i \in I : i < session.count
  PROVE  /\ FactsOK(Read(I), session, balance)
         /\ Read(I).fresh = known.fresh /\ Read(I).assured = known.assured
<1> DEFINE c == [i \in Index |-> IF i \in I THEN Value(i) ELSE known.checked[i]]
<1>1. SessionOK(session) /\ FactsOK(known, session, balance)
  BY InvParts DEF SSATypeOK
<1>2. \A i \in I : Value(i) \in Byte
  BY <1>1, ValueIsByte DEF Value
<1>3. known.checked \in [Index -> Byte \cup {NoType}] /\ known.fresh \in SUBSET Index
      /\ known.assured \in Byte
  BY <1>1 DEF FactsOK, Facts
<1>4. c \in [Index -> Byte \cup {NoType}]
  BY <1>2, <1>3
<1>5. \A i \in Index :
        c[i] # NoType => i < session.count /\ session.binds[i].bytes[1] = c[i]
  BY <1>1 DEF FactsOK, Value
<1>6. Read(I) = [known EXCEPT !.checked = c]
  BY DEF Read
<1> HIDE DEF c
<1>7. /\ Read(I) \in Facts
      /\ Read(I).checked = c /\ Read(I).fresh = known.fresh /\ Read(I).assured = known.assured
  <2>1. known \in [ checked : [Index -> Byte \cup {NoType}], fresh : SUBSET Index,
                     assured : Byte ]
    BY <1>1 DEF FactsOK, Facts
  <2> DEFINE g == [known EXCEPT !.checked = c]
             A == [Index -> Byte \cup {NoType}]
             B == SUBSET Index
  <2> HIDE DEF A, B
  <2>2. known \in [checked : A, fresh : B, assured : Byte] /\ c \in A
        /\ known.fresh \in B /\ known.assured \in Byte
    BY <1>3, <1>4, <2>1 DEF A, B
  <2>3. g \in [checked : A, fresh : B, assured : Byte]
        /\ g.checked = c /\ g.fresh = known.fresh /\ g.assured = known.assured
    BY <2>2, FactsFields
  <2> QED
    BY <1>6, <2>3 DEF Facts, A, B
<1> QED
  BY <1>1, <1>5, <1>7 DEF FactsOK

\* Facts without the balance hold of any balance.
LEMMA MovedOK ==
  ASSUME NEW facts, NEW s, NEW bal, NEW b \in Byte, FactsOK(facts, s, bal)
  PROVE  FactsOK(Moved(facts), s, b)
<1>1. facts \in Facts /\ {} \in SUBSET Index /\ 0 \in Byte /\ b >= 0
  BY OrchestrationAssumption DEF FactsOK
<1>2. facts.checked \in [Index -> Byte \cup {NoType}] /\ facts.fresh \in SUBSET Index
      /\ facts.assured \in Byte
  BY <1>1 DEF Facts
<1>3. /\ Moved(facts) \in Facts /\ Moved(facts).checked = facts.checked
      /\ Moved(facts).fresh = {} /\ Moved(facts).assured = 0
  BY <1>1, <1>2, FactsFields DEF Moved, Facts
<1> QED
  BY <1>1, <1>3 DEF FactsOK

\* What the message forgets with the session holds of any session.
LEMMA ForgottenOK ==
  ASSUME OrchestrationInv, AtTop, NEW s
  PROVE  FactsOK(Forgotten, s, balance)
<1> DEFINE c == [i \in Index |-> NoType]
<1>1. FactsOK(known, session, balance)
  BY InvParts
<1>2. known.checked \in [Index -> Byte \cup {NoType}] /\ known.fresh \in SUBSET Index
      /\ known.assured \in Byte /\ known \in Facts /\ balance >= known.assured
  BY <1>1 DEF FactsOK, Facts
<1>3. c \in [Index -> Byte \cup {NoType}] /\ {} \in SUBSET Index
      /\ \A i \in Index : c[i] = NoType
  OBVIOUS
<1>4. Forgotten = [known EXCEPT !.checked = c, !.fresh = {}]
  BY DEF Forgotten, Nothing
<1> HIDE DEF c
<1>5. /\ Forgotten \in Facts /\ Forgotten.checked = c
      /\ Forgotten.fresh = {} /\ Forgotten.assured = known.assured
  BY <1>2, <1>3, <1>4, FactsFields DEF Facts
<1> QED
  BY <1>2, <1>3, <1>5 DEF FactsOK

\* A binding leaves the facts true; that of the live balance is one more.
LEMMA BoundFactsOK ==
  ASSUME OrchestrationInv, SessionOK(session), NEW v \in Byte, NEW loads \in BOOLEAN,
         loads => v = balance, NEW t, SessionOK(t), t.count = session.count + 1,
         t.binds[session.count].bytes[1] = v,
         \A i \in 0 .. session.count - 1 : t.binds[i] = session.binds[i]
  PROVE  FactsOK(IF loads THEN [known EXCEPT !.fresh = @ \cup {session.count}] ELSE known,
                 t, balance)
<1>1. FactsOK(known, session, balance) /\ session.count \in Nat /\ t # NoFrame
      /\ t.count <= MaxBindingIndex /\ MaxBindingIndex \in Nat
  BY InvParts, SessionFields, SSAAssumption
<1>2. session.count \in Index
  BY <1>1 DEF Index
<1>3. known.checked \in [Index -> Byte \cup {NoType}] /\ known.fresh \in SUBSET Index
      /\ known.assured \in Byte /\ known \in Facts
  BY <1>1 DEF FactsOK, Facts
<1>4. \A i \in Index : i < session.count =>
        i < t.count /\ t.binds[i].bytes[1] = session.binds[i].bytes[1]
  BY <1>1 DEF Index
<1>5. FactsOK(known, t, balance)
  <2>1. \A i \in Index : known.checked[i] # NoType
          => i < t.count /\ t.binds[i].bytes[1] = known.checked[i]
    BY <1>1, <1>4 DEF FactsOK
  <2>2. \A i \in known.fresh : i < t.count /\ t.binds[i].bytes[1] = balance
    BY <1>1, <1>3, <1>4 DEF FactsOK
  <2> QED
    BY <1>1, <2>1, <2>2 DEF FactsOK
<1> DEFINE u == known.fresh \cup {session.count}
<1>6. u \in SUBSET Index
  BY <1>2, <1>3
<1>7. CASE loads
  <2> DEFINE g == [known EXCEPT !.fresh = u]
  <2>1. \A i \in u : i < t.count /\ t.binds[i].bytes[1] = balance
    BY <1>1, <1>5, <1>7 DEF FactsOK
  <2> HIDE DEF u
  <2>2. g \in Facts /\ g.checked = known.checked /\ g.fresh = u /\ g.assured = known.assured
    BY <1>3, <1>6, FactsFields DEF Facts
  <2> HIDE DEF g
  <2>3. FactsOK(g, t, balance)
    BY <1>1, <1>5, <2>1, <2>2 DEF FactsOK
  <2> QED
    BY <1>7, <2>3 DEF g, u
<1> QED
  BY <1>5, <1>7

\* What the conditions of a guard that passes say about the balance.
LEMMA AssertFactsOK ==
  ASSUME OrchestrationInv, session # NoFrame,
         NEW n \in Nat, NEW conds \in [1 .. n -> Cond], AllPass(conds)
  PROVE  LET I == {conds[p].index : p \in DOMAIN conds}
             least == {conds[p].least : p \in {q \in DOMAIN conds : conds[q].index \in known.fresh}}
             bounds == least \cup {known.assured}
         IN FactsOK([Read({i \in I : i < session.count})
                       EXCEPT !.assured = CHOOSE b \in bounds : \A c \in bounds : c <= b],
                    session, balance)
<1> DEFINE I == {conds[p].index : p \in DOMAIN conds}
           least == {conds[p].least : p \in {q \in DOMAIN conds : conds[q].index \in known.fresh}}
           bounds == least \cup {known.assured}
           top == CHOOSE b \in bounds : \A c \in bounds : c <= b
           J == {i \in I : i < session.count}
           r == Read(J)
           g == [r EXCEPT !.assured = top]
<1>1. SessionOK(session) /\ FactsOK(known, session, balance) /\ balance \in Nat
      /\ Byte \subseteq Nat /\ balance \in Byte
  BY InvParts, OrchestrationAssumption DEF SSATypeOK
<1>2. \A p \in DOMAIN conds : conds[p] \in Cond /\ conds[p].index \in Index
                             /\ conds[p].least \in Byte
  BY DEF Cond
<1>3. J \in SUBSET Index /\ \A i \in J : i < session.count
  BY <1>2
<1> HIDE DEF J
<1>4. FactsOK(r, session, balance) /\ r.fresh = known.fresh /\ r.assured = known.assured
  BY <1>3, ReadOK, SessionFields, <1>1
<1>5. \A b \in bounds : b \in Byte /\ b <= balance
  <2>1. known.assured \in Byte /\ known.assured <= balance
    BY <1>1 DEF FactsOK, Facts
  <2>2. ASSUME NEW p \in DOMAIN conds, conds[p].index \in known.fresh
        PROVE  conds[p].least \in Byte /\ conds[p].least <= balance
    <3>1. session.binds[conds[p].index].bytes[1] = balance
      BY <1>1, <2>2 DEF FactsOK
    <3>2. session.binds[conds[p].index].bytes[1] >= conds[p].least
      BY DEF AllPass, Holds, Value
    <3> QED
      BY <1>1, <1>2, <3>1, <3>2
  <2> QED
    BY <2>1, <2>2
<1>6. top \in Byte /\ top <= balance
  <2>1. bounds \subseteq Nat /\ bounds # {}
    BY <1>1, <1>5
  <2> HIDE DEF bounds
  <2>2. \E b \in bounds : \A c \in bounds : c <= b
    BY <1>1, <1>5, <2>1, NatMax
  <2>3. top \in bounds
    BY <2>2
  <2> QED
    BY <1>5, <2>3
<1> HIDE DEF top, r
<1>7. g \in Facts /\ g.checked = r.checked /\ g.fresh = r.fresh /\ g.assured = top
  <2> DEFINE A == [Index -> Byte \cup {NoType}]
             B == SUBSET Index
  <2> HIDE DEF A, B
  <2>1. r \in [checked : A, fresh : B, assured : Byte]
    BY <1>4 DEF FactsOK, Facts, A, B
  <2>2. r.checked \in A /\ r.fresh \in B
    BY <2>1
  <2>3. g \in [checked : A, fresh : B, assured : Byte]
        /\ g.checked = r.checked /\ g.fresh = r.fresh /\ g.assured = top
    BY <1>6, <2>1, <2>2, FactsFields
  <2> QED
    BY <2>3 DEF Facts, A, B
<1>8. balance >= top
  BY <1>1, <1>6
<1> HIDE DEF g
<1>9. FactsOK(g, session, balance)
  BY <1>4, <1>7, <1>8 DEF FactsOK
<1> QED
  BY <1>9 DEF g, r, J, top

-----------------------------------------------------------------------------
(* The stack.                                                              *)

\* A handler that starts a step has one step less to run.
LEMMA EntryLeft ==
  ASSUME NEW e \in Entry, e.left > 0
  PROVE  LET f == [e EXCEPT !.left = @ - 1]
         IN /\ f \in Entry /\ f.op = e.op /\ f.cond = e.cond /\ f.holds = e.holds /\ f.layout = e.layout
<1>1. e.left - 1 \in 0 .. MaxArm \cup {1}
  BY OrchestrationAssumption DEF Entry
<1> QED
  BY <1>1 DEF Entry

LEMMA CalledOK ==
  ASSUME NEW s, StackOK(stack, s)
  PROVE  StackOK(Called, s) /\ Len(Called) = Len(stack)
<1>1. CASE ~ ByIfx
  BY <1>1 DEF Called
<1>2. CASE ByIfx
  <2> DEFINE m == Len(stack)
             f == [stack[m] EXCEPT !.left = @ - 1]
  <2>1. stack \in Seq(Entry) /\ stack # <<>> /\ m \in 1 .. Len(stack) /\ stack[m].left > 0
    BY <1>2 DEF ByIfx, AtTop, Caller, StackOK
  <2>2. stack[m] \in Entry
    BY <2>1
  <2>3. /\ f \in Entry /\ f.op = stack[m].op /\ f.cond = stack[m].cond
        /\ f.holds = stack[m].holds
        /\ f.layout = stack[m].layout
    BY <2>1, <2>2, EntryLeft
  <2>4. Called = [stack EXCEPT ![m] = f]
    BY <1>2 DEF Called
  <2> HIDE DEF f
  <2>5. /\ Called \in Seq(Entry) /\ Len(Called) = m
        /\ \A h \in 1 .. m : Called[h] = IF h = m THEN f ELSE stack[h]
    BY <2>1, <2>3, <2>4
  <2>6. \A h \in 1 .. m : Describes(Called[h], s)
    BY <2>3, <2>5 DEF StackOK, Describes
  <2> QED
    BY <2>3, <2>5, <2>6 DEF StackOK
<1> QED
  BY <1>1, <1>2

LEMMA AppendOK ==
  ASSUME NEW s, NEW stk, StackOK(stk, s), Len(stk) < MaxHeight,
         NEW e \in Entry, e.op # "ext", Describes(e, s)
  PROVE  StackOK(Append(stk, e), s)
<1>1. stk \in Seq(Entry) /\ MaxHeight \in Nat /\ Len(stk) \in Nat
  BY OrchestrationAssumption DEF StackOK
<1>2. /\ Append(stk, e) \in Seq(Entry) /\ Len(Append(stk, e)) = Len(stk) + 1
      /\ \A h \in 1 .. Len(stk) : Append(stk, e)[h] = stk[h]
      /\ Append(stk, e)[Len(stk) + 1] = e
  BY <1>1
<1>3. \A h \in 1 .. Len(stk) + 1 : h \in 1 .. Len(stk) \/ h = Len(stk) + 1
  BY <1>1
<1> QED
  BY <1>1, <1>2, <1>3 DEF StackOK

LEMMA PopOK ==
  ASSUME NEW s, NEW stk, StackOK(stk, s), stk # <<>>
  PROVE  StackOK(SubSeq(stk, 1, Len(stk) - 1), s)
<1>1. stk \in Seq(Entry) /\ MaxHeight \in Nat /\ Len(stk) \in Nat \ {0} /\ Len(stk) <= MaxHeight
  BY OrchestrationAssumption DEF StackOK
<1> DEFINE m == Len(stk) - 1
           t == SubSeq(stk, 1, m)
<1>2. t \in Seq(Entry) /\ Len(t) = m /\ \A h \in 1 .. m : t[h] = stk[h]
  <2>1. m \in Nat /\ 1 \in Int /\ m \in Int /\ \A i \in 1 .. m : stk[i] \in Entry
    BY <1>1
  <2> HIDE DEF m
  <2>2. /\ t \in Seq(Entry) /\ Len(t) = (IF 1 <= m THEN m - 1 + 1 ELSE 0)
        /\ \A i \in 1 .. m - 1 + 1 : t[i] = stk[1 + i - 1]
    BY <2>1, SubSeqProperties
  <2> QED
    BY <2>1, <2>2
<1>3. m <= MaxHeight /\ \A h \in 1 .. m : h \in 1 .. Len(stk)
  BY <1>1
<1> HIDE DEF m, t
<1>4. StackOK(t, s)
  BY <1>2, <1>3 DEF StackOK
<1> QED
  BY <1>4 DEF t, m

LEMMA EmptyOK ==
  ASSUME NEW s
  PROVE  StackOK(<<>>, s)
BY OrchestrationAssumption DEF StackOK

\* A handler that starts to wait has just looked at the Frame.
LEMMA WaitingEntry ==
  ASSUME SessionOK(session), NEW op \in {"if_else", "patched_cpi"},
         NEW c \in Cond \cup {NoCond}, NEW holds \in BOOLEAN,
         NEW left \in 0 .. MaxArm \cup {1}, op = "if_else" => holds = Holds(c)
  PROVE  LET e == Waiting(op, c, holds, left)
         IN e \in Entry /\ e.op = op /\ Describes(e, session)
<1>1. Layout \in Key \X (1 .. MaxTapeLen) /\ session # NoFrame
  BY SessionFields DEF Layout
<1>2. Waiting(op, c, holds, left) \in Entry
  BY <1>1 DEF Waiting, Entry
<1>3. HoldsIn(c, session) = Holds(c)
  BY Zenon DEF HoldsIn, Holds, EvalFails, Value
<1> DEFINE e == Waiting(op, c, holds, left)
<1>4. e.op = op /\ e.cond = c /\ e.holds = holds /\ e.layout = Layout
  BY DEF Waiting
<1> HIDE DEF e
<1>5. Describes(e, session)
  BY <1>1, <1>3, <1>4 DEF Describes, Layout
<1> QED
  BY <1>2, <1>4, <1>5 DEF e

-----------------------------------------------------------------------------
(* Steps.                                                                  *)

\* A step that fails rolls back to what was committed.
LEMMA RollbackStep ==
  ASSUME OrchestrationInv, NEW err, err # "Ok",
         Fail(err), NEW stk, NEW bal, NEW facts, Outcome(stk, bal, facts)
  PROVE  OrchestrationInv' /\ open' = FALSE
<1>1. ret'.err = err /\ open' = FALSE
  BY DEF Fail, ErrorReply, NoReply
<1>2. stack' = <<>> /\ balance' = settled /\ known' = Nothing /\ settled' = settled
  BY <1>1 DEF Outcome
<1>3. SSATypeOK'
  BY InvParts, FailTypes
<1>4. StackOK(stack', session')
  BY <1>2, EmptyOK
<1>5. settled \in Byte
  BY InvParts
<1>6. FactsOK(known', session', balance')
  BY <1>2, <1>5, NothingOK
<1> QED
  BY <1>1, <1>2, <1>3, <1>4, <1>5, <1>6, InvFromParts

\* A step that succeeds, with a stack and facts that fit the session it
\* goes on with.
LEMMA GoOnStep ==
  ASSUME OrchestrationInv, NEW s, s = NoFrame \/ SessionOK(s),
         NEW reply, reply.err = "Ok", Continue(s, reply),
         NEW stk, NEW bal \in Byte, NEW facts, Outcome(stk, bal, facts),
         StackOK(stk, s), FactsOK(facts, s, bal)
  PROVE  OrchestrationInv'
<1>1. session' = s /\ ret' = reply /\ open /\ open' = open
  BY DEF Continue
<1>2. stack' = stk /\ balance' = bal /\ known' = facts /\ settled' = settled
  BY <1>1 DEF Outcome
<1>3. SSATypeOK'
  BY InvParts, ContinueTypes
<1>4. settled \in Byte
  BY InvParts
<1> QED
  BY <1>1, <1>2, <1>3, <1>4, InvFromParts

\* The same when the Frame stays as it is, which is most steps.
LEMMA SameFrameStep ==
  ASSUME OrchestrationInv, Continue(session, NoReply),
         NEW stk, NEW bal \in Byte, NEW facts, Outcome(stk, bal, facts),
         StackOK(stk, session), FactsOK(facts, session, bal)
  PROVE  OrchestrationInv'
<1>1. session = NoFrame \/ SessionOK(session)
  BY InvParts DEF SSATypeOK
<1>2. NoReply.err = "Ok"
  BY DEF NoReply
<1> QED
  BY <1>1, <1>2, GoOnStep

LEMMA AssertStep ==
  ASSUME OrchestrationInv, NEW n \in Nat, NEW conds \in [1 .. n -> Cond], Assert(conds)
  PROVE  OrchestrationInv'
<1> DEFINE I == {conds[p].index : p \in DOMAIN conds}
           least == {conds[p].least : p \in {q \in DOMAIN conds : conds[q].index \in known.fresh}}
           bounds == least \cup {known.assured}
           facts == [Read({i \in I : i < session.count})
                       EXCEPT !.assured = CHOOSE b \in bounds : \A c \in bounds : c <= b]
           err == IF EvalFails(conds[CHOOSE p \in DOMAIN conds :
                       ~ Holds(conds[p]) /\ \A q \in 1 .. p - 1 : Holds(conds[q])])
                  THEN "InvalidValueIndex" ELSE "AssertFailed"
<1>1. Outcome(Called, balance, facts)
  BY DEF Assert
<1>2. StackOK(Called, session) /\ balance \in Byte
  BY InvParts, CalledOK
<1>3. ASSUME session # NoFrame, AllPass(conds) PROVE FactsOK(facts, session, balance)
  BY <1>3, AssertFactsOK
<1>4. \/ Fail("InvalidInstructionData") \/ Fail("AccountNotInitialized") \/ Fail(err)
      \/ session # NoFrame /\ AllPass(conds) /\ Continue(session, NoReply)
  BY DEF Assert
<1>5. err # "Ok"
  OBVIOUS
<1> HIDE DEF facts, err
<1>6. CASE Fail("InvalidInstructionData")
  BY <1>1, <1>6, RollbackStep
<1>7. CASE Fail("AccountNotInitialized")
  BY <1>1, <1>7, RollbackStep
<1>8. CASE Fail(err)
  BY <1>1, <1>5, <1>8, RollbackStep
<1>9. CASE session # NoFrame /\ AllPass(conds) /\ Continue(session, NoReply)
  BY <1>1, <1>2, <1>3, <1>9, SameFrameStep
<1> QED
  BY <1>4, <1>6, <1>7, <1>8, <1>9

LEMMA IfElseStep ==
  ASSUME OrchestrationInv, NEW c \in Cond, NEW t \in Arm, NEW e \in Arm, IfElse(c, t, e)
  PROVE  OrchestrationInv'
<1> DEFINE taken == IF Holds(c) THEN t ELSE e
           holds == Holds(c)
           stk == IF taken = Skip THEN Called
                  ELSE Append(Called, Waiting("if_else", c, holds, taken))
<1>1. Outcome(stk, balance, Read({c.index}))
  BY DEF IfElse
<1>2. \/ Fail("AccountNotInitialized") \/ Fail("InvalidValueIndex") \/ Fail("IfElseRevert")
      \/ /\ session # NoFrame /\ ~ EvalFails(c) /\ taken # Revert
         /\ Continue(session, NoReply)
  BY DEF IfElse, Reverts
<1>3. taken \in Arm /\ holds \in BOOLEAN
  BY DEF Holds
<1>4. MayCall
  BY DEF IfElse
<1> HIDE DEF stk
<1>5. CASE Fail("AccountNotInitialized")
  BY <1>1, <1>5, RollbackStep
<1>6. CASE Fail("InvalidValueIndex")
  BY <1>1, <1>6, RollbackStep
<1>7. CASE Fail("IfElseRevert")
  BY <1>1, <1>7, RollbackStep
<1>8. CASE session # NoFrame /\ ~ EvalFails(c) /\ taken # Revert /\ Continue(session, NoReply)
  <2>1. SessionOK(session) /\ balance \in Byte /\ StackOK(Called, session)
        /\ Len(Called) = Len(stack)
    BY <1>8, InvParts, CalledOK DEF SSATypeOK
  <2>2. c.index \in Index /\ c.index < session.count
    <3>1. c.index \in Index
      BY DEF Cond
    <3>2. session.count \in Nat /\ Index \subseteq Nat
      BY <2>1, SessionFields DEF Index
    <3>3. ~ (c.index >= session.count) /\ c.index \in Nat
      BY <1>8, <3>1, <3>2 DEF EvalFails
    <3> HIDE DEF taken, holds
    <3> QED
      BY <3>1, <3>2, <3>3
  <2>3. FactsOK(Read({c.index}), session, balance)
    BY <1>8, <2>2, ReadOK
  <2>4. StackOK(stk, session)
    <3>1. CASE taken = Skip
      BY <2>1, <3>1 DEF stk
    <3>2. CASE taken # Skip
      <4>1. taken \in 0 .. MaxArm \cup {1}
        BY <1>3, <1>8, OrchestrationAssumption DEF Arm, Skip, Revert
      <4> DEFINE w == Waiting("if_else", c, holds, taken)
      <4> HIDE DEF taken
      <4>2. w \in Entry /\ w.op = "if_else" /\ Describes(w, session)
        BY <1>3, <2>1, <4>1, WaitingEntry
      <4> HIDE DEF w
      <4>3. StackOK(Append(Called, w), session)
        BY <1>4, <2>1, <4>2, AppendOK DEF MayCall
      <4> QED
        BY <3>2, <4>3 DEF stk, w
    <3> QED
      BY <3>1, <3>2
  <2> QED
    BY <1>1, <1>8, <2>1, <2>3, <2>4, SameFrameStep
<1> QED
  BY <1>2, <1>5, <1>6, <1>7, <1>8

LEMMA PatchedCpiStep ==
  ASSUME OrchestrationInv, NEW p \in BOOLEAN, PatchedCpi(p)
  PROVE  OrchestrationInv'
<1> DEFINE w == Waiting("patched_cpi", NoCond, TRUE, 1)
<1>1. Outcome(Append(Called, w), balance, known) /\ MayCall
  BY DEF PatchedCpi
<1>2. \/ Fail("InvalidPatchedCpiPatches") \/ Fail("AccountNotInitialized")
      \/ session # NoFrame /\ Continue(session, NoReply)
  BY DEF PatchedCpi
<1>3. CASE Fail("InvalidPatchedCpiPatches")
  BY <1>1, <1>3, RollbackStep
<1>4. CASE Fail("AccountNotInitialized")
  BY <1>1, <1>4, RollbackStep
<1>5. CASE session # NoFrame /\ Continue(session, NoReply)
  <2>1. SessionOK(session) /\ balance \in Byte /\ StackOK(Called, session)
        /\ Len(Called) = Len(stack) /\ FactsOK(known, session, balance)
    BY <1>5, InvParts, CalledOK DEF SSATypeOK
  <2>2. w \in Entry /\ w.op = "patched_cpi" /\ Describes(w, session)
    BY <2>1, WaitingEntry
  <2> HIDE DEF w
  <2>3. StackOK(Append(Called, w), session)
    BY <1>1, <2>1, <2>2, AppendOK DEF MayCall
  <2> QED
    BY <1>1, <1>5, <2>1, <2>3, SameFrameStep
<1> QED
  BY <1>2, <1>3, <1>4, <1>5

LEMMA PayStaticStep ==
  ASSUME OrchestrationInv, NEW a \in Byte, PayStatic(a)
  PROVE  OrchestrationInv'
<1>1. Outcome(Called, balance - a, Moved(known))
  BY DEF PayStatic
<1>2. CASE Fail("InsufficientFunds")
  BY <1>1, <1>2, RollbackStep
<1>3. CASE ~ (a > balance) /\ Continue(session, NoReply)
  <2>1. balance - a \in Byte
    BY <1>3, InvParts, Subtract
  <2>2. StackOK(Called, session) /\ FactsOK(Moved(known), session, balance - a)
    BY <2>1, InvParts, CalledOK, MovedOK
  <2> QED
    BY <1>1, <1>3, <2>1, <2>2, SameFrameStep
<1> QED
  BY <1>2, <1>3 DEF PayStatic

LEMMA PayPatchedStep ==
  ASSUME OrchestrationInv, NEW i \in Index, PayPatched(i)
  PROVE  OrchestrationInv'
<1>1. Outcome(Called, balance - Value(i), Moved(Read({i})))
  BY DEF PayPatched
<1>2. \/ Fail("AccountDataTooShort") \/ Fail("InvalidValueIndex") \/ Fail("InsufficientFunds")
      \/ /\ session # NoFrame /\ ~ (i >= session.count) /\ ~ (Value(i) > balance)
         /\ Continue(session, NoReply)
  BY DEF PayPatched
<1>3. CASE Fail("AccountDataTooShort")
  BY <1>1, <1>3, RollbackStep
<1>4. CASE Fail("InvalidValueIndex")
  BY <1>1, <1>4, RollbackStep
<1>5. CASE Fail("InsufficientFunds")
  BY <1>1, <1>5, RollbackStep
<1>6. CASE /\ session # NoFrame /\ ~ (i >= session.count) /\ ~ (Value(i) > balance)
           /\ Continue(session, NoReply)
  <2>1. SessionOK(session) /\ StackOK(Called, session) /\ balance \in Byte
    BY <1>6, InvParts, CalledOK DEF SSATypeOK
  <2>2. i < session.count
    BY <1>6, <2>1, SessionFields DEF Index
  <2>3. balance - Value(i) \in Byte
    BY <1>6, <2>1, <2>2, ValueIsByte, Subtract DEF Value
  <2>4. FactsOK(Moved(Read({i})), session, balance - Value(i))
    BY <1>6, <2>2, <2>3, ReadOK, MovedOK
  <2> QED
    BY <1>1, <1>6, <2>1, <2>3, <2>4, SameFrameStep
<1> QED
  BY <1>2, <1>3, <1>4, <1>5, <1>6

LEMMA ReturnStep ==
  ASSUME OrchestrationInv, Return
  PROVE  OrchestrationInv'
<1>1. /\ Outcome(SubSeq(stack, 1, Len(stack) - 1), balance, known)
      /\ Continue(session, NoReply) /\ stack # <<>>
  BY DEF Return, AtTop
<1>2. StackOK(SubSeq(stack, 1, Len(stack) - 1), session) /\ balance \in Byte
      /\ FactsOK(known, session, balance)
  BY <1>1, InvParts, PopOK
<1> QED
  BY <1>1, <1>2, SameFrameStep

\* The message's own instructions run on an empty stack.
LEMMA TopStack ==
  ASSUME AtTop
  PROVE  Called = <<>> /\ \A s : StackOK(Called, s)
BY EmptyOK DEF AtTop, Called, ByIfx

LEMMA ResetStep ==
  ASSUME OrchestrationInv, ResetFrame
  PROVE  OrchestrationInv'
<1>1. Outcome(Called, balance, Forgotten)
  BY DEF ResetFrame
<1>2. \/ Fail("ResetNotTopLevel") \/ Fail("AccountNotInitialized")
      \/ Fail("UnauthorizedFrameWrite")
      \/ AtTop /\ Reset
  BY <1>1 DEF ResetFrame
<1>3. CASE Fail("ResetNotTopLevel")
  BY <1>1, <1>3, RollbackStep
<1>4. CASE Fail("AccountNotInitialized")
  BY <1>1, <1>4, RollbackStep
<1>5. CASE Fail("UnauthorizedFrameWrite")
  BY <1>1, <1>5, RollbackStep
<1>6. CASE AtTop /\ Reset
  <2>1. SessionOK(session') /\ balance \in Byte
    BY <1>6, InvParts, ResetTypes
  <2>2. PICK s : Continue(s, NoReply) /\ s = session'
    BY <1>6 DEF Reset, Continue
  <2>3. SessionOK(s) /\ StackOK(Called, s) /\ FactsOK(Forgotten, s, balance)
    BY <1>6, <2>1, <2>2, TopStack, ForgottenOK
  <2>4. NoReply.err = "Ok"
    BY DEF NoReply
  <2> QED
    BY <1>1, <2>1, <2>2, <2>3, <2>4, GoOnStep
<1> QED
  BY <1>2, <1>3, <1>4, <1>5, <1>6

LEMMA CloseStep ==
  ASSUME OrchestrationInv, CloseFrame
  PROVE  OrchestrationInv'
<1>1. Outcome(Called, balance, Forgotten)
  BY DEF CloseFrame
<1>2. \/ Fail("CloseNotTopLevel") \/ Fail("AccountNotInitialized") \/ Fail("UnauthorizedClose")
      \/ AtTop /\ Continue(NoFrame, NoReply)
  BY <1>1 DEF CloseFrame, Close
<1>3. CASE Fail("CloseNotTopLevel")
  BY <1>1, <1>3, RollbackStep
<1>4. CASE Fail("AccountNotInitialized")
  BY <1>1, <1>4, RollbackStep
<1>5. CASE Fail("UnauthorizedClose")
  BY <1>1, <1>5, RollbackStep
<1>6. CASE AtTop /\ Continue(NoFrame, NoReply)
  <2>1. StackOK(Called, NoFrame) /\ FactsOK(Forgotten, NoFrame, balance)
    BY <1>6, TopStack, ForgottenOK
  <2>2. balance \in Byte /\ NoReply.err = "Ok"
    BY InvParts DEF NoReply
  <2> QED
    BY <1>1, <1>6, <2>1, <2>2, GoOnStep
<1> QED
  BY <1>2, <1>3, <1>4, <1>5, <1>6

LEMMA CreateStep ==
  ASSUME OrchestrationInv, NEW a \in Key, CreateFrame(a)
  PROVE  OrchestrationInv'
<1>1. Outcome(Called, balance, Forgotten)
  BY DEF CreateFrame
<1>2. \/ Fail("AccountNotSigner") \/ Fail("AccountAlreadyInUse")
      \/ Fail("CreateNotTopLevel") \/ Fail("InvalidAuthority")
      \/ AtTop /\ Create(a, MaxTapeLen)
  BY <1>1 DEF CreateFrame
<1>3. CASE Fail("AccountNotSigner")
  BY <1>1, <1>3, RollbackStep
<1>4. CASE Fail("AccountAlreadyInUse")
  BY <1>1, <1>4, RollbackStep
<1>5. CASE Fail("CreateNotTopLevel")
  BY <1>1, <1>5, RollbackStep
<1>6. CASE Fail("InvalidAuthority")
  BY <1>1, <1>6, RollbackStep
<1>7. CASE AtTop /\ Create(a, MaxTapeLen)
  <2> DEFINE s == NewSession(a, MaxTapeLen, 0)
  <2>1. SessionOK(s)
    BY NewSessionOK, SSAAssumption
  <2>2. Continue(s, NoReply)
    BY <1>7 DEF Create
  <2> HIDE DEF s
  <2>3. StackOK(Called, s) /\ FactsOK(Forgotten, s, balance)
    BY <1>7, TopStack, ForgottenOK
  <2>4. balance \in Byte /\ NoReply.err = "Ok"
    BY InvParts DEF NoReply
  <2> QED
    BY <1>1, <2>1, <2>2, <2>3, <2>4, GoOnStep
<1> QED
  BY <1>2, <1>3, <1>4, <1>5, <1>6, <1>7

LEMMA LetStep ==
  ASSUME OrchestrationInv, NEW v \in Byte, NEW loads \in BOOLEAN, LetBind(v, loads)
  PROVE  OrchestrationInv'
<1> DEFINE facts == IF loads THEN [known EXCEPT !.fresh = @ \cup {session.count}] ELSE known
           bytes == <<v>>
           reply == ValueReply(session.count, Amount, bytes)
           t == Bound(session, Amount, bytes)
<1>1. Outcome(Called, balance, facts) /\ (loads => v = balance)
  BY DEF LetBind
<1>2. bytes \in Payload(Amount) /\ bytes[1] = v /\ Amount \in ValueType
  BY OrchestrationAssumption DEF Payload
<1>3. \/ Fail("AccountNotInitialized") \/ Fail("UnauthorizedFrameWrite") \/ Fail("LetNotTopLevel")
      \/ AtTop /\ session # NoFrame /\ Bind(Amount, bytes)
  BY <1>1 DEF LetBind
<1> HIDE DEF facts, bytes
<1>4. CASE Fail("AccountNotInitialized")
  BY <1>1, <1>4, RollbackStep
<1>5. CASE Fail("UnauthorizedFrameWrite")
  BY <1>1, <1>5, RollbackStep
<1>6. CASE Fail("LetNotTopLevel")
  BY <1>1, <1>6, RollbackStep
<1>7. CASE AtTop /\ session # NoFrame /\ Bind(Amount, bytes)
  <2>1. SSATypeOK /\ SessionOK(session) /\ balance \in Byte
    BY <1>7, InvParts DEF SSATypeOK
  <2>2. CASE Fail("IndexCapReached")
    BY <1>1, <2>2, RollbackStep
  <2>3. CASE Fail("TapeOutOfBounds")
    BY <1>1, <2>3, RollbackStep
  <2>4. CASE /\ Continue(t, reply)
             /\ session.count # Capacity(session.tape_len)
             /\ session.used + 1 + Size[Amount] <= session.tape_len
    <3>1. /\ SessionOK(t) /\ t.count = session.count + 1
          /\ t.binds[session.count] = [ty |-> Amount, bytes |-> bytes]
          /\ \A i \in 0 .. session.count - 1 : t.binds[i] = session.binds[i]
      BY <1>2, <2>1, <2>4, BoundSession
    <3>2. t.binds[session.count].bytes[1] = v
      BY <1>2, <3>1
    <3>3. reply.err = "Ok"
      BY DEF ValueReply
    <3> HIDE DEF t, reply
    <3>4. FactsOK(facts, t, balance)
      BY <1>1, <2>1, <3>1, <3>2, BoundFactsOK DEF facts
    <3>5. StackOK(Called, t)
      BY <1>7, TopStack
    <3> QED
      BY <1>1, <2>1, <2>4, <3>1, <3>3, <3>4, <3>5, GoOnStep
  <2>5. \/ Fail("IndexCapReached") \/ Fail("TapeOutOfBounds")
        \/ /\ Continue(t, reply)
           /\ session.count # Capacity(session.tape_len)
           /\ session.used + 1 + Size[Amount] <= session.tape_len
    BY <1>2, <1>7, <2>1, BindTypes
  <2> QED
    BY <2>2, <2>3, <2>4, <2>5
<1> QED
  BY <1>3, <1>4, <1>5, <1>6, <1>7

LEMMA TooDeepStep ==
  ASSUME OrchestrationInv, TooDeep
  PROVE  OrchestrationInv'
<1>1. Fail("CallDepth") /\ Outcome(stack, balance, known)
  BY DEF TooDeep, Outcome, Fail, ErrorReply, NoReply
<1> QED
  BY <1>1, RollbackStep

LEMMA BeginStep ==
  ASSUME OrchestrationInv, NEW S \in SUBSET Users, BeginTx(S)
  PROVE  OrchestrationInv'
<1>1. Begin(S) /\ known' = Nothing /\ stack' = <<>> /\ balance' = balance /\ settled' = settled
  BY DEF BeginTx
<1>2. SSATypeOK'
  BY <1>1, InvParts DEF SSATypeOK, Begin
<1>3. StackOK(stack', session') /\ FactsOK(known', session', balance')
  BY <1>1, InvParts, EmptyOK, NothingOK
<1> QED
  BY <1>1, <1>2, <1>3, InvParts, InvFromParts

LEMMA CommitStep ==
  ASSUME OrchestrationInv, CommitTx
  PROVE  OrchestrationInv'
<1>1. Commit /\ known' = Nothing /\ stack' = <<>> /\ balance' = balance /\ settled' = balance
  BY DEF CommitTx, AtTop
<1>2. SSATypeOK'
  BY <1>1, InvParts DEF SSATypeOK, Commit
<1>3. StackOK(stack', session') /\ FactsOK(known', session', balance')
  BY <1>1, InvParts, EmptyOK, NothingOK
<1> QED
  BY <1>1, <1>2, <1>3, InvParts, InvFromParts

LEMMA ProgramStep ==
  ASSUME OrchestrationInv, CallProgram \/ ProgramFails \/ \E b \in Byte : ProgramMoves(b)
  PROVE  OrchestrationInv'
<1>1. balance \in Byte /\ StackOK(stack, session) /\ FactsOK(known, session, balance)
  BY InvParts
<1>2. CASE CallProgram
  <2> DEFINE e == [ op |-> "ext", cond |-> NoCond, holds |-> TRUE, left |-> 0,
                    layout |-> <<>> ]
  <2>1. Outcome(<<e>>, balance, known) /\ Continue(session, NoReply) /\ stack = <<>> /\ open
    BY <1>2 DEF CallProgram, AtTop
  <2>2. e \in Entry /\ e.op = "ext"
    BY OrchestrationAssumption DEF Entry
  <2> HIDE DEF e
  <2>3. <<e>> \in Seq(Entry) /\ Len(<<e>>) = 1 /\ <<e>>[1] = e
    BY <2>2
  <2>4. StackOK(<<e>>, session)
    BY <2>2, <2>3, OrchestrationAssumption DEF StackOK, Describes
  <2> QED
    BY <1>1, <2>1, <2>4, SameFrameStep
<1>3. CASE ProgramFails
  <2>1. Fail("CallerError") /\ Outcome(stack, balance, known)
    BY <1>3 DEF ProgramFails
  <2> QED
    BY <2>1, RollbackStep
<1>4. ASSUME NEW b \in Byte, ProgramMoves(b) PROVE OrchestrationInv'
  <2>1. Outcome(stack, b, Moved(known)) /\ Continue(session, NoReply)
    BY <1>4 DEF ProgramMoves
  <2>2. FactsOK(Moved(known), session, b)
    BY <1>1, MovedOK
  <2> QED
    BY <1>1, <2>1, <2>2, SameFrameStep
<1> QED
  BY <1>2, <1>3, <1>4

-----------------------------------------------------------------------------
(* Theorems.                                                               *)

LEMMA NextStep ==
  ASSUME OrchestrationInv, [OrchestrationNext]_allVars
  PROVE  OrchestrationInv'
<1>1. ASSUME NEW S \in SUBSET Users, BeginTx(S) PROVE OrchestrationInv'
  BY <1>1, BeginStep
<1>2. CASE CommitTx
  BY <1>2, CommitStep
<1>3. CASE CallProgram \/ ProgramFails \/ \E b \in Byte : ProgramMoves(b)
  BY <1>3, ProgramStep
<1>4. ASSUME NEW n \in 0 .. MaxConds, NEW conds \in [1 .. n -> Cond], Assert(conds)
      PROVE  OrchestrationInv'
  BY <1>4, AssertStep, OrchestrationAssumption
<1>5. ASSUME NEW c \in Cond, NEW t \in Arm, IfElse(c, t, Skip) \/ IfElse(c, Skip, t)
      PROVE  OrchestrationInv'
  <2>1. Skip \in Arm
    BY OrchestrationAssumption DEF Skip, Arm, Revert
  <2> QED
    BY <1>5, <2>1, IfElseStep
<1>6. ASSUME NEW p \in BOOLEAN, PatchedCpi(p) PROVE OrchestrationInv'
  BY <1>6, PatchedCpiStep
<1>7. ASSUME NEW a \in Byte, PayStatic(a) PROVE OrchestrationInv'
  BY <1>7, PayStaticStep
<1>8. ASSUME NEW i \in Index, PayPatched(i) PROVE OrchestrationInv'
  BY <1>8, PayPatchedStep
<1>9. CASE Return \/ TooDeep
  BY <1>9, ReturnStep, TooDeepStep
<1>10. CASE ResetFrame \/ CloseFrame
  BY <1>10, ResetStep, CloseStep
<1>11. ASSUME NEW a \in Key, CreateFrame(a) PROVE OrchestrationInv'
  BY <1>11, CreateStep
<1>12. ASSUME NEW v \in Byte, NEW loads \in BOOLEAN, LetBind(v, loads) PROVE OrchestrationInv'
  BY <1>12, LetStep
<1>13. CASE UNCHANGED allVars
  BY <1>13, InvParts, InvFromParts
     DEF allVars, chainVars, OrchestrationInv, SSATypeOK
<1> QED
  BY <1>1, <1>2, <1>3, <1>4, <1>5, <1>6, <1>7, <1>8, <1>9, <1>10, <1>11, <1>12, <1>13
     DEF OrchestrationNext

\* Whatever handlers wait, and however deep, what they decided from is still
\* true: the invariant holds in every behaviour.
THEOREM OrchestrationInvariance == OrchestrationSpec => []OrchestrationInv
<1>1. OrchestrationInit => OrchestrationInv
  <2> SUFFICES ASSUME OrchestrationInit PROVE OrchestrationInv
    OBVIOUS
  <2>1. SSATypeOK /\ stack = <<>> /\ session = NoFrame
        /\ known = Nothing /\ balance \in Byte /\ settled = balance
    BY DEF OrchestrationInit, SSATypeOK, NoReply
  <2>2. StackOK(<<>>, session) /\ FactsOK(known, session, balance)
    BY <2>1, EmptyOK, NothingOK
  <2>3. Nothing.fresh = {} /\ \A i \in Index : Nothing.checked[i] = NoType
    BY DEF Nothing
  <2> QED
    BY <2>1, <2>2, <2>3 DEF OrchestrationInv, OrchestrationTypeOK, WaitingIsCurrent, CheckedIsUsed,
          GuardsAreTrue, StackOK, FactsOK
<1>2. OrchestrationInv /\ [OrchestrationNext]_allVars => OrchestrationInv'
  BY NextStep
<1> QED
  BY <1>1, <1>2, PTL DEF OrchestrationSpec

\* A waiting handler's layout and condition still describe the Frame.
THEOREM HandlersAreCurrent == OrchestrationSpec => []WaitingIsCurrent
<1>1. OrchestrationInv => WaitingIsCurrent
  BY DEF OrchestrationInv
<1> QED
  BY <1>1, OrchestrationInvariance, PTL

\* A checked value is the value that every later guard and patch reads.
THEOREM ChecksAreUsed == OrchestrationSpec => []CheckedIsUsed
<1>1. OrchestrationInv => CheckedIsUsed
  BY DEF OrchestrationInv
<1> QED
  BY <1>1, OrchestrationInvariance, PTL

\* What guards establish about a fresh balance is true of the account.
THEOREM GuardsHold == OrchestrationSpec => []GuardsAreTrue
<1>1. OrchestrationInv => GuardsAreTrue
  BY DEF OrchestrationInv
<1> QED
  BY <1>1, OrchestrationInvariance, PTL

\* While the stack is not empty only failures change what the Frame holds.
LEMMA NestedStep ==
  ASSUME OrchestrationInv, [OrchestrationNext]_allVars, stack # <<>>, ret'.err = "Ok", open'
  PROVE  session' = session
<1> USE DEF AtTop
<1>1. open
  BY InvParts
<1>2. ASSUME NEW err, err # "Ok" PROVE ~ Fail(err)
  BY DEF Fail
<1>3. ASSUME NEW reply, Continue(session, reply) PROVE session' = session
  BY <1>3 DEF Continue
<1>4. ASSUME NEW S \in SUBSET Users, BeginTx(S) PROVE FALSE
  BY <1>1, <1>4 DEF BeginTx, Begin
<1>5. CASE CommitTx
  BY <1>5 DEF CommitTx
<1>6. CASE CallProgram \/ ProgramFails \/ \E b \in Byte : ProgramMoves(b)
  BY <1>2, <1>3, <1>6 DEF CallProgram, ProgramFails, ProgramMoves
<1>7. ASSUME NEW conds, Assert(conds) PROVE session' = session
  BY <1>2, <1>3, <1>7 DEF Assert
<1>8. ASSUME NEW c, NEW t, NEW e, IfElse(c, t, e) PROVE session' = session
  BY <1>2, <1>3, <1>8 DEF IfElse
<1>9. ASSUME NEW p, PatchedCpi(p) PROVE session' = session
  BY <1>2, <1>3, <1>9 DEF PatchedCpi
<1>10. ASSUME NEW a, PayStatic(a) \/ PayPatched(a) PROVE session' = session
  BY <1>2, <1>3, <1>10 DEF PayStatic, PayPatched
<1>11. CASE Return \/ TooDeep
  BY <1>2, <1>3, <1>11 DEF Return, TooDeep
<1>12. CASE ResetFrame \/ CloseFrame
  BY <1>1, <1>2, <1>12 DEF ResetFrame, CloseFrame
<1>13. ASSUME NEW a, CreateFrame(a) PROVE session' = session
  BY <1>1, <1>2, <1>13 DEF CreateFrame
<1>14. ASSUME NEW v, NEW loads, LetBind(v, loads) PROVE session' = session
  BY <1>1, <1>2, <1>14 DEF LetBind
<1>15. CASE UNCHANGED allVars
  BY <1>15 DEF allVars, chainVars
<1> QED
  BY <1>4, <1>5, <1>6, <1>7, <1>8, <1>9, <1>10, <1>11, <1>12, <1>13, <1>14, <1>15
     DEF OrchestrationNext

\* While an instruction of the message runs, whatever it invokes and however
\* deep, the Frame stays as it is.
THEOREM FrameIsFrozen == OrchestrationSpec => FrozenWhileCalling
<1>1. OrchestrationInv /\ [OrchestrationNext]_allVars
        => [ (stack # <<>> /\ ret'.err = "Ok" /\ open') => session' = session ]_allVars
  BY NestedStep
<1> QED
  BY <1>1, OrchestrationInvariance, PTL DEF OrchestrationSpec, FrozenWhileCalling

=============================================================================
