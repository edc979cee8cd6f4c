----------------------------- MODULE Orchestration -----------------------------
(***************************************************************************)
(* A transaction that mixes Ifx instructions with other programs: guards   *)
(* (ifx_assert, ifx_assert_multi), conditional CPI (ifx_if_else), patched  *)
(* CPI (ifx_patched_cpi), and whatever these invoke, Ifx itself included.  *)
(*                                                                         *)
(* `stack` is the invocation stack of the runtime: the entries below the   *)
(* running instruction, each with what its handler keeps in local          *)
(* variables while it waits.  The handlers decide from values read earlier *)
(* (a condition, a parsed layout, a patch), so what matters is that those  *)
(* values still describe the Frame when they are acted on.                 *)
(*                                                                         *)
(* The Frame is FrameSSA, which FrameProgram is proved to implement.  The  *)
(* rest of the ledger is one account whose balance lets load and CPIs move.*)
(***************************************************************************)
EXTENDS FrameSSA, Sequences

CONSTANTS
  Amount,     \* the type of a loaded balance
  MaxArm,     \* IF_ELSE_ARM_MAX_STEPS
  MaxConds,   \* conditions of an ifx_assert_multi
  MaxHeight   \* invocation stack height of the runtime

ASSUME OrchestrationAssumption ==
  /\ ValueType = {Amount} /\ Size[Amount] = 1
  /\ Byte \subseteq Nat /\ 0 \in Byte /\ NoType \notin Byte
  /\ \A b \in Byte : 0 .. b \subseteq Byte
  /\ MaxArm \in Nat /\ MaxConds \in Nat /\ MaxHeight \in Nat \ {0}

VARIABLES
  stack,    \* waiting instructions, the message's one first
  balance,  \* of the other account, as the transaction sees it
  settled,  \* its committed value
  known     \* what the transaction has established (not in the code)

chainVars == <<committed, session, open, signers, ret>>
allVars == <<chainVars, stack, balance, settled, known>>

Index == 0 .. MaxBindingIndex - 1

\* A condition of the form `value index >= least` (that a value is at least 0
\* is no condition: it stands for none).
Cond == [index : Index, least : Byte \ {0}]
NoCond == [index |-> 0, least |-> 0]

\* An arm by its wire tag: how many CPI steps it has, or one of the two others.
Skip == 0
Revert == MaxArm + 1
Arm == Skip .. Revert

\* checked[i]: what a guard or a patch has read as value i in this session.
\* fresh: indices that hold the present balance.  assured: a lower bound of
\* the balance that the guards have established since it last moved.
Nothing == [checked |-> [i \in Index |-> NoType], fresh |-> {}, assured |-> 0]

Value(i) == session.binds[i].bytes[1]

EvalFails(c) == c.index >= session.count
Holds(c) == ~ EvalFails(c) /\ Value(c.index) >= c.least

-----------------------------------------------------------------------------
(* Invocation.                                                             *)

AtTop == stack = <<>>
Caller == stack[Len(stack)]
ByIfx == ~ AtTop /\ Caller.op # "ext" /\ Caller.left > 0
ByExt == ~ AtTop /\ Caller.op = "ext"

\* An instruction of Ifx can start: from the message, from a program the
\* message called, or from a CPI step that targets Ifx.
MayCall == open /\ (AtTop \/ ByIfx \/ ByExt) /\ Len(stack) < MaxHeight

\* An invocation above the runtime's limit fails, and the transaction with it.
TooDeep ==
  /\ open /\ ~ AtTop /\ Len(stack) = MaxHeight
  /\ Fail("CallDepth") /\ stack' = <<>> /\ balance' = settled /\ known' = Nothing
  /\ UNCHANGED settled

\* The stack under the instruction that starts.
Called == IF ByIfx THEN [stack EXCEPT ![Len(stack)].left = @ - 1] ELSE stack

\* A step is over: the transaction goes on, or the ledger is rolled back.
Outcome(stk, bal, facts) ==
  /\ IF ret'.err = "Ok" THEN stack' = stk /\ balance' = bal /\ known' = facts
     ELSE stack' = <<>> /\ balance' = settled /\ known' = Nothing
  /\ UNCHANGED settled

Read(I) ==
  [known EXCEPT !.checked = [i \in Index |-> IF i \in I THEN Value(i) ELSE @[i]]]

\* The balance moved: what was known of it is not any more.
Moved(facts) == [facts EXCEPT !.fresh = {}, !.assured = 0]

\* A new session of the message's own making.
Forgotten ==
  IF AtTop THEN [known EXCEPT !.checked = Nothing.checked, !.fresh = {}] ELSE known

-----------------------------------------------------------------------------
(* Read-only instructions, at any height.                                  *)

\* Slip: only the first condition counts.
FirstPasses(conds) == Holds(conds[1])

AllPass(conds) == \A p \in DOMAIN conds : Holds(conds[p])

\* ifx_assert (one condition) and ifx_assert_multi (whose error code differs
\* and is not told apart here): in order, up to the first condition that cannot
\* be evaluated or is false.
Assert(conds) ==
  /\ MayCall
  /\ IF conds = <<>> THEN Fail("InvalidInstructionData")
     ELSE IF session = NoFrame THEN Fail("AccountNotInitialized")
     ELSE IF AllPass(conds) THEN Continue(session, NoReply)
     ELSE LET p == CHOOSE p \in DOMAIN conds :
                     ~ Holds(conds[p]) /\ \A q \in 1 .. p - 1 : Holds(conds[q])
          IN Fail(IF EvalFails(conds[p]) THEN "InvalidValueIndex" ELSE "AssertFailed")
  /\ LET I == {conds[p].index : p \in DOMAIN conds}
         least == {conds[p].least : p \in {q \in DOMAIN conds : conds[q].index \in known.fresh}}
         bounds == least \cup {known.assured}
     IN Outcome(Called, balance,
          [Read({i \in I : i < session.count})
             EXCEPT !.assured = CHOOSE b \in bounds : \A c \in bounds : c <= b])

Layout == <<session.authority, session.tape_len>>

\* What a handler keeps while its CPI steps run: the condition it has evaluated
\* and the layout it has parsed.
Waiting(op, cond, holds, left) ==
  [ op |-> op, cond |-> cond, holds |-> holds, left |-> left, layout |-> Layout ]

\* Slip: the revert tag is taken for a count of steps.
NeverReverts(arm) == FALSE

Reverts(arm) == arm = Revert

\* ifx_if_else: the condition is evaluated once, then the arm runs its steps.
IfElse(c, then_arm, else_arm) ==
  /\ MayCall
  /\ IF session = NoFrame THEN Fail("AccountNotInitialized")
     ELSE IF EvalFails(c) THEN Fail("InvalidValueIndex")
     ELSE IF Reverts(IF Holds(c) THEN then_arm ELSE else_arm) THEN Fail("IfElseRevert")
     ELSE Continue(session, NoReply)
  /\ LET taken == IF Holds(c) THEN then_arm ELSE else_arm IN
     Outcome(IF taken = Skip THEN Called
             ELSE Append(Called, Waiting("if_else", c, Holds(c), taken)),
             balance, Read({c.index}))

\* ifx_patched_cpi, with or without something to patch.
PatchedCpi(patched) ==
  /\ MayCall
  /\ IF ~ patched THEN Fail("InvalidPatchedCpiPatches")
     ELSE IF session = NoFrame THEN Fail("AccountNotInitialized")
     ELSE Continue(session, NoReply)
  /\ Outcome(Append(Called, Waiting("patched_cpi", NoCond, TRUE, 1)), balance, known)

\* One CPI step into another program, which moves `amount` out of the
\* account; the amount is in the template (Static) or patched in.
PayStatic(amount) ==
  /\ open /\ ByIfx /\ Caller.op = "if_else" /\ Len(stack) < MaxHeight
  /\ IF amount > balance THEN Fail("InsufficientFunds") ELSE Continue(session, NoReply)
  /\ Outcome(Called, balance - amount, Moved(known))

\* A patched step parses the Frame again, and refuses a layout other than the
\* one its handler started with.
PayPatched(i) ==
  /\ open /\ ByIfx /\ Len(stack) < MaxHeight
  /\ IF session = NoFrame \/ Caller.layout # Layout THEN Fail("AccountDataTooShort")
     ELSE IF i >= session.count THEN Fail("InvalidValueIndex")
     ELSE IF Value(i) > balance THEN Fail("InsufficientFunds")
     ELSE Continue(session, NoReply)
  /\ Outcome(Called, balance - Value(i), Moved(Read({i})))

\* A handler whose steps are done returns.
Return ==
  /\ open /\ ~ AtTop /\ (Caller.op = "ext" \/ Caller.left = 0)
  /\ Continue(session, NoReply)
  /\ Outcome(SubSeq(stack, 1, Len(stack) - 1), balance, known)

-----------------------------------------------------------------------------
(* Instructions that write the Frame: the message only.                    *)

\* Slip: a reset at any height.
ResetAnywhere ==
  /\ MayCall
  /\ IF session = NoFrame THEN Fail("AccountNotInitialized")
     ELSE IF ~ Writable THEN Fail("UnauthorizedFrameWrite")
     ELSE Reset
  /\ Outcome(Called, balance, Forgotten)

ResetFrame ==
  /\ MayCall
  /\ IF ~ AtTop THEN Fail("ResetNotTopLevel")
     ELSE IF session = NoFrame THEN Fail("AccountNotInitialized")
     ELSE IF ~ Writable THEN Fail("UnauthorizedFrameWrite")
     ELSE Reset
  /\ Outcome(Called, balance, Forgotten)

\* A let of one binding: the live balance, or the value v of an expression.
LetBind(v, loads) ==
  /\ MayCall
  /\ loads => v = balance
  /\ IF session = NoFrame THEN Fail("AccountNotInitialized")
     ELSE IF ~ Writable THEN Fail("UnauthorizedFrameWrite")
     ELSE IF ~ AtTop THEN Fail("LetNotTopLevel")
     ELSE Bind(Amount, <<v>>)
  /\ Outcome(Called, balance,
       IF loads THEN [known EXCEPT !.fresh = @ \cup {session.count}] ELSE known)

\* Slip: a close at any height.
CloseAnywhere ==
  /\ MayCall
  /\ IF session = NoFrame THEN Fail("AccountNotInitialized")
     ELSE IF session.authority \notin signers THEN Fail("UnauthorizedClose")
     ELSE Close
  /\ Outcome(Called, balance, Forgotten)

CloseFrame ==
  /\ MayCall
  /\ IF ~ AtTop THEN Fail("CloseNotTopLevel")
     ELSE IF session = NoFrame THEN Fail("AccountNotInitialized")
     ELSE IF session.authority \notin signers THEN Fail("UnauthorizedClose")
     ELSE Close
  /\ Outcome(Called, balance, Forgotten)

CreateFrame(a) ==
  /\ MayCall
  /\ IF Payer \notin signers THEN Fail("AccountNotSigner")
     ELSE IF session # NoFrame THEN Fail("AccountAlreadyInUse")
     ELSE IF ~ AtTop THEN Fail("CreateNotTopLevel")
     ELSE IF a = DefaultKey THEN Fail("InvalidAuthority")
     ELSE Create(a, MaxTapeLen)
  /\ Outcome(Called, balance, Forgotten)

-----------------------------------------------------------------------------
(* The message and other programs.                                         *)

BeginTx(S) ==
  /\ Begin(S)
  /\ known' = Nothing /\ stack' = <<>>
  /\ UNCHANGED <<balance, settled>>

CommitTx ==
  /\ AtTop /\ Commit
  /\ settled' = balance /\ known' = Nothing
  /\ UNCHANGED <<stack, balance>>

\* The message calls another program, which may in turn invoke Ifx (the
\* runtime lets a program be entered again only by itself, so a program Ifx
\* calls cannot come back).
CallProgram ==
  /\ open /\ AtTop /\ Continue(session, NoReply)
  /\ Outcome(<<[ op |-> "ext", cond |-> NoCond, holds |-> TRUE, left |-> 0,
                 layout |-> <<>> ]>>, balance, known)

\* That program leaves the account with some balance, or fails.
ProgramMoves(b) ==
  /\ open /\ ByExt /\ Continue(session, NoReply)
  /\ Outcome(stack, b, Moved(known))

ProgramFails ==
  /\ open /\ ByExt /\ Fail("CallerError")
  /\ Outcome(stack, balance, known)

-----------------------------------------------------------------------------
OrchestrationInit ==
  /\ committed = NoFrame /\ session = NoFrame
  /\ open = FALSE /\ signers = {} /\ ret = NoReply
  /\ stack = <<>> /\ known = Nothing
  /\ balance \in Byte /\ settled = balance

\* The arm that is not taken is never looked at: one of the two is Skip.
OrchestrationNext ==
  \/ \E S \in SUBSET Users : BeginTx(S)
  \/ CommitTx \/ CallProgram \/ ProgramFails
  \/ \E b \in Byte : ProgramMoves(b)
  \/ \E n \in 0 .. MaxConds : \E conds \in [1 .. n -> Cond] : Assert(conds)
  \/ \E c \in Cond, t \in Arm : IfElse(c, t, Skip)
  \/ \E c \in Cond, e \in Arm : IfElse(c, Skip, e)
  \/ \E p \in BOOLEAN : PatchedCpi(p)
  \/ \E a \in Byte : PayStatic(a)
  \/ \E i \in Index : PayPatched(i)
  \/ Return \/ TooDeep
  \/ ResetFrame \/ CloseFrame
  \/ \E a \in Key : CreateFrame(a)
  \/ \E v \in Byte, loads \in BOOLEAN : LetBind(v, loads)

OrchestrationSpec == OrchestrationInit /\ [][OrchestrationNext]_allVars

-----------------------------------------------------------------------------
(* Correctness.                                                            *)

\* What a waiting instruction keeps, and what a transaction can establish.
Entry ==
  [ op : {"ext", "if_else", "patched_cpi"}, cond : Cond \cup {NoCond}, holds : BOOLEAN,
    left : 0 .. MaxArm \cup {1},
    layout : {<<>>} \cup (Key \X (1 .. MaxTapeLen)) ]

Facts ==
  [ checked : [Index -> Byte \cup {NoType}], fresh : SUBSET Index, assured : Byte ]

\* Types, and a stack no higher than the runtime allows, with another
\* program only at the bottom.
OrchestrationTypeOK ==
  /\ SSATypeOK
  /\ balance \in Byte /\ settled \in Byte
  /\ stack \in Seq(Entry) /\ Len(stack) <= MaxHeight
  /\ \A h \in 1 .. Len(stack) : stack[h].op = "ext" => h = 1
  /\ ~ open => stack = <<>>
  /\ known \in Facts

\* docs/frame-authority.md section 3.6: while an instruction of the message
\* runs, whatever it invokes and however deep, nothing changes the Frame:
\* only the message's own create, reset, let and close do.
FrozenWhileCalling ==
  [][ (stack # <<>> /\ ret'.err = "Ok" /\ open') => session' = session ]_allVars

\* What a waiting handler keeps still describes the Frame: the layout and the
\* authority it parsed (FrameAccount), so that FrameRef::new never refuses a
\* later step of an arm, and the condition its arm was chosen by (if_else.rs).
WaitingIsCurrent ==
  \A h \in 1 .. Len(stack) :
    stack[h].op # "ext" =>
      /\ session # NoFrame
      /\ stack[h].layout = Layout
      /\ (stack[h].op = "if_else" => Holds(stack[h].cond) = stack[h].holds)

\* A value that a guard or a patch of this transaction has read is still what
\* every later guard and patch of the session reads under that index.
CheckedIsUsed ==
  \A i \in Index :
    known.checked[i] # NoType
      => session # NoFrame /\ i < session.count /\ Value(i) = known.checked[i]

\* What guards establish about a freshly loaded balance is true of the
\* account until something moves it (ifx_let, ifx_assert, ifx_assert_multi).
\* What moves the account ends what is known: that a guard of a later
\* instruction reads an old copy of the balance is no error of the program.
GuardsAreTrue == balance >= known.assured

\* The inductive invariant: the properties above, and what makes them last.
\* An index counted as fresh does hold the balance (ifx_let).
OrchestrationInv ==
  /\ OrchestrationTypeOK /\ WaitingIsCurrent /\ CheckedIsUsed
  /\ GuardsAreTrue
  /\ \A i \in known.fresh : session # NoFrame /\ i < session.count /\ Value(i) = balance

=============================================================================
