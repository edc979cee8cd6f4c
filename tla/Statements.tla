------------------------------- MODULE Statements -------------------------------
(***************************************************************************)
(* A statement on its way from a client to its line in the program log.    *)
(* A client composes it, writes it as instruction data and sends it; the   *)
(* program reads the data, goes through the bindings, conditions or steps  *)
(* one by one, and prints a line of pseudocode for each (pseudocode.rs)    *)
(* from which a debugger tells what was computed and what went wrong.      *)
(*                                                                         *)
(* The statements of one transaction share the values of the Frame and the *)
(* log.  A line keeps what a reader of the log learns from it.  Of its     *)
(* text it matters how many pieces are pushed into the line buffer, which  *)
(* holds MaxLine of them, and which of them panic.  What an invoked        *)
(* program does is left open: it may fail.                                 *)
(***************************************************************************)
EXTENDS Wire

CONSTANTS
  Data,     \* what accounts hold: a set of functions from types to values
  Clients,
  Menu,     \* Menu[c]: the values that c loads first, the conditions, lets, steps, pairs
            \* of arms and stray bytes that it sends, bounds on statements and stray bytes
  MaxLine   \* MAX_LINE, in pieces

VARIABLES
  client,   \* who sends the transactions
  values,   \* the typed values of the Frame, in order
  status,   \* composing, sent, running, or the error that ended the transaction
  sent,     \* the statement as the client composed it
  wire,     \* its instruction data
  todo,     \* the bindings, conditions or steps still to be executed
  log,      \* the lines of the transaction
  returned, \* its return data
  count     \* the statements that succeeded

vars == <<client, values, status, sent, wire, todo, log, returned, count>>

Nothing == Statement("none", << >>, << >>, << >>)
Working == {"composing", "sent", "running"}
Failed == status \notin Working

-----------------------------------------------------------------------------
(* Text: how many pieces, and the places of those that panic.              *)

Words(n) == [len |-> n, aborts |-> {}]
Abort == [len |-> 1, aborts |-> {1}]
Before(s, t) == [len |-> s.len + t.len, aborts |-> s.aborts \cup {s.len + p : p \in t.aborts}]
Around(t) == Before(Words(1), Before(t, Words(1)))

\* A text that is given up, like one that is too long.
GivenUp == Words(MaxLine + 1)

\* Slip: a number is negated in its own width.
AbortsInItsWidth(ty, n) == n = Low(ty)

\* push_i64 and push_i128 negate a negative number, with overflow checks;
\* the narrower types are widened to I64 first.
Aborts(ty, n) == ty \in WideSigned /\ n = Low(ty)

NumberText(ty, n) ==
  CASE ty \in {"Pubkey", "Bool"} -> Words(1)
    [] ty \in Float -> Words(3)
    [] ty \in Int_ /\ n < 0 -> Before(Words(1), IF Aborts(ty, n) THEN Abort ELSE Words(1))
    [] OTHER -> Words(1)

\* A node, from the texts of its operands; an operand of two is put in
\* parentheses if it is not a leaf.
Printed(x, s) ==
  LET operand(k) == s[k].text
      wrapped(k) == IF s[k].leaf THEN operand(k) ELSE Around(operand(k))
  IN CASE x.op = "Value" -> Words(2)
       [] x.op = "Const" -> NumberText(x.ty, x.v)
       [] x.op \in {"Not", "Neg"} -> Before(Words(1), operand(1))
       [] x.op \in {"IsZero", "NonZero", "As"} -> Around(operand(1))
       [] x.op \in BinaryOp -> Before(wrapped(1), Before(Words(3), wrapped(2)))
       [] OTHER -> Before(Words(1), Before(Around(operand(1)), Before(operand(2), Around(operand(3)))))

TextOnto(x, s) == <<[leaf |-> Arity(x.op) = 0, text |-> Printed(x, s)]>> \o Behind(s, Arity(x.op))

Text(e) ==
  LET after[k \in 0 .. Len(e)] == IF k = 0 THEN << >> ELSE TextOnto(e[Len(e) + 1 - k], after[k - 1])
  IN after[Len(e)][1].text

BindingText(b) ==
  CASE b.tag = 0 -> Words(7)
    [] b.tag = 2 -> Text(b.expr)
    [] b.tag \in 3 .. 7 \cup 26 .. 28 -> Words(1)
    [] OTHER -> Words(3)

LetText(b, value) ==
  Before(Words(5), Before(BindingText(b), Before(Words(1), NumberText(value.ty, value.v))))

AssertText(e) == Before(Words(1), Before(Text(e), Words(2)))
MultiText(e) == Before(Words(3), Before(Text(e), Words(2)))

ArmText(arm) == IF Len(arm.steps) > 1 THEN Words(2) ELSE Words(1)
IfText(e, arms) ==
  Before(Around(Text(e)),
         Before(ArmText(arms[1]), Before(Words(1), Before(ArmText(arms[2]), Words(2)))))

\* The Frame values that a step reads, by what they patch.
PatchSources(p) ==
  LET fields == Payload[PatchVariants[p.variant + 1]][p.alt + 1]
  IN [k \in {j \in DOMAIN fields : fields[j].kinds[p.vals[j].tag + 1] = "frame"} |-> p.vals[k].v]

Sources(step) ==
  CASE step.kind = 0 -> << >>
    [] step.kind = 1 -> [k \in DOMAIN step.patches |-> step.patches[k].index]
    [] step.kind = 2 -> PatchSources(step.patch)

\* append_log_bindings gives up for StakeDeactivate and StakeDelegateStake.
CpiText(step) ==
  LET patched == Cardinality(DOMAIN Sources(step)) IN
  CASE step.kind = 0 -> Words(8)
    [] step.kind = 1 -> IF patched = 0 THEN Words(7) ELSE Words(6 + 5 * patched)
    [] OTHER -> IF PatchVariants[step.patch.variant + 1] = "unit" THEN GivenUp ELSE Words(6 + 4 * patched)

-----------------------------------------------------------------------------
(* Lines.  A line that does not fit is dropped; one that cannot be printed *)
(* ends the transaction.                                                   *)

Line(ix, i, e, value, ok) == [ix |-> ix, i |-> i, e |-> e, value |-> value, ok |-> ok]
Silent == [ty |-> "none", v |-> 0]

\* A piece is computed when those before it have found room.
Breaks(text) == \E p \in text.aborts : p - 1 <= MaxLine
HasRoom(text) == text.len <= MaxLine

\* An error, or a panic, leaves the handler's loop.
Fail(err) ==
  /\ status' = err /\ todo' = << >>
  /\ UNCHANGED log

\* Emit a line, then fail with err or go on with what is left.
Emit(line, text, err, left) ==
  IF Breaks(text) THEN Fail("Abort")
  ELSE /\ log' = IF HasRoom(text) THEN Append(log, line) ELSE log
       /\ status' = IF err = "Ok" THEN status ELSE err
       /\ todo' = IF err = "Ok" THEN left ELSE << >>

-----------------------------------------------------------------------------
(* The client.                                                             *)

Idle == status = "composing" /\ wire = << >> /\ count < Menu[client].statements

\* A binding that evaluates e.
EvalOf(e) == [tag |-> 2, args |-> << >>, expr |-> e]
True == Const("Bool", 1)

Written(c) ==
  LET menu == Menu[c]
      conds == {<<e>> : e \in menu.exprs}
      more == UNION {{<<True, e>>, <<e, True>>} : e \in menu.exprs}
      lets == menu.lets \cup {Append(bs, EvalOf(e)) : bs \in menu.lets, e \in menu.exprs}
  IN {Statement("assert", es, << >>, << >>) : es \in conds}
       \cup {Statement("assert_multi", es, << >>, << >>) : es \in conds \cup more}
       \cup {Statement("if_else", es, << >>, arms) : es \in conds, arms \in menu.arms}
       \cup {Statement("let", << >>, bs, << >>) : bs \in lets}
       \cup {Statement("patched_cpi", << >>, << >>, OneStep(s)) : s \in menu.steps}
       \cup {Statement("reset_frame", << >>, << >>, << >>)}

\* Loaded values and what accounts hold fit their types; what clients write is of
\* the types of their SDKs; a line has room for a piece.
ASSUME StatementsAssumption ==
  /\ MaxLine \in Nat \ {0}
  /\ \A f \in Data : \A ty \in DOMAIN f : Fits([ty |-> ty, v |-> f[ty]])
  /\ \A c \in Clients :
       /\ Menu[c].loads \in Seq(TypedValue)
       /\ \A k \in 1 .. Len(Menu[c].loads) : Fits(Menu[c].loads[k])
       /\ Menu[c].exprs \subseteq WireExpr /\ Menu[c].lets \subseteq Seq(WireBinding)
       /\ Menu[c].steps \subseteq WireStep /\ Menu[c].arms \subseteq WireArm \X WireArm
       /\ Menu[c].stray \subseteq Byte /\ Menu[c].strayLength \in Nat

Send ==
  /\ Idle
  /\ \E s \in Written(client) : ~ Refuses(s) /\ sent' = s /\ wire' = Encode(s)
  /\ status' = "sent"
  /\ UNCHANGED <<client, values, todo, log, returned, count>>

\* Another client sends bytes that no SDK wrote.
Scribble ==
  /\ Idle
  /\ \E n \in 1 .. Menu[client].strayLength : wire' \in [1 .. n -> Menu[client].stray]
  /\ status' = "sent"
  /\ UNCHANGED <<client, values, sent, todo, log, returned, count>>

-----------------------------------------------------------------------------
(* The program.                                                            *)

\* What the handlers go through, one by one.
Job(kind, e, b, step, arms) == [kind |-> kind, e |-> e, b |-> b, step |-> step, arms |-> arms]
NoBinding == EvalOf(NoExpr)
NoStep == [kind |-> 0, start |-> 0, len |-> 0, data |-> << >>, patches |-> << >>, patch |-> NoPatch]

Bindings(bs) == [k \in DOMAIN bs |-> Job("let", NoExpr, bs[k], NoStep, << >>)]
Checks(kind, es, arms) == [k \in DOMAIN es |-> Job(kind, es[k], NoBinding, NoStep, arms)]
Invocations(arm) == [k \in DOMAIN arm.steps |-> Job("cpi", NoExpr, NoBinding, arm.steps[k], << >>)]

Jobs(s) ==
  CASE s.ix = "let" -> Bindings(s.bindings)
    [] s.ix \in {"assert", "assert_multi", "if_else"} -> Checks(s.ix, s.conds, s.arms)
    [] s.ix = "patched_cpi" -> Invocations(s.arms[1])
    [] OTHER -> Checks(s.ix, <<NoExpr>>, << >>)

\* Cpi::requires_patch_apply.
Patched(step) == step.kind = 2 \/ (step.kind = 1 /\ step.patches # << >>)

\* Why a decoded statement is refused at once.  A client of these statements
\* gives none of the accounts that create_frame and close_frame ask for.
Refusal(s) ==
  CASE s.ix \in {"create_frame", "close_frame"} -> "AccountNotEnoughKeys"
    [] s.ix = "assert_multi" /\ s.conds = << >> -> "InvalidInstructionData"
    [] s.ix = "patched_cpi" /\ ~ Patched(s.arms[1].steps[1]) -> "InvalidPatchedCpiPatches"
    [] OTHER -> "Ok"

Receive ==
  /\ status = "sent"
  /\ LET d == Decode(wire)
         err == IF d.err = "Ok" THEN Refusal(d.v) ELSE "InstructionDidNotDeserialize"
     IN IF err # "Ok" THEN Fail(err)
        ELSE status' = "running" /\ todo' = Jobs(d.v) /\ UNCHANGED log
  /\ UNCHANGED <<client, values, sent, wire, returned, count>>

Running(kind) == status = "running" /\ todo # << >> /\ todo[1].kind = kind

\* eval_binding: a typed value, or an error.  Other sources may always fail.
Outcome(out, ty) == [err |-> out.err, value |-> [ty |-> ty, v |-> out.v]]
SourceType(b) ==
  CASE b.tag = 0 -> ValueTypes[b.args[1] + 1]
    [] b.tag = 1 -> "U64"
    [] b.tag \in {25, 26} -> "Pubkey"
    [] OTHER -> "none"

Outcomes(b) ==
  IF b.tag = 2
    THEN {IF x.ty = "none" THEN Outcome(Err("TypeError"), x.ty) ELSE Outcome(x.out[x.ty], x.ty) :
            x \in {Answer(values, b.expr)}}
    ELSE {Outcome(Err("NotLoaded"), "none")}
           \cup {Outcome(Ok(data[SourceType(b)]), SourceType(b)) :
                   data \in {f \in Data : SourceType(b) \in DOMAIN f}}

\* Slip: the place of the binding in its let.
PlaceInLet == Len(Decode(wire).v.bindings) - Len(todo)

\* The index that append_value returns.
AppendedIndex == Len(values)

Bind ==
  /\ Running("let")
  /\ \E out \in Outcomes(todo[1].b) :
       IF out.err # "Ok" THEN Fail(out.err) /\ UNCHANGED values
       ELSE /\ values' = Append(values, out.value)
            /\ Emit(Line("let", AppendedIndex, NoExpr, out.value, TRUE),
                     LetText(todo[1].b, out.value), "Ok", Tail(todo))
  /\ UNCHANGED <<client, sent, wire, returned, count>>

\* eval_bool.
Verdicts(e) == {Eval(values, "Bool", e)}

AssertOne ==
  /\ Running("assert")
  /\ \E out \in Verdicts(todo[1].e) :
       IF out.err # "Ok" THEN Fail(out.err)
       ELSE Emit(Line("assert", 0, todo[1].e, Silent, out.v = 1), AssertText(todo[1].e),
                  IF out.v = 1 THEN "Ok" ELSE "AssertFailed", Tail(todo))
  /\ UNCHANGED <<client, values, sent, wire, returned, count>>

\* Slip: the conditions are counted from the last.
PlaceFromLast == Len(todo) - 1

\* The place of the condition to check next, from 0.
Place == Len(Decode(wire).v.conds) - Len(todo)

AssertMulti ==
  /\ Running("assert_multi")
  /\ \E out \in Verdicts(todo[1].e) :
       IF out.err # "Ok" THEN Fail(out.err) /\ UNCHANGED returned
       ELSE /\ Emit(Line("assert_multi", Place, todo[1].e, Silent, out.v = 1), MultiText(todo[1].e),
                     IF out.v = 1 THEN "Ok" ELSE "AssertFailedMulti", Tail(todo))
            /\ returned' = IF status' = "AssertFailedMulti" THEN <<Place>> ELSE returned
  /\ UNCHANGED <<client, values, sent, wire, count>>

IfElse ==
  /\ Running("if_else")
  /\ \E out \in Verdicts(todo[1].e) :
       LET job == todo[1]
           arm == job.arms[IF out.v = 1 THEN 1 ELSE 2]
       IN IF out.err # "Ok" THEN Fail(out.err)
          ELSE Emit(Line("if_else", 0, job.e, Silent, out.v = 1), IfText(job.e, job.arms),
                     IF arm.kind = "revert" THEN "IfElseRevert" ELSE "Ok", Invocations(arm))
  /\ UNCHANGED <<client, values, sent, wire, returned, count>>

\* A step is logged, then patched and invoked.  A patch needs its values.
Invoke ==
  /\ Running("cpi")
  /\ LET step == todo[1].step IN
     \E err \in {"Ok", "CpiFailed"} :
       /\ err = "Ok" => \A k \in DOMAIN Sources(step) : Sources(step)[k] < Len(values)
       /\ Emit(Line("cpi", 0, NoExpr, Silent, TRUE), CpiText(step), err, Tail(todo))
  /\ UNCHANGED <<client, values, sent, wire, returned, count>>

ResetFrame ==
  /\ Running("reset_frame")
  /\ values' = << >>
  /\ Emit(Line("reset_frame", 0, NoExpr, Silent, TRUE), Words(1), "Ok", << >>)
  /\ UNCHANGED <<client, sent, wire, returned, count>>

Return ==
  /\ status = "running" /\ todo = << >>
  /\ status' = "composing" /\ sent' = Nothing /\ wire' = << >> /\ count' = count + 1
  /\ UNCHANGED <<client, values, todo, log, returned>>

Advance == Receive \/ Bind \/ AssertOne \/ AssertMulti \/ IfElse \/ Invoke \/ ResetFrame \/ Return

Init ==
  /\ client \in Clients /\ values = Menu[client].loads
  /\ status = "composing" /\ sent = Nothing /\ wire = << >> /\ todo = << >>
  /\ log = << >> /\ returned = << >> /\ count = 0

\* The next transaction, on a Frame with the loads again.
Begin ==
  /\ Failed \/ (status = "composing" /\ count = Menu[client].statements)
  /\ values' = Menu[client].loads /\ UNCHANGED client
  /\ status' = "composing" /\ sent' = Nothing /\ wire' = << >> /\ todo' = << >>
  /\ log' = << >> /\ returned' = << >> /\ count' = 0

Next == Send \/ Scribble \/ Advance \/ Begin

Spec == Init /\ [][Next]_vars

-----------------------------------------------------------------------------
(* What a client reads in a failed transaction's log (parse_logs.rs).      *)

\* enum ErrorCode, numbered from 6000.
ErrorCode ==
  << "LetNotTopLevel", "TapeOutOfBounds", "UnauthorizedClose", "InvalidAuthority",
     "InvalidTapeLen", "AssertFailed", "IfElseRevert", "InvalidAccountIndex",
     "InvalidAccountRange", "AccountDataTooShort", "IntegerOverflow", "IntegerUnderflow",
     "DivisionByZero", "UnsupportedBinaryOp", "UnsupportedUnaryOp", "FloatUnordered",
     "LoadTypeMismatch", "ExprTypeMismatch", "InvalidExprOperand", "PatchDataOutOfRange",
     "InvalidValueTypeTag", "InvalidValueIndex", "IndexCapReached", "AccountOwnerMismatch",
     "AccountDataLenMismatch", "SplTokenUnpackFailed", "Token2022ExtensionNotPresent",
     "SplToken2022UnpackFailed", "CastOverflow", "InvalidPatchedCpiPatches",
     "InvalidStructuredCpiProgram", "InvalidInstructionData", "StakeUnpackFailed",
     "StakeStateMismatch", "ResetNotTopLevel", "CloseNotTopLevel", "CreateNotTopLevel",
     "UnauthorizedFrameWrite", "SplMintOptionEmpty", "AssertFailedMulti" >>

Code(err) == 5999 + CHOOSE k \in DOMAIN ErrorCode : ErrorCode[k] = err

\* The errors that the parsers know: the first seven and a late one.
First == SubSeq(ErrorCode, 1, 7)
Parsed == ToSet(First) \cup {"AssertFailedMulti"}
PlaceIn(names, name) == CHOOSE k \in DOMAIN names : names[k] = name

\* Slip: the table keeps the number from before another error was added.
StaleTable(name) == IF name = "AssertFailedMulti" THEN 6038 ELSE 5999 + PlaceIn(First, name)

ifx_error_code_by_name(name) ==
  IF name = "AssertFailedMulti" THEN 6039 ELSE 5999 + PlaceIn(First, name)

\* The name for a code: its own, else the one with the same low byte.
parse_custom_program_error(code) ==
  LET own == {n \in Parsed : ifx_error_code_by_name(n) = code}
      alike == {n \in Parsed : ifx_error_code_by_name(n) % 256 = code % 256}
  IN IF own # {} THEN own ELSE alike

-----------------------------------------------------------------------------
(* Correctness.                                                            *)

\* A transaction is composing, has bytes of a statement to execute, or has
\* failed; the values it has bound fit their types.
StatementsTypeOK ==
  /\ status \in Working \/ todo = << >>
  /\ status \in {"sent", "running"} => wire # << >>
  /\ \A k \in DOMAIN wire : wire[k] \in 0 .. Base - 1
  /\ \A k \in DOMAIN values : Fits(values[k])

\* What a client sends is what the program reads, to the last byte: the SDK's
\* tables of tags, fields and widths, its counts of lists and tags of arms mean
\* to the program what the SDK means by them (wire/*.rs against
\* let-binding-variants.ts, expr-variants.ts, structured-cpi-patch.ts, codec.ts,
\* types.ts, if-else-arm.ts and constants.ts of sdk/src).
SentIsDecoded ==
  status = "sent" /\ sent # Nothing =>
    LET d == Decode(wire) IN d.err = "Ok" /\ d.v = sent /\ d.rest = << >>

\* Whoever wrote the data: what the program takes for a statement are exactly
\* the bytes that the SDK writes for that statement, with no second spelling
\* of a tag, a bool, a count or an arm.  Bytes that follow are not looked at,
\* although error.rs:103 says that they are refused.
DecodedIsCanonical ==
  status = "sent" =>
    LET d == Decode(wire) IN d.err = "Ok" => Encode(d.v) \o d.rest = wire

\* The lines since the Frame was last reset.
SessionLines ==
  LET resets == {k \in DOMAIN log : log[k].ix = "reset_frame"} IN
  {k \in DOMAIN log : \A r \in resets : r < k}

Verdict(line) == line.ix \in {"assert", "assert_multi", "if_else"}

\* The log of a transaction, its end included, tells the truth about the values
\* (docs/debugging.md:23): $N of a let line holds the value behind //=, and
\* every condition evaluates to the verdict printed.
LogIsTrue ==
  \A k \in SessionLines :
    /\ log[k].ix = "let" => log[k].i < Len(values) /\ values[log[k].i + 1] = log[k].value
    /\ Verdict(log[k]) => Eval(values, "Bool", log[k].e) = Truth(log[k].ok)

\* A transaction goes on exactly as long as its guards hold: the one that
\* failed is the last line, and the return data of assert_multi is the place
\* of the first condition that is false.
GuardsDecide ==
  LET guards == {k \in DOMAIN log : log[k].ix \in {"assert", "assert_multi"} /\ ~ log[k].ok}
      conds == Decode(wire).v.conds
      False(k) == Eval(values, "Bool", conds[k]) = Truth(FALSE)
  IN
  /\ guards # {} => guards = {Len(log)} /\ status \in {"AssertFailed", "AssertFailedMulti"}
  /\ (returned # << >>) = (status = "AssertFailedMulti")
  /\ status = "AssertFailedMulti" =>
       /\ False(returned[1] + 1)
       /\ \A k \in 1 .. returned[1] : ~ False(k)
  /\ status = "AssertFailed" => False(1)

Least(ty, v) == ty \in WideSigned /\ v = Low(ty)

\* Printing ends a transaction only where the least I64 or I128 is printed
\* (pseudocode.rs:79 and 86, with overflow checks on).
OnlyLeastAborts ==
  status = "Abort" =>
    \/ values # << >> /\ Least(Last(values).ty, Last(values).v)
    \/ LET s == Decode(wire).v
           Literal_(e) == \E k \in DOMAIN e : Least(e[k].ty, e[k].v)
       IN \/ \E k \in DOMAIN s.conds : Literal_(s.conds[k])
          \/ \E k \in DOMAIN s.bindings : Literal_(s.bindings[k].expr)

\* A parser names the errors of its table, and takes no other error of the
\* program for one of them.
ErrorIsNamed ==
  (\E k \in DOMAIN ErrorCode : ErrorCode[k] = status) =>
    parse_custom_program_error(Code(status)) = {status} \cap Parsed

=============================================================================
