------------------------------ MODULE MCStatements ------------------------------
(* Instance of Statements, with bytes of 72 values.  Five clients: every    *)
(* expression of one operator in a single statement; one to two statements  *)
(* of all kinds one after the other; every binding and every patch once;    *)
(* arms as long as they may be; and bytes that no SDK wrote.                *)
EXTENDS Statements

MCWidth == [Bool |-> 1, Pubkey |-> 1, U8 |-> 1, I8 |-> 1, U16 |-> 2, I16 |-> 2, U32 |-> 2, I32 |-> 2,
            F32 |-> 2, F64 |-> 2, U64 |-> 2, I64 |-> 2, U128 |-> 4, I128 |-> 4]
MCModulus == [ty \in Int_ \cup {"Bool", "Pubkey"} |-> IF ty = "Bool" THEN 2 ELSE Base ^ MCWidth[ty]]

Value(ty, v) == [ty |-> ty, v |-> v]
Texts == <<Value("U64", 300), Value("I64", -2592)>>
Work == <<Value("U64", 5), Value("Bool", 1)>>

TextLeaves == {Ref(0), Ref(1), Const("I64", -2592), Const("I8", -36), Const("Bool", 1)}
WorkExprs == {Ref(1), Ref(2), Const("Bool", 0), Const("I64", -2592), Const("Pubkey", 1), Const("F64", -3)}

\* Every operator on leaves, and the leaves.
OneOperator(leaves) ==
  leaves
    \cup {<<Node(op, "none", 0)>> \o x : op \in UnaryOp, x \in leaves}
    \cup {<<Node("As", ty, 0)>> \o x : ty \in Int_, x \in leaves}
    \cup {<<Node(op, "none", 0)>> \o x \o y : op \in BinaryOp, x \in leaves, y \in leaves}
    \cup {<<Node(op, "none", 0)>> \o x \o y \o z : op \in TernaryOp, x \in leaves, y \in leaves, z \in leaves}

Slice(ty, i, offset, owner) == [tag |-> 0, args |-> <<ty, i, offset, owner>>, expr |-> NoExpr]
Lamports(i) == [tag |-> 1, args |-> <<i>>, expr |-> NoExpr]
ConstPubkey(k) == [tag |-> 26, args |-> <<k>>, expr |-> NoExpr]

Static(n) == [NoStep EXCEPT !.len = 3, !.data = [k \in 1 .. n |-> 71]]
Raw(patches) == [Static(12) EXCEPT !.kind = 1, !.patches = patches]
At(offset, i) == [offset |-> offset, index |-> i]
Structured(variant, alt, vals) ==
  [NoStep EXCEPT !.kind = 2, !.len = 4, !.patch = [variant |-> variant, alt |-> alt, vals |-> vals]]
Val(tag, v) == [tag |-> tag, v |-> v]

WorkSteps ==
  { Static(200), Raw(<< >>), Raw(<<At(4, 0)>>), Raw(<<At(130, 1), At(0, 9)>>),
    Structured(0, 0, <<Val(0, 0)>>),
    Structured(1, 1, <<Val(0, 300), Val(0, 1)>>),
    Structured(7, 2, <<Val(0, 300), Val(0, 2)>>),
    Structured(12, 0, <<Val(0, 0), Val(0, 1), Val(2, 5)>>),
    Structured(13, 0, <<Val(0, 1), Val(1, 5), Val(0, 0)>>),
    Structured(14, 0, <<Val(0, 1)>>),
    Structured(27, 6, <<Val(0, 0), Val(0, 1), Val(0, 1)>>),
    Structured(28, 0, <<Val(0, 0), Val(0, 9)>>),
    Structured(31, 0, << >>), Structured(33, 0, << >>), Structured(33, 1, <<Val(0, 0)>>) }

\* A binding of every kind, its fields all different.
EveryBinding ==
  {[tag |-> tag, args |-> [k \in DOMAIN BindingFields(tag) |-> k + 4], expr |-> NoExpr] : tag \in 0 .. 67 \ {2}}

\* A patch of every kind, its fields all different, each choice at its end.
PatchOf(variant, alt, ends) ==
  LET fields == Payload[PatchVariants[variant]][alt]
      tag(k) == IF ends THEN Len(fields[k].kinds) - 1 ELSE 0
      vals == [k \in DOMAIN fields |-> Val(tag(k), IF fields[k].kinds[tag(k) + 1] = "none" THEN 0 ELSE k + 4)]
  IN Structured(variant - 1, alt - 1, vals)
EveryPatch ==
  UNION {{PatchOf(variant, alt, ends) : alt \in DOMAIN Payload[PatchVariants[variant]], ends \in BOOLEAN} :
           variant \in DOMAIN PatchVariants}

Cpi(steps) == [kind |-> "cpi", steps |-> steps]
Skip == [kind |-> "skip", steps |-> << >>]
Revert == [kind |-> "revert", steps |-> << >>]
Short == {Skip, Revert, Cpi(<<Structured(32, 0, << >>)>>), Cpi(<<Raw(<<At(4, 0)>>), Static(1)>>)}
Long == {Skip} \cup {Cpi([k \in 1 .. n |-> Static(0)]) : n \in {0, MaxSteps, MaxSteps + 1}}

WorkLets == {<< >>, <<Lamports(2)>>, <<Slice(9, 1, 200, 3)>>, <<ConstPubkey(5), Lamports(1)>>}

NoMenu == [loads |-> << >>, exprs |-> {}, statements |-> 1, arms |-> {}, lets |-> {<< >>}, steps |-> {},
           stray |-> {}, strayLength |-> 0]
MCMenu ==
  [ texts |-> [NoMenu EXCEPT !.loads = Texts, !.exprs = OneOperator(TextLeaves)],
    work |-> [NoMenu EXCEPT !.loads = Work, !.exprs = WorkExprs, !.statements = 2,
                            !.arms = Short \X Short, !.lets = WorkLets, !.steps = WorkSteps],
    tables |-> [NoMenu EXCEPT !.lets = {<<b>> : b \in EveryBinding}, !.steps = EveryPatch],
    long |-> [NoMenu EXCEPT !.loads = <<Value("Bool", 1)>>, !.exprs = {Ref(0)}, !.arms = Long \X Long],
    bare |-> [NoMenu EXCEPT !.exprs = {True}, !.stray = {0, 1, 3, 7, 15, 71}, !.strayLength = 5] ]
MCClients == DOMAIN MCMenu

MCData ==
  { [U64 |-> 300, I64 |-> 7],
    [U64 |-> 0, I64 |-> -2592] }

=============================================================================
