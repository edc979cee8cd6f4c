---------------------------------- MODULE Wire ----------------------------------
(***************************************************************************)
(* Instruction data: what the SDKs write and what the program reads.       *)
(* Expressions, bindings, CPI steps and arms have a tag each, then their   *)
(* fields in order, integers in little endian, lists behind a count.       *)
(*                                                                         *)
(* A byte has Base values, a number of type ty has Width[ty] bytes; all    *)
(* else is as in the code, the tags too.  A byte stands for a number of    *)
(* 0 .. Base - 1.                                                          *)
(*                                                                         *)
(* The reader is the program's, the writer the TypeScript SDK's, and each  *)
(* has tables of its own: those of the writer begin with Sdk.  A variant   *)
(* of a statement is the number that it has in the program; the writer     *)
(* knows it by its name and writes what its own table says of that name.   *)
(***************************************************************************)
EXTENDS Terms, SequencesExt

CONSTANTS
  Base,   \* the values of a byte
  Width   \* the bytes of each type

\* The widest type is a key.
MaxWidth == 32

\* The numbers of k bytes are those below Power[k].
Power[k \in 0 .. MaxWidth] == IF k = 0 THEN 1 ELSE Base * Power[k - 1]

ASSUME WireAssumption ==
  /\ Base \in Nat /\ Base > 68
  /\ Width \in [Type -> 1 .. MaxWidth] /\ Width["Bool"] = 1
  /\ \A ty \in Int_ \cup {"Pubkey"} : Modulus[ty] = Power[Width[ty]]
  /\ \A ty \in Float : LET half == Power[Width[ty]] \div 2 IN Floats \ {NaN} \subseteq - half .. half - 1

Byte == 0 .. Base - 1

\* IfElseArm: one byte holds skip, revert or a count of steps.
MaxSteps == Base - 2
RevertTag == Base - 1

-----------------------------------------------------------------------------
(* Tables.                                                                 *)

ConstTypes == << "Bool", "U8", "U16", "U32", "U64", "U128",
                 "I8", "I16", "I32", "I64", "I128", "F32", "F64" >>
CastTypes == << "U8", "U16", "U32", "U64", "U128", "I8", "I16", "I32", "I64", "I128" >>

ValueTypes == ConstTypes \o <<"Pubkey">>

\* VALUE_TYPE_VARIANT.
SdkValueTypes ==
  << "Bool", "U8", "U16", "U32", "U64", "U128",
     "I8", "I16", "I32", "I64", "I128", "F32", "F64", "Pubkey" >>

Typed(op, tys) == [k \in DOMAIN tys |-> <<op, tys[k]>>]
Untyped(ops) == [k \in DOMAIN ops |-> <<ops[k], "none">>]

\* enum Expr, in order: the tag of a variant is its place, from 0.
Variants ==
  Untyped(<<"Value">>) \o Typed("Const", ConstTypes)
    \o Untyped(<<"Not", "Neg", "IsZero", "NonZero">>) \o Typed("As", CastTypes)
    \o Untyped(<< "Add", "Sub", "Mul", "Div", "DivFloor", "DivCeil", "Min", "Max",
                  "Eq", "Ne", "Gt", "Ge", "Lt", "Le", "SaturatingSub", "And", "Or",
                  "BpsMulFloor", "BpsMulCeil", "MulDivFloor", "MulDivCeil",
                  "Clamp", "Select" >>)
    \o <<<<"Const", "Pubkey">>>>

\* EXPR_VARIANT of the SDKs: the key of a node and its place.
Key(x) == IF x.op \in {"Const", "As"} THEN <<x.op, x.ty>> ELSE <<x.op, "none">>

\* Slip: the table of an SDK lists the new comparisons in another order.
SdkVariantsLeLt ==
  [Variants EXCEPT ![41] = <<"Le", "none">>, ![42] = <<"Lt", "none">>]

SdkVariants ==
  LET c(ty) == <<"Const", ty>>
      a(ty) == <<"As", ty>>
      o(op) == <<op, "none">>
  IN << o("Value"), c("Bool"), c("U8"), c("U16"), c("U32"), c("U64"), c("U128"),
        c("I8"), c("I16"), c("I32"), c("I64"), c("I128"), c("F32"), c("F64"),
        o("Not"), o("Neg"), o("IsZero"), o("NonZero"),
        a("U8"), a("U16"), a("U32"), a("U64"), a("U128"),
        a("I8"), a("I16"), a("I32"), a("I64"), a("I128"),
        o("Add"), o("Sub"), o("Mul"), o("Div"), o("DivFloor"), o("DivCeil"),
        o("Min"), o("Max"), o("Eq"), o("Ne"), o("Gt"), o("Ge"), o("Lt"), o("Le"),
        o("SaturatingSub"), o("And"), o("Or"), o("BpsMulFloor"), o("BpsMulCeil"),
        o("MulDivFloor"), o("MulDivCeil"), o("Clamp"), o("Select"), c("Pubkey") >>

\* enum LetBinding, in order.
LetVariants ==
  << "accountDataSlice", "accountLamports", "eval", "sysvarClockSlot",
     "sysvarClockEpochStartTimestamp", "sysvarClockEpoch", "sysvarClockLeaderScheduleEpoch",
     "sysvarClockUnixTimestamp", "sysvarRentMinimumBalance", "splTokenAccountAmount",
     "splTokenAccountDelegatedAmount", "splTokenAccountState", "splMintSupply", "splMintDecimals",
     "splToken2022AccountAmount", "splToken2022AccountDelegatedAmount", "splToken2022AccountState",
     "splToken2022MintSupply", "splToken2022MintDecimals", "splToken2022AccountTransferFeeWithheld",
     "splToken2022MintTransferFeeBasisPoints", "splToken2022MintTransferFeeMaximum",
     "splToken2022MintWithheldAmount", "splToken2022MintDefaultAccountState", "accountDataLen",
     "accountKey", "constPubkey", "frameGeneration", "frameIndexCount", "accountIsSigner",
     "accountIsWritable", "stakeDelegationStake", "stakeDelegationActivationEpoch",
     "stakeDelegationDeactivationEpoch", "stakeLockupUnixTimestamp", "stakeLockupEpoch",
     "stakeAuthorizedStaker", "stakeAuthorizedWithdrawer", "stakeDelegationVoter",
     "splMintIsInitialized", "splMintMintAuthority", "splMintFreezeAuthority",
     "splToken2022MintIsInitialized", "splToken2022MintMintAuthority",
     "splToken2022MintFreezeAuthority", "accountProgramOwner", "accountExecutable",
     "accountRentEpoch", "splTokenAccountMint", "splTokenAccountOwner", "splTokenAccountDelegate",
     "splTokenAccountCloseAuthority", "splTokenAccountIsNative", "splTokenAccountOwnerIsDerived",
     "splToken2022AccountMint", "splToken2022AccountOwner", "splToken2022AccountDelegate",
     "splToken2022AccountCloseAuthority", "splToken2022AccountIsNative",
     "splToken2022AccountOwnerIsDerived", "stakeAccountState", "stakeLockupCustodian",
     "stakeRentExemptReserve", "stakeCreditsObserved", "stakeStakeFlags",
     "upgradeableProgramDataTag", "upgradeableProgramDataUpgradeAuthority",
     "upgradeableProgramProgramDataAddress" >>

\* The fields of a binding by its tag, an Eval (2) apart: their types and names.
BindingFields(tag) ==
  CASE tag = 0 -> <<"ValueType", "U8", "U32", "U8">>
    [] tag \in 3 .. 7 \cup {27, 28} -> << >>
    [] tag = 8 -> <<"U32">>
    [] tag = 26 -> <<"Pubkey">>
    [] OTHER -> <<"U8">>

BindingNames(tag) ==
  CASE tag = 0 -> <<"ty", "account_index", "offset", "expected_program_owner">>
    [] tag \in 3 .. 7 \cup {27, 28} -> << >>
    [] tag = 8 -> <<"data_len">>
    [] tag = 26 -> <<"bytes">>
    [] OTHER -> <<"account_index">>

\* Slip: an SDK lists the constant before the key of an account.
SdkKeyAfterConst == [LetVariants EXCEPT ![26] = "constPubkey", ![27] = "accountKey"]

\* LET_BINDING_VARIANT.
SdkLetVariants ==
  << "accountDataSlice", "accountLamports", "eval", "sysvarClockSlot",
     "sysvarClockEpochStartTimestamp", "sysvarClockEpoch", "sysvarClockLeaderScheduleEpoch",
     "sysvarClockUnixTimestamp", "sysvarRentMinimumBalance", "splTokenAccountAmount",
     "splTokenAccountDelegatedAmount", "splTokenAccountState", "splMintSupply", "splMintDecimals",
     "splToken2022AccountAmount", "splToken2022AccountDelegatedAmount", "splToken2022AccountState",
     "splToken2022MintSupply", "splToken2022MintDecimals", "splToken2022AccountTransferFeeWithheld",
     "splToken2022MintTransferFeeBasisPoints", "splToken2022MintTransferFeeMaximum",
     "splToken2022MintWithheldAmount", "splToken2022MintDefaultAccountState", "accountDataLen",
     "accountKey", "constPubkey", "frameGeneration", "frameIndexCount", "accountIsSigner",
     "accountIsWritable", "stakeDelegationStake", "stakeDelegationActivationEpoch",
     "stakeDelegationDeactivationEpoch", "stakeLockupUnixTimestamp", "stakeLockupEpoch",
     "stakeAuthorizedStaker", "stakeAuthorizedWithdrawer", "stakeDelegationVoter",
     "splMintIsInitialized", "splMintMintAuthority", "splMintFreezeAuthority",
     "splToken2022MintIsInitialized", "splToken2022MintMintAuthority",
     "splToken2022MintFreezeAuthority", "accountProgramOwner", "accountExecutable",
     "accountRentEpoch", "splTokenAccountMint", "splTokenAccountOwner", "splTokenAccountDelegate",
     "splTokenAccountCloseAuthority", "splTokenAccountIsNative", "splTokenAccountOwnerIsDerived",
     "splToken2022AccountMint", "splToken2022AccountOwner", "splToken2022AccountDelegate",
     "splToken2022AccountCloseAuthority", "splToken2022AccountIsNative",
     "splToken2022AccountOwnerIsDerived", "stakeAccountState", "stakeLockupCustodian",
     "stakeRentExemptReserve", "stakeCreditsObserved", "stakeStakeFlags",
     "upgradeableProgramDataTag", "upgradeableProgramDataUpgradeAuthority",
     "upgradeableProgramProgramDataAddress" >>

Field(name, ty) == [name |-> name, ty |-> ty]

\* The switch of encodeLetBinding.
SdkBindingFields(key) ==
  CASE key = "accountDataSlice" ->
         << Field("ty", "ValueType"), Field("account_index", "U8"),
            Field("offset", "U32"), Field("expected_program_owner", "U8") >>
    [] key = "constPubkey" -> <<Field("bytes", "Pubkey")>>
    [] key \in { "sysvarClockSlot", "sysvarClockEpochStartTimestamp", "sysvarClockEpoch",
                 "sysvarClockLeaderScheduleEpoch", "sysvarClockUnixTimestamp",
                 "frameGeneration", "frameIndexCount" } -> << >>
    [] key = "sysvarRentMinimumBalance" -> <<Field("data_len", "U32")>>
    [] OTHER -> <<Field("account_index", "U8")>>

\* A field of a structured patch: a value of the Frame, a literal, or (behind
\* a tag) one of several.
Bound(name) == [name |-> name, kinds |-> <<"frame">>]
Literal(name, ty) == [name |-> name, kinds |-> <<ty>>]

\* The payloads of structured_cpi_payload.rs; one that has alternatives has a tag.
Payload ==
  LET amount == Bound("amount")
      decimals == Bound("decimals")
      fee == Bound("fee")
      a == Literal("amount", "U64")
      d == Literal("decimals", "U8")
      f == Literal("fee", "U64")
  IN
  [ lamports |-> <<<<Bound("lamports")>>>>,
    space |-> <<<<Bound("space")>>>>,
    amount |-> <<<<amount>>>>,
    multisig |-> <<<<Bound("m")>>>>,
    unit |-> <<<< >>>>,
    create |-> << <<Bound("lamports"), Literal("space", "U64")>>,
                  <<Literal("lamports", "U64"), Bound("space")>>,
                  <<Bound("lamports"), Bound("space")>> >>,
    checked |-> << <<amount, d>>, <<amount, decimals>>, <<a, decimals>> >>,
    fee |-> << <<amount, d, f>>, <<a, decimals, f>>, <<a, d, fee>>, <<amount, decimals, f>>,
               <<amount, d, fee>>, <<a, decimals, fee>>, <<amount, decimals, fee>> >>,
    set_fee |-> << <<Bound("basis_points"), Literal("maximum_fee", "U64")>>,
                   <<Literal("basis_points", "U16"), Bound("maximum_fee")>>,
                   <<Bound("basis_points"), Bound("maximum_fee")>> >>,
    mint |-> << << decimals,
                   [name |-> "mint_authority", kinds |-> <<"frame", "Pubkey">>],
                   [name |-> "freeze_authority", kinds |-> <<"none", "frame", "Pubkey">>] >> >>,
    unwrap |-> << << >>, <<amount>> >> ]

\* The names of the alternatives; a payload without has one.
AlternativeNames ==
  LET one == <<"only">> IN
  [ lamports |-> one, space |-> one, amount |-> one, multisig |-> one, unit |-> one, mint |-> one,
    create |-> <<"lamportsOnly", "spaceOnly", "both">>,
    checked |-> <<"amountOnly", "both", "decimalsOnly">>,
    fee |-> << "amountOnly", "decimalsOnly", "feeOnly", "amountDecimals",
               "amountFee", "decimalsFee", "allFromFrame" >>,
    set_fee |-> <<"bpsOnly", "maxOnly", "both">>,
    unwrap |-> <<"all", "amount">> ]

\* enum StructuredCpiPatch: the payload of each variant, in order.
PatchVariants ==
  << "lamports", "create", "space",
     "amount", "amount", "amount", "amount", "checked", "checked", "checked", "checked",
     "amount", "mint", "mint", "multisig",
     "amount", "amount", "amount", "amount", "checked", "checked", "checked", "checked",
     "amount", "mint", "mint", "multisig",
     "fee", "set_fee", "lamports", "lamports", "unit", "unit", "unwrap" >>

PatchNames ==
  << "systemTransfer", "systemCreateAccount", "systemAllocate", "tokenTransfer", "tokenApprove",
     "tokenMintTo", "tokenBurn", "tokenTransferChecked", "tokenApproveChecked",
     "tokenMintToChecked", "tokenBurnChecked", "tokenAmountToUiAmount", "tokenInitializeMint",
     "tokenInitializeMint2", "tokenInitializeMultisig", "token2022Transfer", "token2022Approve",
     "token2022MintTo", "token2022Burn", "token2022TransferChecked", "token2022ApproveChecked",
     "token2022MintToChecked", "token2022BurnChecked", "token2022AmountToUiAmount",
     "token2022InitializeMint", "token2022InitializeMint2", "token2022InitializeMultisig",
     "token2022TransferCheckedWithFee", "token2022SetTransferFee", "stakeWithdraw", "stakeSplit",
     "stakeDeactivate", "stakeDelegateStake", "tokenUnwrapLamports" >>

\* STRUCTURED_CPI_PATCH_WIRE.
SdkPatchWire ==
  [ systemTransfer |-> 0, systemCreateAccount |-> 1, systemAllocate |-> 2, tokenTransfer |-> 3,
    tokenApprove |-> 4, tokenMintTo |-> 5, tokenBurn |-> 6, tokenTransferChecked |-> 7,
    tokenApproveChecked |-> 8, tokenMintToChecked |-> 9, tokenBurnChecked |-> 10,
    tokenAmountToUiAmount |-> 11, tokenInitializeMint |-> 12, tokenInitializeMint2 |-> 13,
    tokenInitializeMultisig |-> 14, token2022Transfer |-> 15, token2022Approve |-> 16,
    token2022MintTo |-> 17, token2022Burn |-> 18, token2022TransferChecked |-> 19,
    token2022ApproveChecked |-> 20, token2022MintToChecked |-> 21, token2022BurnChecked |-> 22,
    token2022AmountToUiAmount |-> 23, token2022InitializeMint |-> 24,
    token2022InitializeMint2 |-> 25, token2022InitializeMultisig |-> 26,
    token2022TransferCheckedWithFee |-> 27, token2022SetTransferFee |-> 28, stakeWithdraw |-> 29,
    stakeSplit |-> 30, stakeDeactivate |-> 31, stakeDelegateStake |-> 32,
    tokenUnwrapLamports |-> 33 ]

\* The switch of encodeStructuredCpiPatchBody.
SdkForm(name) ==
  CASE name \in {"systemTransfer", "stakeWithdraw", "stakeSplit"} -> "lamports"
    [] name = "systemCreateAccount" -> "create"
    [] name = "systemAllocate" -> "space"
    [] name \in { "tokenTransfer", "tokenApprove", "tokenMintTo", "tokenBurn", "tokenAmountToUiAmount",
                  "token2022Transfer", "token2022Approve", "token2022MintTo", "token2022Burn",
                  "token2022AmountToUiAmount" } -> "amount"
    [] name \in { "tokenTransferChecked", "tokenApproveChecked", "tokenMintToChecked", "tokenBurnChecked",
                  "token2022TransferChecked", "token2022ApproveChecked", "token2022MintToChecked",
                  "token2022BurnChecked" } -> "checked"
    [] name \in {"tokenInitializeMultisig", "token2022InitializeMultisig"} -> "multisig"
    [] name = "token2022TransferCheckedWithFee" -> "fee"
    [] name = "token2022SetTransferFee" -> "set_fee"
    [] name \in { "tokenInitializeMint", "tokenInitializeMint2",
                  "token2022InitializeMint", "token2022InitializeMint2" } -> "mint"
    [] name \in {"stakeDeactivate", "stakeDelegateStake"} -> "unit"
    [] name = "tokenUnwrapLamports" -> "unwrap"

\* amountDecimalsTag and its like, of the payloads that have alternatives.
SdkTags ==
  [ create |-> [lamportsOnly |-> 0, spaceOnly |-> 1, both |-> 2],
    checked |-> [amountOnly |-> 0, both |-> 1, decimalsOnly |-> 2],
    fee |-> [ amountOnly |-> 0, decimalsOnly |-> 1, feeOnly |-> 2, amountDecimals |-> 3,
              amountFee |-> 4, decimalsFee |-> 5, allFromFrame |-> 6 ],
    set_fee |-> [bpsOnly |-> 0, maxOnly |-> 1, both |-> 2],
    unwrap |-> [all |-> 0, amount |-> 1] ]

\* What encodeAmountDecimalsPatch and its like write behind the tag.
SdkPayload ==
  LET lamports == Bound("lamports")
      space == Bound("space")
      amount == Bound("amount")
      decimals == Bound("decimals")
      fee == Bound("fee")
      bps == Bound("basis_points")
      maximum == Bound("maximum_fee")
      a == Literal("amount", "U64")
      d == Literal("decimals", "U8")
      f == Literal("fee", "U64")
  IN
  [ lamports |-> [only |-> <<lamports>>],
    space |-> [only |-> <<space>>],
    amount |-> [only |-> <<amount>>],
    multisig |-> [only |-> <<Bound("m")>>],
    unit |-> [only |-> << >>],
    create |-> [ lamportsOnly |-> <<lamports, Literal("space", "U64")>>,
                 spaceOnly |-> <<Literal("lamports", "U64"), space>>,
                 both |-> <<lamports, space>> ],
    checked |-> [amountOnly |-> <<amount, d>>, both |-> <<amount, decimals>>, decimalsOnly |-> <<a, decimals>>],
    fee |-> [ amountOnly |-> <<amount, d, f>>, decimalsOnly |-> <<a, decimals, f>>, feeOnly |-> <<a, d, fee>>,
              amountDecimals |-> <<amount, decimals, f>>, amountFee |-> <<amount, d, fee>>,
              decimalsFee |-> <<a, decimals, fee>>, allFromFrame |-> <<amount, decimals, fee>> ],
    set_fee |-> [ bpsOnly |-> <<bps, Literal("maximum_fee", "U64")>>,
                  maxOnly |-> <<Literal("basis_points", "U16"), maximum>>,
                  both |-> <<bps, maximum>> ],
    mint |-> [only |-> << decimals,
                          [name |-> "mint_authority", kinds |-> <<"frame", "Pubkey">>],
                          [name |-> "freeze_authority", kinds |-> <<"none", "frame", "Pubkey">>] >>],
    unwrap |-> [all |-> << >>, amount |-> <<amount>>] ]

\* enum Cpi, in order, and CPI_WIRE.
CpiKinds == <<"static", "rawPatched", "structured">>
SdkCpiWire == [static |-> 0, rawPatched |-> 1, structured |-> 2]

\* IF_ELSE_ARM.
SdkArm == [skip |-> 0, revert |-> Base - 1, maxSteps |-> Base - 2]

\* The arguments of create_frame; a frame id is as long as a key.
CreateArgs == <<"Pubkey", "Pubkey", "U32">>
SdkCreateArgs == <<"Pubkey", "Pubkey", "U32">>

Instructions ==
  << "create_frame", "close_frame", "reset_frame", "let",
     "assert", "assert_multi", "patched_cpi", "if_else" >>

\* IX_DISC_* of constants.ts.
SdkDiscriminators ==
  [ create_frame |-> 0, close_frame |-> 1, reset_frame |-> 2, let |-> 3,
    assert |-> 4, assert_multi |-> 5, patched_cpi |-> 6, if_else |-> 7 ]

-----------------------------------------------------------------------------
(* Writing.                                                                *)

Digits(n, w) == [k \in 1 .. w |-> (n \div Power[k - 1]) % Base]
Write(ty, n) == Digits(n, Width[ty])

TagIn(table, x) == CHOOSE t \in 0 .. Len(table) - 1 : table[t + 1] = x

\* A list without its count (serialize_items of u8_len_vec.rs and u16_len_vec.rs).
WriteEach(Enc(_), s) == FlattenSeq([k \in DOMAIN s |-> Enc(s[k])])

EncodeNode(x) ==
  <<TagIn(SdkVariants, Key(x))>>
    \o CASE x.op = "Value" -> <<x.v>>
         [] x.op = "Const" -> Write(x.ty, x.v)
         [] OTHER -> << >>

EncodeExpr(e) == WriteEach(EncodeNode, e)

\* What a list of values holds under a name.
Named(names, vals, name) == vals[TagIn(names, name) + 1]

\* A type of values has a tag, which the statement gives as the program's.
EncodeArg(ty, v) == IF ty = "ValueType" THEN <<TagIn(SdkValueTypes, ValueTypes[v + 1])>> ELSE Write(ty, v)

EncodeBinding(b) ==
  LET key == LetVariants[b.tag + 1]
      fields == SdkBindingFields(key)
  IN <<TagIn(SdkLetVariants, key)>>
       \o IF key = "eval" THEN EncodeExpr(b.expr)
          ELSE FlattenSeq([k \in DOMAIN fields |->
                 EncodeArg(fields[k].ty, Named(BindingNames(b.tag), b.args, fields[k].name))])

\* Field f of the SDK with the value v, of one of the kinds of the program's field.
EncodeField(f, kinds, v) ==
  LET tag == IF Len(f.kinds) > 1 THEN TagIn(f.kinds, kinds[v.tag + 1]) ELSE 0
      kind == f.kinds[tag + 1]
  IN (IF Len(f.kinds) > 1 THEN <<tag>> ELSE << >>)
       \o CASE kind = "none" -> << >>
            [] kind = "frame" -> <<v.v>>
            [] OTHER -> Write(kind, v.v)

\* The SDK's form and alternative have the names of the program's.
EncodePatch(p) ==
  LET name == PatchNames[p.variant + 1]
      form == PatchVariants[p.variant + 1]
      alt == AlternativeNames[form][p.alt + 1]
      given == Payload[form][p.alt + 1]
      names == [k \in DOMAIN given |-> given[k].name]
      kinds == [k \in DOMAIN given |-> given[k].kinds]
      own == SdkForm(name)
      fields == SdkPayload[own][alt]
  IN <<SdkPatchWire[name]>>
       \o (IF own \in DOMAIN SdkTags THEN <<SdkTags[own][alt]>> ELSE << >>)
       \o FlattenSeq([k \in DOMAIN fields |->
            EncodeField(fields[k], Named(names, kinds, fields[k].name), Named(names, p.vals, fields[k].name))])

EncodeStep(s) ==
  LET key == CpiKinds[s.kind + 1] IN
  <<SdkCpiWire[key], s.start, s.len>>
    \o IF key = "structured" THEN EncodePatch(s.patch)
       ELSE Write("U16", Len(s.data)) \o s.data
              \o IF key = "static" THEN << >>
                 ELSE Write("U16", Len(s.patches))
                        \o WriteEach(LAMBDA p : Write("U16", p.offset) \o <<p.index>>, s.patches)

EncodeArm(arm) ==
  CASE arm.kind = "skip" -> <<SdkArm.skip>>
    [] arm.kind = "revert" -> <<SdkArm.revert>>
    [] arm.kind = "cpi" -> <<Len(arm.steps)>> \o WriteEach(EncodeStep, arm.steps)

Encode(s) ==
  <<SdkDiscriminators[s.ix]>>
    \o CASE s.ix = "create_frame" ->
                FlattenSeq([k \in DOMAIN SdkCreateArgs |-> Write(SdkCreateArgs[k], s.args[k])])
         [] s.ix = "let" -> <<Len(s.bindings)>> \o WriteEach(EncodeBinding, s.bindings)
         [] s.ix = "assert" -> EncodeExpr(s.conds[1])
         [] s.ix = "assert_multi" -> <<Len(s.conds)>> \o WriteEach(EncodeExpr, s.conds)
         [] s.ix = "patched_cpi" -> EncodeStep(s.arms[1].steps[1])
         [] s.ix = "if_else" -> EncodeExpr(s.conds[1]) \o WriteEach(EncodeArm, s.arms)
         [] OTHER -> << >>

\* What a writer refuses: a list its count cannot hold, no conditions, an arm
\* without steps or with as many as revert's tag.
Refuses(s) ==
  \/ s.ix = "assert_multi" /\ s.conds = << >>
  \/ Len(s.conds) >= Base \/ Len(s.bindings) >= Base
  \/ \E k \in DOMAIN s.arms :
       s.arms[k].kind = "cpi" /\ Len(s.arms[k].steps) \notin 1 .. SdkArm.maxSteps

-----------------------------------------------------------------------------
(* Reading: a value and what follows it, or an error.                      *)

Read(v, rest) == [err |-> "Ok", v |-> v, rest |-> rest]
Stop(err) == [err |-> err, v |-> << >>, rest |-> << >>]

\* Go on with what r read, if it read something.
Then(r, F(_, _)) ==
  CHOOSE after \in {IF x.err = "Ok" THEN F(x.v, x.rest) ELSE x : x \in {r}} : TRUE

ReadByte(b) == IF b = << >> THEN Stop("UnexpectedEof") ELSE Read(b[1], Behind(b, 1))

\* The number of the bytes d, the last of which counts most.
Number(d) ==
  LET high[k \in 0 .. Len(d)] == IF k = 0 THEN 0 ELSE high[k - 1] * Base + d[Len(d) + 1 - k]
  IN high[Len(d)]

FromDigits(ty, d) ==
  LET n == Number(d)
      all == Power[Len(d)]
  IN IF ty \in Signed \cup Float /\ n >= all \div 2 THEN n - all ELSE n

\* borsh takes 0 and 1 for a bool and no NaN for a float.
Readable(ty, n) == CASE ty = "Bool" -> n \in 0 .. 1 [] ty \in Float -> n \in Floats \ {NaN} [] OTHER -> TRUE

ReadNumber(ty, b) ==
  IF Len(b) < Width[ty] THEN Stop("UnexpectedEof")
  ELSE LET n == FromDigits(ty, Leading(b, Width[ty])) IN
       IF Readable(ty, n) THEN Read(n, Behind(b, Width[ty])) ELSE Stop("InvalidData")

\* A tag of a table with n entries.
ReadTag(n, b) ==
  Then(ReadByte(b), LAMBDA t, rest : IF t < n THEN Read(t, rest) ELSE Stop("InvalidData"))

\* One after the other, each by a reader of its own (deserialize_items).
ReadEach(readers, b) ==
  LET read[k \in 0 .. Len(readers)] ==
        IF k = 0 THEN Read(<< >>, b)
        ELSE Then(read[k - 1], LAMBDA vs, rest :
               Then(readers[k][rest], LAMBDA v, r : Read(Append(vs, v), r)))
  IN read[Len(readers)]

Reader(Dec(_)) == [b \in Seq(Byte) |-> Dec(b)]
ReadMany(Dec(_), n, b) == ReadEach([k \in 1 .. n |-> Reader(Dec)], b)
ReadList(ReadCount(_), Dec(_), b) == Then(ReadCount(b), LAMBDA n, rest : ReadMany(Dec, n, rest))

ReadU16(b) == ReadNumber("U16", b)

\* The bytes of a step's data.
ReadData(n, b) == IF Len(b) < n THEN Stop("UnexpectedEof") ELSE Read(Leading(b, n), Behind(b, n))

ReadNode(b) ==
  Then(ReadTag(Len(Variants), b), LAMBDA tag, rest :
    LET op == Variants[tag + 1][1]
        ty == Variants[tag + 1][2]
    IN CASE op = "Value" -> Then(ReadByte(rest), LAMBDA i, r : Read(Node(op, ty, i), r))
         [] op = "Const" -> Then(ReadNumber(ty, rest), LAMBDA v, r : Read(Node(op, ty, v), r))
         [] OTHER -> Read(Node(op, ty, 0), rest))

\* The nodes of `due` expressions; the operands of one are due before the next.
DecodeExpr(b) ==
  LET nodes[p \in Nat \X Seq(Byte)] ==
        IF p[1] = 0 THEN Read(<< >>, p[2])
        ELSE Then(ReadNode(p[2]), LAMBDA x, rest :
               Then(nodes[<<p[1] - 1 + Arity(x.op), rest>>], LAMBDA e, r : Read(<<x>> \o e, r)))
  IN nodes[<<1, b>>]

\* Numbers, and types of values, which have a tag.
ReadFields(tys, b) ==
  LET readers == [k \in DOMAIN tys |->
                    [r \in Seq(Byte) |-> IF tys[k] = "ValueType" THEN ReadTag(14, r) ELSE ReadNumber(tys[k], r)]]
  IN ReadEach(readers, b)

DecodeBinding(b) ==
  Then(ReadTag(68, b), LAMBDA tag, rest :
    IF tag = 2 THEN Then(DecodeExpr(rest), LAMBDA e, r : Read([tag |-> 2, args |-> << >>, expr |-> e], r))
    ELSE Then(ReadFields(BindingFields(tag), rest),
              LAMBDA args, r : Read([tag |-> tag, args |-> args, expr |-> NoExpr], r)))

DecodeField(f, b) ==
  Then(IF Len(f.kinds) > 1 THEN ReadTag(Len(f.kinds), b) ELSE Read(0, b), LAMBDA tag, rest :
    LET kind == f.kinds[tag + 1] IN
    Then(CASE kind = "none" -> Read(0, rest)
           [] kind = "frame" -> ReadByte(rest)
           [] OTHER -> ReadNumber(kind, rest),
         LAMBDA v, r : Read([tag |-> tag, v |-> v], r)))

DecodePatch(b) ==
  Then(ReadTag(Len(PatchVariants), b), LAMBDA variant, rest :
    LET alts == Payload[PatchVariants[variant + 1]]
        readers(alt) == [k \in DOMAIN alts[alt + 1] |-> [r \in Seq(Byte) |-> DecodeField(alts[alt + 1][k], r)]]
    IN Then(IF Len(alts) > 1 THEN ReadTag(Len(alts), rest) ELSE Read(0, rest), LAMBDA alt, r :
         Then(ReadEach(readers(alt), r), LAMBDA vals, r2 :
           Read([variant |-> variant, alt |-> alt, vals |-> vals], r2))))

NoPatch == [variant |-> 0, alt |-> 0, vals |-> << >>]

DecodeOverlay(b) ==
  Then(ReadU16(b), LAMBDA offset, rest :
    Then(ReadByte(rest), LAMBDA i, r : Read([offset |-> offset, index |-> i], r)))

DecodeStep(b) ==
  Then(ReadTag(3, b), LAMBDA kind, b1 : Then(ReadByte(b1), LAMBDA start, b2 :
  Then(ReadByte(b2), LAMBDA len, b3 :
    LET Step(data, patches, patch) ==
          [kind |-> kind, start |-> start, len |-> len, data |-> data, patches |-> patches, patch |-> patch]
    IN IF kind = 2 THEN Then(DecodePatch(b3), LAMBDA p, r : Read(Step(<< >>, << >>, p), r))
       ELSE Then(Then(ReadU16(b3), ReadData), LAMBDA data, r :
              IF kind = 0 THEN Read(Step(data, << >>, NoPatch), r)
              ELSE Then(ReadList(ReadU16, DecodeOverlay, r),
                        LAMBDA ps, r2 : Read(Step(data, ps, NoPatch), r2))))))

ArmKind(tag) == IF tag = 0 THEN "skip" ELSE IF tag = RevertTag THEN "revert" ELSE "cpi"

DecodeArm(b) ==
  Then(ReadByte(b), LAMBDA tag, rest :
    IF ArmKind(tag) # "cpi" THEN Read([kind |-> ArmKind(tag), steps |-> << >>], rest)
    ELSE Then(ReadMany(DecodeStep, tag, rest), LAMBDA steps, r : Read([kind |-> "cpi", steps |-> steps], r)))

Statement(ix, conds, bindings, arms) ==
  [ix |-> ix, args |-> << >>, conds |-> conds, bindings |-> bindings, arms |-> arms]
OneStep(step) == <<[kind |-> "cpi", steps |-> <<step>>]>>

Decode(b) ==
  Then(ReadTag(Len(Instructions), b), LAMBDA disc, rest :
    LET ix == Instructions[disc + 1] IN
    CASE ix = "create_frame" -> Then(ReadFields(CreateArgs, rest),
                                     LAMBDA args, r : Read([Statement(ix, << >>, << >>, << >>) EXCEPT !.args = args], r))
      [] ix = "let" -> Then(ReadList(ReadByte, DecodeBinding, rest),
                            LAMBDA bs, r : Read(Statement(ix, << >>, bs, << >>), r))
      [] ix = "assert" -> Then(DecodeExpr(rest), LAMBDA e, r : Read(Statement(ix, <<e>>, << >>, << >>), r))
      [] ix = "assert_multi" -> Then(ReadList(ReadByte, DecodeExpr, rest),
                                     LAMBDA es, r : Read(Statement(ix, es, << >>, << >>), r))
      [] ix = "patched_cpi" -> Then(DecodeStep(rest),
                                    LAMBDA s, r : Read(Statement(ix, << >>, << >>, OneStep(s)), r))
      [] ix = "if_else" -> Then(DecodeExpr(rest), LAMBDA e, r :
                             Then(ReadMany(DecodeArm, 2, r),
                                  LAMBDA arms, r2 : Read(Statement(ix, <<e>>, << >>, arms), r2)))
      [] OTHER -> Read(Statement(ix, << >>, << >>, << >>), rest))

-----------------------------------------------------------------------------
(* What the wire carries: the values of the types that the SDKs write.     *)

\* The numbers of a type; a NaN cannot be read.
Carried(ty) == IF ty \in Float THEN Floats \ {NaN} ELSE Values(ty)

WireNode ==
  {x \in [op : {"Value", "Const", "As"} \cup UnaryOp \cup BinaryOp \cup TernaryOp,
          ty : Type \cup {"none"}, v : Int] :
     CASE x.op = "Value" -> x.ty = "none" /\ x.v \in Byte
       [] x.op = "Const" -> x.ty \in Type /\ x.v \in Carried(x.ty)
       [] x.op = "As" -> x.ty \in Int_ /\ x.v = 0
       [] OTHER -> x.ty = "none" /\ x.v = 0}

\* A tree, from its root: due[k] operands are still to come behind k nodes.
Whole(e) ==
  LET due[k \in 0 .. Len(e)] == IF k = 0 THEN 1 ELSE due[k - 1] - 1 + Arity(e[k].op)
  IN due[Len(e)] = 0 /\ \A k \in 0 .. Len(e) - 1 : due[k] > 0

WireExpr == {e \in Seq(WireNode) : Whole(e)}

WireBinding ==
  {b \in [tag : 0 .. 67, args : Seq(Int), expr : Seq(WireNode)] :
     LET tys == BindingFields(b.tag) IN
     IF b.tag = 2 THEN b.args = << >> /\ Whole(b.expr)
     ELSE /\ b.expr = NoExpr /\ Len(b.args) = Len(tys)
          /\ \A k \in DOMAIN tys :
               b.args[k] \in IF tys[k] = "ValueType" THEN 0 .. 13 ELSE Carried(tys[k])}

WireField(f) ==
  {v \in [tag : 0 .. Len(f.kinds) - 1, v : Int] :
     LET kind == f.kinds[v.tag + 1] IN
     v.v \in CASE kind = "none" -> {0} [] kind = "frame" -> Byte [] OTHER -> Carried(kind)}

WirePatch ==
  {p \in [variant : 0 .. Len(PatchVariants) - 1, alt : Nat, vals : Seq([tag : Nat, v : Int])] :
     LET alts == Payload[PatchVariants[p.variant + 1]]
         fields == alts[p.alt + 1]
     IN /\ p.alt < Len(alts) /\ Len(p.vals) = Len(fields)
        /\ \A k \in DOMAIN fields : p.vals[k] \in WireField(fields[k])}

\* A step of one kind has nothing in the fields of another.
WireStep ==
  {s \in [kind : 0 .. 2, start : Byte, len : Byte, data : Seq(Byte),
          patches : Seq([offset : Carried("U16"), index : Byte]), patch : WirePatch \cup {NoPatch}] :
     /\ Len(s.data) \in Carried("U16") /\ Len(s.patches) \in Carried("U16")
     /\ s.kind # 1 => s.patches = << >>
     /\ IF s.kind = 2 THEN s.data = << >> /\ s.patch \in WirePatch ELSE s.patch = NoPatch}

WireArm ==
  {arm \in [kind : {"skip", "revert", "cpi"}, steps : Seq(WireStep)] :
     arm.kind # "cpi" => arm.steps = << >>}

=============================================================================
