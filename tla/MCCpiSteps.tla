------------------------------ MODULE MCCpiSteps ------------------------------
(* Instances of CpiSteps: two accounts; clients that build one step from   *)
(* any kind of layout over any list of up to three, and clients that merge *)
(* two steps over lists of up to four.                                     *)
EXTENDS CpiSteps

CONSTANTS a, b

MCAccount == {a, b}
MCWidth == [u8 |-> 1, u16 |-> 2, u64 |-> 3, key |-> 4]
MCPlace == {<<0, 2>>, <<1, 3>>, <<2, 0>>}

Instr(p, c, s, k) == [program |-> p, code |-> c, shape |-> s, keys |-> k]

CreateAccount == Instr(System, 0, "create", <<a, b>>)
Allocate == Instr(System, 8, "amount", <<b>>)
TransferChecked == Instr(Token, 12, "checked", <<a, b>>)
InitializeMint2 == Instr(Token, 20, "mint", <<b>>)
InitializeMultisig2 == Instr(Token, 19, "multisig", <<b>>)
CheckedWithFee == Instr(Token2022, 2601, "fee", <<a>>)
Multisig2022 == Instr(Token2022, 2, "multisig", <<a>>)
FeeConfig == Instr(Token2022, 2605, "set_fee", <<a>>)
Withdraw == Instr(Stake, 4, "amount", <<a>>)

MCVariant ==
  { [program |-> Token, code |-> 45, shape |-> "unwrap"],
    [program |-> Stake, code |-> 5, shape |-> "unit"] }

Clients(sdks, bound, templates, variants, places, maxSteps, maxList) ==
  [ sdk : sdks, types : bound, templates : templates, variants : {variants},
    places : {places}, maxSteps : {maxSteps}, maxList : {maxList} ]

\* One step of any layout.
MCOneStep ==
  Clients({"ts", "rust"}, {<<"u64", "u8">>, <<"u8", "key">>, <<"u16">>},
    {{CreateAccount, Allocate}, {TransferChecked, InitializeMint2, InitializeMultisig2},
     {CheckedWithFee, FeeConfig, Multisig2022}, {Withdraw}}, MCVariant, MCPlace, 1, 4)

\* Two steps that share a list, of two programs or of the same.
MCArm ==
  Clients({"ts", "rust"}, {<<"u64", "u8">>},
    {{Allocate, TransferChecked}, {CreateAccount, Allocate}}, {}, {}, 2, 5)

MCClient == MCOneStep \cup MCArm

\* The structured builder of the Go SDK over a shared list.
MCGo == Clients({"go"}, {<<"u64">>}, {{CreateAccount, Allocate}}, {}, {}, 2, 5)

\* A new account.
MCInferred == Clients({"ts"}, {<<"u64">>}, {{CreateAccount}}, {}, {}, 1, 3)

=============================================================================
