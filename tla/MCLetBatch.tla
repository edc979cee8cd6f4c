------------------------------- MODULE MCLetBatch -------------------------------
(* Instance of LetBatch: an account that changes as a Token-2022 account and *)
(* mint may, one that may be anything; lets with up to two accounts, the   *)
(* Frame and the program among them.        *)
EXTENDS LetBatch, TLC

CONSTANTS acct, mint
MCAccount == {acct, mint}

State(family, program, form, exts, set, version) ==
  [family |-> family, program |-> program, form |-> form, exts |-> exts, set |-> set, version |-> version]
Token22(form, exts, set, version) == State("token22", "token22", form, exts, set, version)

\* What a Token-2022 account may be from one let to the next.
MovingState ==
  {Token22("account", {"fee_amount"}, {"delegate"}, 1), Token22("account", {}, {}, 2),
   Token22("mint", {"fee_config"}, {"mint_authority"}, 1)}

\* All that the loaders tell apart: forms, blank data, a multisig, every
\* stake and loader state, and another program's account that looks the same.
EveryState == MovingState \cup
  {Token22("mint", {"fee_config", "default_state"}, {"freeze_authority"}, 2),
   Token22("mint", {}, {}, 2), Token22("account", {"fee_amount"}, {}, 2)} \cup
  {Token22("blank_account", {}, {}, 1), Token22("blank_mint", {}, {}, 1), Token22("multisig", {}, {}, 1)}
  \cup {State("token", "token", f, {}, o, 1) :
          f \in TokenForm, o \in {{}, {"delegate", "close_authority", "is_native", "mint_authority"}}}
  \cup {State("stake", "stake", f, {}, {}, 1) : f \in FormsOf(StakeForm)}
  \cup {State("loader", "loader", f, {}, o, 1) : f \in FormsOf(LoaderForm), o \in {{}, {"upgrade_authority"}}}
  \cup {State(f, "other", "stake", {}, {}, 1) : f \in {"stake"}}
  \cup {State(s.family, "other", s.form, s.exts, s.set, s.version) : s \in MovingState}

MCAccountState == acct :> MovingState @@ mint :> EveryState

MCNewerFrom == [v \in 0 .. 2 |-> v - 1]
MCAtaOf == [v \in 0 .. 2 |-> v = 1]

Token22Kind(form, fields) == Kinds("token22", form, fields)
MCBoundKind ==
  Token22Kind("account", {"amount", "fee_withheld"})
  \cup Token22Kind("mint", {"supply", "fee_basis_points", "fee_mint_withheld"})

=============================================================================
