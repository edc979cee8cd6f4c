------------------------------ MODULE AccountLoads ------------------------------
(***************************************************************************)
(* What one binding of ifx_let reads from one account.  A loader checks    *)
(* the account's owner, then its data length, unpacks the data with the    *)
(* owner's own library, checks the variant, and takes a field.             *)
(*                                                                         *)
(* A kind of binding is a record: whose account, which form of it, which   *)
(* field.  The contents of an account are abstracted to a version number:  *)
(* field f of version n holds <<f, n>>, so that two fields never look      *)
(* alike and no field looks the same in two versions.                      *)
(***************************************************************************)
EXTENDS Integers, FiniteSets

CONSTANTS None,   \* model value: no value
          AtaOf   \* version -> is the account the derived one of its owner and mint

-----------------------------------------------------------------------------
(* Binding kinds.                                                          *)

Kinds(src, form, fields) == [src : {src}, form : {form}, field : fields]

AccountFields == {"amount", "delegated_amount", "state", "mint", "owner",
                  "delegate", "close_authority", "is_native", "owner_is_derived"}
MintFields == {"supply", "decimals", "is_initialized", "mint_authority", "freeze_authority"}
MetaFields == {"lockup_unix_timestamp", "lockup_epoch", "lockup_custodian",
               "staker", "withdrawer", "rent_exempt_reserve"}
StakeFields == {"stake", "activation_epoch", "deactivation_epoch", "voter",
                "credits_observed", "stake_flags"}
InfoFields == {"lamports", "data_len", "key", "is_signer", "is_writable",
               "program_owner", "executable", "rent_epoch"}

\* Kinds that read an account.
Kind ==
  Kinds("token", "account", AccountFields) \cup Kinds("token", "mint", MintFields)
  \cup Kinds("token22", "account", AccountFields \cup {"fee_withheld"})
  \cup Kinds("token22", "mint", MintFields \cup
         {"fee_basis_points", "fee_maximum", "fee_mint_withheld", "default_account_state"})
  \cup Kinds("stake", "any", {"account_state"})
  \cup Kinds("stake", "meta", MetaFields) \cup Kinds("stake", "stake", StakeFields)
  \cup Kinds("loader", "any", {"program_data_tag"})
  \cup Kinds("loader", "program_data", {"upgrade_authority"})
  \cup Kinds("loader", "program", {"programdata_address"})
  \cup Kinds("info", "any", InfoFields)

\* Fields that may be empty, and the extension each extension field is in.
Optional == {"delegate", "close_authority", "is_native",
             "mint_authority", "freeze_authority", "upgrade_authority"}
ExtensionOf == [fee_withheld |-> "fee_amount", fee_basis_points |-> "fee_config",
                fee_maximum |-> "fee_config", fee_mint_withheld |-> "fee_config",
                default_account_state |-> "default_state"]

\* LetBinding::value_type, the type written on the tape.
value_type(f) ==
  CASE f \in {"lockup_unix_timestamp"} -> "I64"
    [] f \in {"state", "decimals", "default_account_state", "account_state", "stake_flags"} -> "U8"
    [] f \in {"fee_basis_points"} -> "U16"
    [] f \in {"data_len", "program_data_tag"} -> "U32"
    [] f \in {"is_signer", "is_writable", "executable", "is_initialized", "owner_is_derived"} -> "Bool"
    [] f \in {"key", "program_owner", "mint", "owner", "delegate", "close_authority", "staker",
              "withdrawer", "voter", "lockup_custodian", "mint_authority", "freeze_authority",
              "upgrade_authority", "programdata_address"} -> "Pubkey"
    [] OTHER -> "U64"

\* The type eval_binding encodes the value with, the one the libraries give it.
EncodedType(f) ==
  CASE f \in {"amount", "delegated_amount", "supply", "is_native", "fee_withheld", "fee_maximum",
              "fee_mint_withheld", "stake", "activation_epoch", "deactivation_epoch", "lockup_epoch",
              "rent_exempt_reserve", "credits_observed", "lamports", "rent_epoch"} -> "U64"
    [] f \in {"lockup_unix_timestamp"} -> "I64"
    [] f \in {"data_len", "program_data_tag"} -> "U32"
    [] f \in {"fee_basis_points"} -> "U16"
    [] f \in {"state", "decimals", "default_account_state", "account_state", "stake_flags"} -> "U8"
    [] f \in {"is_signer", "is_writable", "executable", "is_initialized", "owner_is_derived"} -> "Bool"
    [] OTHER -> "Pubkey"

-----------------------------------------------------------------------------
(* Accounts.                                                               *)

\* What an account's data is.  Blank data is allocated and all zero.
TokenForm == {"account", "mint", "blank_account", "blank_mint", "multisig"}
StakeForm == <<"uninitialized", "initialized", "stake", "rewards_pool">>
LoaderForm == <<"uninitialized", "buffer", "program", "program_data">>
FormsOf(seq) == {seq[t] : t \in DOMAIN seq}
TagOf(seq, form) == (CHOOSE t \in DOMAIN seq : seq[t] = form) - 1

\* The programs whose data is read, and the forms each gives its data.
FormsBy == [token |-> TokenForm, token22 |-> TokenForm,
            stake |-> FormsOf(StakeForm), loader |-> FormsOf(LoaderForm)]

\* A program writes its own forms only; Token has no extensions.
IsState(s) ==
  /\ s.program \in DOMAIN FormsBy => s.family = s.program
  /\ s.family \in DOMAIN FormsBy => s.form \in FormsBy[s.family]
  /\ IsFiniteSet(s.exts) /\ (s.program = "token" => s.exts = {})

BaseLen == [account |-> 165, mint |-> 82]
StakeLen == 200

\* An extended mint is padded to the length of an account before its
\* extensions, so it is never as short as an account without any.
DataLen(a) ==
  CASE a.form \in {"account", "blank_account"} -> 165 + 13 * Cardinality(a.exts)
    [] a.form \in {"mint", "blank_mint"} ->
         IF a.exts = {} THEN 82 ELSE 166 + 36 * Cardinality(a.exts)
    [] a.form = "multisig" -> 355
    [] a.family = "stake" -> StakeLen
    [] a.family = "loader" -> 36
    [] OTHER -> 0

-----------------------------------------------------------------------------
(* Loads.                                                                  *)

Ok(v) == [err |-> "Ok", v |-> v]
Err(err) == [err |-> err, v |-> None]

\* Slip: a stake account of any owner.
OwnerOkButStake(k, a) == k.src \in {"info", "stake"} \/ a.program = k.src

\* require_owner_bytes.
OwnerOk(k, a) == k.src = "info" \/ a.program = k.src

LengthOk(k, a) ==
  CASE k.src = "token" -> DataLen(a) = BaseLen[k.form]
    [] k.src = "token22" -> DataLen(a) >= BaseLen[k.form]
    [] k.src = "stake" -> DataLen(a) = StakeLen
    [] OTHER -> TRUE

\* The libraries refuse data of another form, and blank data as uninitialized.
Unpacks(k, a) ==
  CASE k.src \in {"token", "token22"} -> a.form = k.form
    [] k.src \in {"stake", "loader"} -> a.family = k.src
    [] OTHER -> TRUE

UnpackError == [token |-> "SplTokenUnpackFailed", token22 |-> "SplToken2022UnpackFailed",
                stake |-> "StakeUnpackFailed", loader |-> "InvalidInstructionData"]

\* require_stake_meta, require_stake_delegation, require_stake_record,
\* require_program_data, require_program.
StateOk(k, a) ==
  CASE k.form = "meta" -> a.form \in {"initialized", "stake"}
    [] k.form \in {"stake", "program", "program_data"} -> a.form = k.form
    [] OTHER -> TRUE

StateError == [stake |-> "StakeStateMismatch", loader |-> "InvalidInstructionData"]

\* What a field of an account's data is.  Of the two fees of a fee
\* configuration, the newer one.
Contents(a, f) ==
  CASE f = "is_initialized" -> TRUE
    [] f = "owner_is_derived" -> AtaOf[a.version]
    [] f = "account_state" -> TagOf(StakeForm, a.form)
    [] f = "program_data_tag" -> TagOf(LoaderForm, a.form)
    [] f = "data_len" -> DataLen(a)
    [] f = "program_owner" -> a.program
    [] f = "key" -> a.key
    [] f \in {"fee_basis_points", "fee_maximum"} -> <<"newer", f, a.version>>
    [] OTHER -> <<f, a.version>>

\* The field of what was unpacked: get_extension, encode_coption_*,
\* encode_option_pubkey.
FieldOf(k, a) ==
  IF k.field \in DOMAIN ExtensionOf /\ ExtensionOf[k.field] \notin a.exts
    THEN Err("Token2022ExtensionNotPresent")
  ELSE IF k.field \in Optional /\ k.field \notin a.set THEN Err("SplMintOptionEmpty")
  ELSE Ok(Contents(a, k.field))

\* load_spl_token_*, load_spl_token_2022_*, load_stake_state,
\* load_upgradeable_state, load_account_*, and what follows them.
Load(k, a) ==
  IF ~ OwnerOk(k, a) THEN Err("AccountOwnerMismatch")
  ELSE IF ~ LengthOk(k, a) THEN Err("AccountDataLenMismatch")
  ELSE IF ~ Unpacks(k, a) THEN Err(UnpackError[k.src])
  ELSE IF ~ StateOk(k, a) THEN Err(StateError[k.src])
  ELSE FieldOf(k, a)

=============================================================================
