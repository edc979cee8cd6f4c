-------------------------------- MODULE LetBatch --------------------------------
(***************************************************************************)
(* The batch of ifx_let: bindings one after the other, each read under a   *)
(* borrow of its own and appended to the tape.  What the batch has         *)
(* unpacked of a Token-2022 account or mint it keeps in LetBatchCache, by  *)
(* the index of the account among those passed, and uses for later         *)
(* bindings.  A let may read its own Frame too, through the tape, as       *)
(* account metadata or as raw account data.                                *)
(*                                                                         *)
(* Between two lets the transaction's other instructions change accounts:  *)
(* balances, extensions, and even what an account is; and epochs pass.     *)
(* Rollback is in FrameProgram: a failed let ends the transaction here,    *)
(* and the ledger of the next one may be any.                              *)
(***************************************************************************)
EXTENDS AccountLoads, Sequences

CONSTANTS
  Other,         \* accounts other than the Frame and the program
  Frame, Ifx,    \* the session's Frame account and the program that owns it
  AccountState,  \* account -> what it may be
  BoundKind,     \* kinds of binding in a let
  MaxRemaining,  \* accounts passed to a let
  MaxTape,       \* bindings of a session
  MaxEpoch,      \* last epoch
  NewerFrom      \* version -> epoch from which its newer fee is charged

ASSUME LetBatchAssumption ==
  /\ Frame \notin Other /\ Ifx \notin Other /\ Frame # Ifx
  /\ Ifx \notin DOMAIN FormsBy
  /\ BoundKind \subseteq Kind
  /\ MaxRemaining \in Nat /\ MaxTape \in Nat /\ MaxEpoch \in Nat
  /\ \A a \in Other : \A s \in AccountState[a] :
       /\ IsState(s)
       /\ s.version \in DOMAIN AtaOf /\ s.version \in DOMAIN NewerFrom

VARIABLES
  ledger,     \* account -> what it is and holds
  epoch,      \* the clock's epoch
  letting,    \* a let is running
  remaining,  \* its remaining_accounts
  cache,      \* its LetBatchCache, empty when none runs
  batch,      \* what it has bound so far: how, from which account, which value
  count,      \* bindings of earlier lets of the session
  last        \* error code of the last instruction, "Ok" if it succeeded

letVars == <<ledger, epoch, letting, remaining, cache, batch, count, last>>

\* The tuples the cache keeps, in the order ensure_token2022_* returns them.
CachedFields == [account_base |-> <<"amount", "delegated_amount", "state">>,
                 account_fee |-> <<"fee_withheld">>,
                 mint_base |-> <<"supply", "decimals">>,
                 mint_fee |-> <<"fee_basis_points", "fee_maximum", "fee_mint_withheld">>,
                 mint_default |-> <<"default_account_state">>]
CacheField == DOMAIN CachedFields

\* The cached kinds, the tuple each is in and its place there.
PlaceOf == [amount |-> <<"account_base", 1>>, delegated_amount |-> <<"account_base", 2>>,
            state |-> <<"account_base", 3>>, fee_withheld |-> <<"account_fee", 1>>,
            supply |-> <<"mint_base", 1>>, decimals |-> <<"mint_base", 2>>,
            fee_basis_points |-> <<"mint_fee", 1>>, fee_maximum |-> <<"mint_fee", 2>>,
            fee_mint_withheld |-> <<"mint_fee", 3>>, default_account_state |-> <<"mint_default", 1>>]
CachedKind == {k \in Kind : k.src = "token22" /\ k.field \in DOMAIN PlaceOf}

\* Two kinds that read no account.
OwnCount == [src |-> "frame", form |-> "any", field |-> "index_count"]
ClockEpoch == [src |-> "sysvar", form |-> "any", field |-> "clock_epoch"]

Ledger == {l \in [Other -> UNION {AccountState[a] : a \in Other}] :
             \A a \in Other : l[a] \in AccountState[a]}

Index == 0 .. MaxRemaining - 1
EmptyCache == [f \in CacheField |-> [i \in Index |-> None]]

-----------------------------------------------------------------------------
(* Loads.                                                                  *)

\* The AccountInfo of an account: the Frame's is all its own.
FrameState == [family |-> "ifx", program |-> Ifx, form |-> "frame", exts |-> {}, set |-> {}, version |-> 1]
ProgramState == [FrameState EXCEPT !.family = "loader", !.program = "loader", !.form = "program"]
InfoOf(a) ==
  LET s == IF a = Frame THEN FrameState ELSE IF a = Ifx THEN ProgramState ELSE ledger[a]
  IN [ family |-> s.family, program |-> s.program, form |-> s.form, exts |-> s.exts,
       set |-> s.set, version |-> s.version, key |-> a ]

\* A kind without the cache: load_* through get_remaining.
Fresh(k, i) ==
  IF i >= Len(remaining) THEN Err("InvalidAccountIndex") ELSE Load(k, InfoOf(remaining[i + 1]))

\* Slip: one slot for all accounts.
OneSlot(i) == 0

\* LetBatchCache::account_slot, mint_slot.
Slot(i) == i

\* Slip: an unpack fills its slot from the last field.
TupleFromLast(f, a) ==
  LET fields == CachedFields[f] IN [p \in DOMAIN fields |-> Contents(a, fields[Len(fields) + 1 - p])]

\* The tuple of a fresh unpack.
TupleOf(f, a) == [p \in DOMAIN CachedFields[f] |-> Contents(a, CachedFields[f][p])]

\* ensure_token2022_*: the tuple in the slot, or what the account holds.
Ensure(k, i) ==
  LET f == PlaceOf[k.field][1]
      out == Fresh(k, i)
  IN IF cache[f][Slot(i)] # None THEN Ok(cache[f][Slot(i)])
     ELSE IF out.err # "Ok" THEN out ELSE Ok(TupleOf(f, InfoOf(remaining[i + 1])))

\* What a binding of kind k through index i gives, eval_binding.
Evaluated(k, i) ==
  IF k \notin CachedKind THEN Fresh(k, i)
  ELSE LET out == Ensure(k, i) IN
       IF out.err # "Ok" THEN out ELSE Ok(out.v[PlaceOf[k.field][2]])

index_count == count + Len(batch)

\* Of AccountDataSlice: account i must be owned by the program whose key is
\* account j's, and the slice inside its data.
SliceError(i, j, inside) ==
  IF i >= Len(remaining) \/ j >= Len(remaining) THEN "InvalidAccountIndex"
  ELSE IF InfoOf(remaining[i + 1]).program # remaining[j + 1] THEN "AccountOwnerMismatch"
  ELSE IF ~ inside THEN "AccountDataTooShort" ELSE "Ok"

\* AccountDataSlice over the Frame's own data, at its index count:
\* eval_binding holds a shared borrow, and borrows again.
FrameSlice(i, j, inside) == [err |-> SliceError(i, j, inside), v |-> index_count]

-----------------------------------------------------------------------------
(* Handlers.                                                               *)

\* The let fails and the transaction with it; the next one starts a session.
Failed(err) ==
  /\ letting' = FALSE /\ remaining' = <<>> /\ cache' = EmptyCache
  /\ batch' = <<>> /\ count' = 0 /\ last' = err
  /\ UNCHANGED <<ledger, epoch>>

\* Slip: a value is appended to a full session.
AppendAnyway(how, a, v, filled) ==
  /\ batch' = Append(batch, [how |-> how, account |-> a, v |-> v])
  /\ cache' = filled /\ last' = "Ok"
  /\ UNCHANGED <<ledger, epoch, letting, remaining, count>>

AppendValue(how, a, v, filled) ==
  IF index_count = MaxTape THEN Failed("IndexCapReached")
  ELSE /\ batch' = Append(batch, [how |-> how, account |-> a, v |-> v])
       /\ cache' = filled /\ last' = "Ok"
       /\ UNCHANGED <<ledger, epoch, letting, remaining, count>>

LetEnter(accounts) ==
  /\ ~ letting /\ letting' = TRUE
  /\ remaining' = accounts /\ last' = "Ok"
  /\ UNCHANGED <<ledger, epoch, cache, batch, count>>

\* A binding that reads an account.
BindKind(k, i) ==
  /\ letting
  /\ LET out == Evaluated(k, i) IN
     IF out.err # "Ok" THEN Failed(out.err)
     ELSE AppendValue(k, remaining[i + 1], out.v,
            IF k \in CachedKind
              THEN [cache EXCEPT ![PlaceOf[k.field][1]][Slot(i)] = Ensure(k, i).v]
              ELSE cache)

BindOwnSlice(i, j, inside) ==
  /\ letting
  /\ i < Len(remaining) => remaining[i + 1] = Frame
  /\ LET out == FrameSlice(i, j, inside) IN
     IF out.err # "Ok" THEN Failed(out.err) ELSE AppendValue(OwnCount, Frame, out.v, cache)

\* FrameIndexCount.
BindIndexCount == letting /\ AppendValue(OwnCount, Frame, index_count, cache)

\* SysvarClockEpoch.
BindEpoch == letting /\ AppendValue(ClockEpoch, Frame, epoch, cache)

\* The cache is a local of execute_let.
LetReturn ==
  /\ letting /\ letting' = FALSE
  /\ remaining' = <<>> /\ batch' = <<>> /\ count' = index_count /\ last' = "Ok"
  /\ cache' = EmptyCache
  /\ UNCHANGED <<ledger, epoch>>

ResetFrame ==
  /\ ~ letting /\ count' = 0 /\ last' = "Ok"
  /\ UNCHANGED <<ledger, epoch, letting, remaining, cache, batch>>

\* Another instruction leaves an account in another state.
AccountMoves(a, s) ==
  /\ ~ letting
  /\ ledger' = [ledger EXCEPT ![a] = s] /\ last' = "Ok"
  /\ UNCHANGED <<epoch, letting, remaining, cache, batch, count>>

EpochPasses ==
  /\ ~ letting /\ epoch < MaxEpoch /\ epoch' = epoch + 1 /\ last' = "Ok"
  /\ UNCHANGED <<ledger, letting, remaining, cache, batch, count>>

-----------------------------------------------------------------------------
LetBatchInit ==
  /\ ledger \in Ledger /\ epoch = 0
  /\ letting = FALSE /\ remaining = <<>> /\ cache = EmptyCache
  /\ batch = <<>> /\ count = 0 /\ last = "Ok"

LetBatchNext ==
  \/ \E n \in 0 .. MaxRemaining : \E accounts \in [1 .. n -> Other \cup {Frame, Ifx}] :
       LetEnter(accounts)
  \/ \E k \in BoundKind, i \in Index : BindKind(k, i)
  \/ \E i \in Index, j \in Index, inside \in BOOLEAN : BindOwnSlice(i, j, inside)
  \/ BindIndexCount \/ BindEpoch \/ LetReturn \/ ResetFrame \/ EpochPasses
  \/ \E a \in Other : \E s \in AccountState[a] : AccountMoves(a, s)

LetBatchSpec == LetBatchInit /\ [][LetBatchNext]_letVars

-----------------------------------------------------------------------------
(* Correctness.                                                            *)

\* The session is within its capacity, and nothing of a let is left when it
\* is over.
LetBatchTypeOK ==
  /\ ledger \in Ledger /\ epoch \in 0 .. MaxEpoch /\ letting \in BOOLEAN
  /\ remaining \in Seq(Other \cup {Frame, Ifx}) /\ Len(remaining) <= MaxRemaining
  /\ Len(batch) \in Nat /\ batch = [p \in 1 .. Len(batch) |-> batch[p]]
  /\ cache = [f \in CacheField |-> [i \in Index |-> cache[f][i]]]
  /\ count \in Nat /\ index_count <= MaxTape
  /\ (~ letting => remaining = <<>> /\ batch = <<>> /\ cache = EmptyCache)

\* The account is what a kind says it reads, and the field is there.
Genuine(k, a) ==
  \/ k.src = "info"
  \/ /\ a.program = k.src /\ a.family = k.src
     /\ a.form \in CASE k.form = "any" -> FormsOf(StakeForm) \cup FormsOf(LoaderForm)
                      [] k.form = "meta" -> {"initialized", "stake"}
                      [] OTHER -> {k.form}
     /\ k.field \in DOMAIN ExtensionOf => ExtensionOf[k.field] \in a.exts
     /\ k.field \in Optional => k.field \in a.set

\* Every kind answers exactly for the accounts it is documented for, with the
\* field it is named for, in the type the tape will say: no loader takes an
\* account of another program, form or state, blank data or a field that is
\* not there (let_binding_exec.rs, eval_binding and the load_* functions;
\* LetBinding::value_type).
LoadIsMeaning ==
  letting /\ batch = <<>> =>
    \A i \in 0 .. Len(remaining) - 1, k \in Kind :
      LET a == InfoOf(remaining[i + 1])
          out == Evaluated(k, i)
      IN /\ out.err = "Ok" <=> Genuine(k, a)
         /\ out.err = "Ok" => out.v = Contents(a, k.field)
         /\ value_type(k.field) = EncodedType(k.field)

\* The cache is invisible: whatever has been unpacked so far, by whichever
\* account index and field, the next binding succeeds, fails and answers as
\* it would with no cache (let_binding_exec.rs, ensure_token2022_*).
CacheIsTransparent ==
  letting => \A k \in CachedKind, i \in Index : Evaluated(k, i) = Fresh(k, i)

\* A let binds one snapshot of the chain: all it has bound is what the
\* accounts and the clock still hold, so two bindings of one field are
\* equal, through whichever index their account was passed.  Its own count
\* alone grows while a let runs.
BatchIsSnapshot ==
  \A p \in 1 .. Len(batch) :
    LET b == batch[p] IN
    CASE b.how = ClockEpoch -> b.v = epoch
      [] b.how = OwnCount -> TRUE
      [] OTHER -> Load(b.how, InfoOf(b.account)) = Ok(b.v)

\* What the cache keeps is what the account at that index still holds, and the
\* account would still be unpacked for it.
CacheIsCurrent ==
  \A f \in CacheField, i \in Index :
    cache[f][i] # None =>
      /\ i < Len(remaining)
      /\ cache[f][i] = TupleOf(f, InfoOf(remaining[i + 1]))
      /\ \A k \in CachedKind : PlaceOf[k.field][1] = f => Fresh(k, i).err = "Ok"

\* The inductive invariant: types, what the batch has bound, and what makes
\* the cache invisible (LetBatchCache).
LetBatchInv ==
  LetBatchTypeOK /\ CacheIsCurrent /\ BatchIsSnapshot

\* The fee the token program charges in this epoch: the older one until the
\* epoch of the newer one.
ChargedFee(a) ==
  <<IF epoch >= NewerFrom[a.version] THEN "newer" ELSE "older", "fee_basis_points", a.version>>

\* A mint's fee binds as the fee charged now ("Token-2022 mint current
\* transfer_fee_basis_points", wire/let_binding.rs:66).
BoundFeeIsCurrent ==
  \A p \in 1 .. Len(batch) :
    batch[p].how.field = "fee_basis_points" => batch[p].v = ChargedFee(InfoOf(batch[p].account))

=============================================================================
