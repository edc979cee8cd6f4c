-------------------------------- MODULE Planner --------------------------------
(***************************************************************************)
(* An SDK planner (FrameScratch and its LetBuilder) against the Frame it   *)
(* mirrors.                                                                *)
(*                                                                         *)
(* The client never reads the account: it predicts the index and the type  *)
(* each binding will get, puts those numbers in later expressions, and     *)
(* signs a unit (a transaction, or a bundle that lands as one) built from  *)
(* the predictions.  Between planning and landing anyone may land other    *)
(* transactions on a public Frame, and a unit may be lost.                 *)
(*                                                                         *)
(* The chain is FrameSSA, which FrameProgram is proved to implement.       *)
(* `sdk` is the client's language: the three planners differ in how they   *)
(* advance the cursor and the next index.                                  *)
(***************************************************************************)
EXTENDS FrameSSA, Sequences

CONSTANTS
  Sdk,       \* the languages of clients: some of "rust", "ts", "go"
  Account,   \* accounts a binding can load from
  Field,     \* Field[k]: the type of the field loaded from account k
  Content,   \* Content[k]: the byte its value is made of
  TapeLen,   \* tape_len of the Frame, which the planner is created with
  MaxUnit    \* bound: instructions and bindings of a unit (a message has 1232 bytes)

ASSUME PlannerAssumption ==
  /\ Sdk \subseteq {"rust", "ts", "go"}
  /\ Field \in [Account -> ValueType]
  /\ Content \in [Account \cup Key -> Byte]
  /\ TapeLen \in 1 .. MaxTapeLen
  /\ MaxUnit \in Nat
  /\ U8 \in Nat \ {0} /\ MaxBindingIndex <= U8

VARIABLES
  sdk,                              \* the client's language
  cursor, next_index, index_types,  \* the fields of FrameScratch
  accounts, bindings,               \* the LetBuilder of the batch being planned
  unit,                             \* instructions built, then still to run
  synced,                           \* refreshed, and nothing has landed since
  running,                          \* whose transaction is open: "nobody", "unit", "foreign"
  anchored                          \* what the unit's indices count from: "reset", "refresh", "no"

chainVars == <<committed, session, open, signers, ret>>
scratchVars == <<sdk, cursor, next_index, index_types>>
builderVars == <<accounts, bindings>>
plannerVars == <<scratchVars, builderVars, unit, synced, running, anchored>>
allVars == <<chainVars, plannerVars>>

\* Planned indices: JavaScript numbers in one SDK, so they may reach U8.
PlannedIndex == 0 .. U8

\* What the client means binding i to be: an account's content, as a type.
NoMeaning == [ty |-> NoType, account |-> NoType]
Meaning(ty, k) == [ty |-> ty, account |-> k]

\* Bytes a load of type ty from account k gives.
Loaded(ty, k) == [j \in 1 .. Size[ty] |-> Content[k]]

PrivateFrame == committed.authority \in Users

-----------------------------------------------------------------------------
(* Planning.                                                               *)

\* Slip: the TypeScript planner with the payload offset for the end.
EndAtPayload(c, ty) == c + 1

\* How the planner moves its cursor over a record.  The Rust planner takes
\* the payload offset plan_record_offsets returns for the end of the record.
EndCursor(c, ty) == IF sdk = "rust" THEN c + 1 ELSE c + 1 + Size[ty]

\* The index after n: u8::saturating_add, a JavaScript number, a wrapping uint8.
IndexAfter(n) ==
  CASE sdk = "rust" -> IF n + 1 < U8 THEN n + 1 ELSE U8 - 1
    [] sdk = "ts"   -> n + 1
    [] sdk = "go"   -> (n + 1) % U8

\* Slips: a plan without the tape check, and one without the index check.
PlanWithoutTape(ty) == next_index < Capacity(TapeLen)
PlanWithoutCap(ty) == EndCursor(cursor, ty) <= TapeLen

\* plan() accepts a binding of type ty.
PlanAccepts(ty) ==
  /\ next_index < Capacity(TapeLen)
  /\ EndCursor(cursor, ty) <= TapeLen

\* The client works on a unit that has not been sent.  Planning touches
\* nothing of the chain, so it need not interleave with open transactions.
Planning ==
  /\ running = "nobody"
  /\ Len(unit) + Len(bindings) < MaxUnit

\* LetBuilder::account_index: one entry of remaining per key.
Position(seq, k) == CHOOSE p \in 1 .. Len(seq) : seq[p] = k
Interned(k) ==
  IF \E p \in 1 .. Len(accounts) : accounts[p] = k THEN accounts ELSE Append(accounts, k)

\* plan(): the binding takes the next index, or nothing changes.
Plan(source, at, meaning) ==
  /\ IF PlanAccepts(meaning.ty)
     THEN /\ cursor' = EndCursor(cursor, meaning.ty)
          /\ next_index' = IndexAfter(next_index)
          /\ index_types' = [index_types EXCEPT ![next_index] = meaning]
          /\ bindings' = Append(bindings, [source |-> source, at |-> at,
                                           meaning |-> meaning, index |-> next_index])
          /\ UNCHANGED sdk
     ELSE UNCHANGED <<scratchVars, bindings>>
  /\ UNCHANGED <<chainVars, unit, synced, running, anchored>>

\* A binding that loads the field of account k; the builder keeps the account even
\* when plan() refuses the binding.
PlanLoad(k) ==
  /\ Planning
  /\ accounts' = Interned(k)
  /\ Plan("account", Position(Interned(k), k) - 1, Meaning(Field[k], k))

\* An expression over the value planned as i, of the type the planner recorded.
PlanEval(i) ==
  /\ Planning
  /\ i < U8 /\ index_types[i] # NoMeaning
  /\ Plan("value", i, index_types[i])
  /\ UNCHANGED accounts

\* Slip: a reset that keeps the types of the old session.
ResetScratchKeepsTypes ==
  cursor' = 0 /\ next_index' = 0 /\ UNCHANGED index_types

ResetScratch ==
  cursor' = 0 /\ next_index' = 0 /\ index_types' = [i \in PlannedIndex |-> NoMeaning]

\* ixReset(): the planner is cleared when the instruction is built.
IxReset ==
  /\ Planning /\ bindings = <<>>
  /\ ResetScratch /\ UNCHANGED sdk
  /\ unit' = Append(unit, [op |-> "reset", remaining |-> <<>>, bindings |-> <<>>])
  /\ UNCHANGED <<chainVars, builderVars, synced, running, anchored>>

\* build_ix(): the batch becomes an ifx_let, with the write authority of a
\* private Frame in front of the accounts.
IxLet ==
  /\ running = "nobody" /\ bindings # <<>>
  /\ unit' = Append(unit,
       [ op |-> "let",
         remaining |-> (IF PrivateFrame THEN <<committed.authority>> ELSE <<>>) \o accounts,
         bindings |-> bindings ])
  /\ accounts' = <<>> /\ bindings' = <<>>
  /\ UNCHANGED <<chainVars, scratchVars, synced, running, anchored>>

\* refreshFromChain() before a unit: the counters, but not the types, are
\* those of the account.  The Rust SDK has no refresh.
Refresh ==
  /\ sdk # "rust"
  /\ running = "nobody" /\ unit = <<>> /\ bindings = <<>>
  /\ cursor' = committed.used
  /\ next_index' = committed.count
  /\ synced' = TRUE
  /\ UNCHANGED <<chainVars, sdk, index_types, builderVars, unit, running, anchored>>

\* The unit expires or is lost; the planner has advanced all the same.
Drop ==
  /\ running = "nobody" /\ unit # <<>> /\ bindings = <<>>
  /\ unit' = <<>> /\ synced' = FALSE
  /\ UNCHANGED <<chainVars, scratchVars, builderVars, running, anchored>>

-----------------------------------------------------------------------------
(* The chain.                                                              *)

Land ==
  /\ running = "nobody" /\ unit # <<>> /\ bindings = <<>>
  /\ Begin(Users)
  /\ running' = "unit"
  /\ anchored' = IF synced THEN "refresh" ELSE "no"
  /\ UNCHANGED <<scratchVars, builderVars, unit, synced>>

\* After a step of the unit: `rest` is left to run, or the transaction failed.
Continues(rest) ==
  /\ IF ret'.err = "Ok" THEN unit' = rest /\ UNCHANGED <<synced, running>>
     ELSE unit' = <<>> /\ synced' = FALSE /\ running' = "nobody"
  /\ UNCHANGED <<scratchVars, builderVars>>

RunReset ==
  /\ running = "unit" /\ unit # <<>> /\ Head(unit).op = "reset"
  /\ IF Writable THEN Reset ELSE Fail("UnauthorizedFrameWrite")
  /\ anchored' = "reset"
  /\ Continues(Tail(unit))

\* Slip: the accounts of a let with the write authority still among them.
LetAccountsWithGate(remaining) == remaining

\* let_remaining_after_write_gate: the accounts the bindings index.
LetAccounts(remaining) ==
  IF session.authority \in Users THEN Tail(remaining) ELSE remaining

GatePasses(remaining) ==
  session.authority \in Users
    => remaining # <<>> /\ Head(remaining) = session.authority /\ Writable

\* The first binding left of the running ifx_let: evaluate it, append it.
RunBinding ==
  /\ running = "unit" /\ unit # <<>> /\ Head(unit).op = "let"
  /\ LET ix == Head(unit)
         b == Head(ix.bindings)
         ty == b.meaning.ty
         rest == IF Len(ix.bindings) = 1 THEN Tail(unit)
                 ELSE <<[ix EXCEPT !.bindings = Tail(@)]>> \o Tail(unit)
     IN /\ IF ~ GatePasses(ix.remaining) THEN Fail("UnauthorizedFrameWrite")
           ELSE IF b.source = "account"
           THEN IF b.at >= Len(LetAccounts(ix.remaining)) THEN Fail("AccountIndexOutOfRange")
                ELSE Bind(ty, Loaded(ty, LetAccounts(ix.remaining)[b.at + 1]))
           ELSE IF b.at >= session.count THEN Fail("InvalidValueIndex")
           ELSE IF session.binds[b.at].ty # ty THEN Fail("LoadTypeMismatch")
           ELSE Bind(ty, session.binds[b.at].bytes)
        /\ Continues(rest)
  /\ UNCHANGED anchored

Finish ==
  /\ running = "unit" /\ unit = <<>>
  /\ Commit
  /\ running' = "nobody" /\ synced' = FALSE
  /\ UNCHANGED <<scratchVars, builderVars, unit, anchored>>

\* Another transaction on the same Frame: whoever may write it, resets it
\* or adds a binding.  A longer one leaves what several of these leave.
ForeignBegin(S) ==
  /\ running = "nobody"
  /\ Begin(S)
  /\ running' = "foreign" /\ anchored' = "no" /\ synced' = FALSE
  /\ UNCHANGED <<scratchVars, builderVars, unit>>

ForeignStep ==
  /\ running = "foreign" /\ session = committed /\ Writable
  /\ \/ Reset
     \/ \E k \in Account : Bind(Field[k], Loaded(Field[k], k))
  /\ running' = IF ret'.err = "Ok" THEN "foreign" ELSE "nobody"
  /\ UNCHANGED <<scratchVars, builderVars, unit, synced, anchored>>

ForeignCommit ==
  /\ running = "foreign"
  /\ Commit
  /\ running' = "nobody"
  /\ UNCHANGED <<scratchVars, builderVars, unit, synced, anchored>>

-----------------------------------------------------------------------------
PlannerInit ==
  /\ sdk \in Sdk
  /\ \E a \in Key \ {DefaultKey} : committed = NewSession(a, TapeLen, 0)
  /\ session = committed /\ open = FALSE /\ signers = {} /\ ret = NoReply
  /\ cursor = 0 /\ next_index = 0
  /\ index_types = [i \in PlannedIndex |-> NoMeaning]
  /\ accounts = <<>> /\ bindings = <<>>
  /\ unit = <<>> /\ synced = FALSE /\ running = "nobody" /\ anchored = "no"

PlannerNext ==
  \/ \E k \in Account : PlanLoad(k)
  \/ \E i \in PlannedIndex : PlanEval(i)
  \/ IxReset \/ IxLet \/ Refresh \/ Drop
  \/ Land \/ RunReset \/ RunBinding \/ Finish
  \/ \E S \in SUBSET Users : ForeignBegin(S)
  \/ ForeignStep \/ ForeignCommit

PlannerSpec == PlannerInit /\ [][PlannerNext]_allVars

-----------------------------------------------------------------------------
(* Correctness.                                                            *)

\* Types of the planner's state; the chain's are those of FrameSSA.
PlannerTypeOK ==
  /\ cursor \in 0 .. TapeLen /\ next_index \in PlannedIndex
  /\ \A i \in PlannedIndex : index_types[i].ty \in ValueType \cup {NoType}
  /\ \A p \in 1 .. Len(bindings) : bindings[p].index \in PlannedIndex
  /\ running \in {"nobody", "unit", "foreign"}
  /\ running = "nobody" <=> ~ open
  /\ anchored \in {"no", "refresh", "reset"}
  /\ synced \in BOOLEAN

\* A binding that lands after the unit's own reset, or on the session the
\* planner was refreshed from, gets the index and the type that were planned
\* for it and holds the content of the account the client named: whatever
\* others landed in between, the dedupe of accounts, the write authority in
\* front of them and the expressions over earlier indices notwithstanding
\* (FrameScratch::plan, LetBuilder, let_remaining_after_write_gate).
PlannedIsBound ==
  [][ (/\ running = "unit" /\ unit # <<>> /\ Head(unit).op = "let"
       /\ anchored # "no" /\ ret'.err = "Ok" /\ ret' # ret)
      => LET b == Head(Head(unit).bindings) IN
         /\ ret'.index = b.index
         /\ ret'.ty = b.meaning.ty
         /\ (anchored = "reset" \/ b.source = "account")
              => ret'.bytes = Loaded(b.meaning.ty, b.meaning.account) ]_allVars

\* docs/client-sdks.md, shared principle 3: a unit that plan() accepted does
\* not fail on chain for want of tape.
PlanFitsTape == anchored # "no" => ret.err # "TapeOutOfBounds"

\* docs/client-sdks.md, shared principle 3: a unit that plan() accepted does
\* not fail on chain for want of indices.
PlanFitsIndex == anchored # "no" => ret.err # "IndexCapReached"

\* The expressions and accounts of a unit that starts from its own reset are
\* all there when it runs: no index is unbound or of another type, no
\* account is missing (infer_binding_ty, account_index).
PlanReads ==
  anchored = "reset"
    => ret.err \notin {"InvalidValueIndex", "LoadTypeMismatch", "AccountIndexOutOfRange"}

=============================================================================
