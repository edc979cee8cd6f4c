----------------------------- MODULE FrameProgram -----------------------------
(***************************************************************************)
(* The Ifx instructions that touch one Frame address, run by transactions. *)
(*                                                                         *)
(* A transaction carries a set of signers and executes instructions one    *)
(* after the other on a working copy of the account.  Every error return   *)
(* of a handler fails the whole transaction and the runtime discards the   *)
(* copy.  Transactions that write the same account are serialised by the   *)
(* runtime's account locks, so there is one at a time here; who sends it,  *)
(* who signs it and what it contains is arbitrary.                         *)
(*                                                                         *)
(* `height` is the invocation stack height a handler sees: 1 for an        *)
(* instruction of the transaction message, 2 for any nested invocation     *)
(* (another program, or patched_cpi / if_else targeting Ifx itself).       *)
(***************************************************************************)
EXTENDS FrameTape

CONSTANTS
  Users,       \* on-curve keys: the only ones that can sign a transaction
  DefaultKey,  \* Pubkey::default()
  NoKey,       \* remaining_accounts is empty
  Payer,       \* the payer in the seeds of this Frame address
  NoType,      \* no type in a reply
  MaxIxPerTx   \* bound: steps of one transaction; a message has 1232 bytes,
               \* so it is far below the 2^64 values of a generation

ASSUME KeysAssumption ==
  /\ Users \subseteq Key /\ Payer \in Users
  /\ DefaultKey \in Key \ Users
  /\ NoKey \notin Key
  /\ MaxIxPerTx \in Nat /\ MaxIxPerTx < U64

ASSUME NoValueAssumption ==
  /\ NoFrame \notin FrameRecord
  /\ NoType \notin ValueType

VARIABLES
  ledger,   \* the committed account: NoFrame or a Frame record
  frame,    \* the account as the running transaction sees it
  signers,  \* signers of the running transaction
  pc,       \* "idle", "ix" (between instructions), "let" (inside ifx_let)
  steps,    \* steps the running transaction has taken
  ret       \* what the last step answered

vars == <<ledger, frame, signers, pc, steps, ret>>

Heights == {1, 2}

Index == 0 .. U8 - 1

\* frame_authority_requires_signer: an on-curve authority makes a private Frame.
Private(f) == f.authority \in Users

NoReply == [err |-> "Ok", index |-> 0, ty |-> NoType, bytes |-> <<>>]

ErrorReply(err) == [NoReply EXCEPT !.err = err]

ValueReply(i, ty, bytes) == [err |-> "Ok", index |-> i, ty |-> ty, bytes |-> bytes]

Errors ==
  { "AccountAlreadyInUse", "AccountNotInitialized", "AccountNotSigner",
    "CreateNotTopLevel", "CloseNotTopLevel", "ResetNotTopLevel", "LetNotTopLevel",
    "InvalidAuthority", "InvalidTapeLen", "UnauthorizedClose",
    "UnauthorizedFrameWrite", "IndexCapReached", "TapeOutOfBounds",
    "InvalidValueIndex", "InvalidValueTypeTag", "LoadTypeMismatch", "CallerError" }

-----------------------------------------------------------------------------
(* Transactions (the Solana runtime).                                      *)

Init ==
  /\ ledger = NoFrame
  /\ frame = NoFrame
  /\ signers = {}
  /\ pc = "idle"
  /\ steps = 0
  /\ ret = NoReply

Begin(S) ==
  /\ pc = "idle"
  /\ pc' = "ix"
  /\ signers' = S
  /\ steps' = 0
  /\ ret' = NoReply
  /\ UNCHANGED <<ledger, frame>>

Commit ==
  /\ pc = "ix"
  /\ ledger' = frame
  /\ pc' = "idle"
  /\ signers' = {}
  /\ steps' = 0
  /\ ret' = NoReply
  /\ UNCHANGED frame

\* An error fails the transaction; the account is again what was committed.
Abort(err) ==
  /\ frame' = ledger
  /\ pc' = "idle"
  /\ signers' = {}
  /\ steps' = 0
  /\ ret' = ErrorReply(err)
  /\ UNCHANGED ledger

\* A step of a handler succeeds: the account becomes f.
Step(f, reply) ==
  /\ frame' = f
  /\ steps' = steps + 1
  /\ ret' = reply
  /\ UNCHANGED <<ledger, signers, pc>>

\* An instruction (at "ix") or a binding (at "let") can run.
Runs(p) == pc = p /\ steps < MaxIxPerTx

\* Some other instruction of the transaction fails.
CallerFails == pc = "ix" /\ Abort("CallerError")

-----------------------------------------------------------------------------
(* ifx_create_frame(authority, tape_len).                                  *)

CreateFrame(height, authority, tape_len) ==
  /\ Runs("ix")
  /\ IF Payer \notin signers THEN Abort("AccountNotSigner")
     ELSE IF tape_len \notin TapeLens THEN Abort("InvalidTapeLen")
     ELSE IF frame # NoFrame THEN Abort("AccountAlreadyInUse")
     ELSE IF height # 1 THEN Abort("CreateNotTopLevel")
     ELSE IF authority = DefaultKey THEN Abort("InvalidAuthority")
     ELSE Step(InitFrame(authority, tape_len), NoReply)

(* ifx_close_frame with the account k as `authority`.                      *)

\* Slip: any signer may close.
CloseByAnySigner(height, k) ==
  /\ Runs("ix")
  /\ IF k \notin signers THEN Abort("AccountNotSigner")
     ELSE IF height # 1 THEN Abort("CloseNotTopLevel")
     ELSE IF frame = NoFrame THEN Abort("AccountNotInitialized")
     ELSE Step(NoFrame, NoReply)

CloseFrame(height, k) ==
  /\ Runs("ix")
  /\ IF k \notin signers THEN Abort("AccountNotSigner")
     ELSE IF height # 1 THEN Abort("CloseNotTopLevel")
     ELSE IF frame = NoFrame THEN Abort("AccountNotInitialized")
     ELSE IF k # frame.authority THEN Abort("UnauthorizedClose")
     ELSE Step(NoFrame, NoReply)

\* Slip: the authority need not sign.
WriteUnsigned(k) == Private(frame) => k = frame.authority

\* verify_frame_write_authority with k as remaining[0].
WriteAuthorized(k) == Private(frame) => k = frame.authority /\ k \in signers

(* ifx_reset_frame with k as remaining[0] (NoKey when there is none).      *)

ResetFrame(height, k) ==
  /\ Runs("ix")
  /\ IF height # 1 THEN Abort("ResetNotTopLevel")
     ELSE IF frame = NoFrame THEN Abort("AccountNotInitialized")
     ELSE IF ~ WriteAuthorized(k) THEN Abort("UnauthorizedFrameWrite")
     ELSE Step(reset_session(frame), NoReply)

(* ifx_let: the gate, one step per binding of the batch, the return.  Only *)
(* the bindings count as steps.                                            *)

LetEnter(height, k) ==
  /\ Runs("ix")
  /\ IF frame = NoFrame THEN Abort("AccountNotInitialized")
     ELSE IF ~ WriteAuthorized(k) THEN Abort("UnauthorizedFrameWrite")
     ELSE IF height # 1 THEN Abort("LetNotTopLevel")
     ELSE /\ pc' = "let"
          /\ UNCHANGED <<ledger, frame, signers, steps, ret>>

\* One iteration: eval_binding has produced (ty, bytes), append_value runs.
LetBinding(ty, bytes) ==
  /\ Runs("let")
  /\ IF AppendOutcome(frame, ty) # "Ok" THEN Abort(AppendOutcome(frame, ty))
     ELSE Step(append_value(frame, ty, bytes),
               ValueReply(frame.index_count, ty, bytes))

LetReturn ==
  /\ pc = "let"
  /\ pc' = "ix"
  /\ UNCHANGED <<ledger, frame, signers, steps, ret>>

-----------------------------------------------------------------------------
(* Reads.  A binding is read with an expected type by an expression or a   *)
(* structured patch, with its stored type by a raw patch.  Expressions are *)
(* evaluated both by ifx_let (at "let") and by the read-only instructions, *)
(* at any stack height.                                                    *)

ReadValue(p, i, ty) ==
  /\ Runs(p)
  /\ IF frame = NoFrame THEN Abort("AccountNotInitialized")
     ELSE IF ReadOutcome(frame, i, ty) # "Ok" THEN Abort(ReadOutcome(frame, i, ty))
     ELSE Step(frame, ValueReply(i, ty, ReadBytes(frame, i, ty)))

ReadRaw(i) ==
  /\ Runs("ix")
  /\ IF frame = NoFrame THEN Abort("AccountNotInitialized")
     ELSE IF ReadTypeOutcome(frame, i) # "Ok" THEN Abort(ReadTypeOutcome(frame, i))
     ELSE LET ty == StoredType(frame, i) IN
          IF ReadOutcome(frame, i, ty) # "Ok" THEN Abort(ReadOutcome(frame, i, ty))
          ELSE Step(frame, ValueReply(i, ty, ReadBytes(frame, i, ty)))

-----------------------------------------------------------------------------
Create == \E h \in Heights, a \in Key, n \in 0 .. MaxTapeLen + 1 : CreateFrame(h, a, n)
Close  == \E h \in Heights, k \in Key : CloseFrame(h, k)
Reset  == \E h \in Heights, k \in Key \cup {NoKey} : ResetFrame(h, k)
Let    == \/ \E h \in Heights, k \in Key \cup {NoKey} : LetEnter(h, k)
          \/ \E ty \in ValueType : \E bytes \in Payload(ty) : LetBinding(ty, bytes)
          \/ LetReturn
Read   == \E i \in Index :
            \/ \E p \in {"ix", "let"}, ty \in ValueType : ReadValue(p, i, ty)
            \/ ReadRaw(i)

Next ==
  \/ \E S \in SUBSET Users : Begin(S)
  \/ Commit
  \/ CallerFails
  \/ Create
  \/ Close
  \/ Reset
  \/ Let
  \/ Read

Spec == Init /\ [][Next]_vars

-----------------------------------------------------------------------------
(* Correctness.                                                            *)

\* Types of every variable; a Frame's table and tape have the lengths fixed
\* at create (Frame::init), which FrameLayout::parse relies on.
IsAccount(f) ==
  \/ f = NoFrame
  \/ /\ f \in FrameRecord
     /\ f.index_cap = index_cap_for_tape_len(f.tape_len)
     /\ f.payload_at \in [0 .. f.index_cap - 1 -> 0 .. U16 - 1]
     /\ f.tape \in [0 .. f.tape_len - 1 -> Byte]
     /\ f.index_count <= f.index_cap /\ f.cursor <= f.tape_len

IsReply(r) ==
  /\ r.err \in Errors \cup {"Ok"}
  /\ r.index \in Index \cup {0}
  /\ \/ r.ty = NoType /\ r.bytes = <<>>
     \/ r.ty \in ValueType /\ r.bytes \in Payload(r.ty)
  /\ r = [err |-> r.err, index |-> r.index, ty |-> r.ty, bytes |-> r.bytes]

TypeOK ==
  /\ IsAccount(ledger) /\ IsAccount(frame)
  /\ signers \in SUBSET Users
  /\ pc \in {"idle", "ix", "let"}
  /\ steps \in 0 .. MaxIxPerTx
  /\ IsReply(ret)

\* The live records of a tape: every stored tag decodes, the first record
\* starts the tape, each one ends where the next begins, the last one ends
\* at the cursor, and they take at least two bytes each.
PackedFrame(f) ==
  LET n == f.index_count
      End(i) == f.payload_at[i] + Size[StoredType(f, i)]
  IN /\ \A i \in 0 .. n - 1 :
          f.payload_at[i] >= 1 /\ IsTag(f.tape[f.payload_at[i] - 1]) /\ End(i) <= f.cursor
     /\ \A i, j \in 0 .. n - 1 : i < j => End(i) < f.payload_at[j]
     /\ \A i \in 0 .. n - 2 : f.payload_at[i + 1] = End(i) + 1
     /\ n = 0 => f.cursor = 0
     /\ n > 0 => f.payload_at[0] = 1 /\ f.cursor = End(n - 1)
     /\ f.cursor >= 2 * n

\* Records never overlap, leave gaps or fall outside the written part of the
\* tape, in spite of lazy resets, tapes of any length and old bytes that look
\* like tags (append_value, plan_record_offsets, reset_session).
Packed == \A f \in {ledger, frame} : f # NoFrame => PackedFrame(f)

\* The abstract session of a Frame: the bindings its reads give.
BindingOf(f, i) == [ty |-> StoredType(f, i), bytes |-> ReadBytes(f, i, StoredType(f, i))]

SessionRecord ==
  [ authority : Key, tape_len : TapeLens, generation : 0 .. U64 - 1,
    used : 0 .. MaxTapeLen, count : 0 .. MaxBindingIndex,
    binds : UNION { [0 .. n - 1 -> [ty : ValueType, bytes : UNION { Payload(t) : t \in ValueType }]]
                    : n \in 0 .. MaxBindingIndex } ]

ASSUME NoSessionAssumption == NoFrame \notin SessionRecord

SessionOf(f) ==
  IF f = NoFrame THEN NoFrame
  ELSE [ authority |-> f.authority, tape_len |-> f.tape_len, generation |-> f.generation,
         used |-> f.cursor, count |-> f.index_count,
         binds |-> [i \in 0 .. f.index_count - 1 |-> BindingOf(f, i)] ]

SSA == INSTANCE FrameSSA WITH
  committed <- SessionOf(ledger), session <- SessionOf(frame), open <- pc # "idle"

\* The program implements single assignment: reads give what this session
\* bound, whatever bytes earlier sessions left, and a read only ever fails
\* for an index not bound yet or a type that is not the stored one.
ImplementsSSA == SSA!Spec

\* Bindings of f are still there, with the same bytes, in g.
Extends(g, f) ==
  /\ f.index_count <= g.index_count
  /\ \A i \in 0 .. f.index_count - 1 : BindingOf(g, i) = BindingOf(f, i)

\* frame-authority.md sections 3.4 and 3.8: a transaction the authority did
\* not sign leaves a private Frame as it was, and can do no more to a public
\* one than reset it or add bindings after the existing ones: it never closes
\* it, re-creates it, changes its sizes or overwrites a binding.
ForeignEffect(f, g) ==
  /\ g # NoFrame
  /\ g.authority = f.authority /\ g.tape_len = f.tape_len
  /\ Private(f) => g = f
  /\ g.generation = f.generation => Extends(g, f)

ForeignTxBounded ==
  (ledger # NoFrame /\ pc # "idle" /\ ledger.authority \notin signers)
    => ForeignEffect(ledger, frame)

\* A binding is only refused for lack of indices when the wire has none left
\* or when the tape has no room for even the smallest record: the table of
\* min(256, tape_len / 2) entries never wastes tape (index_cap_for_tape_len).
CapHonest ==
  [][ (pc = "let" /\ ret'.err = "IndexCapReached")
        => \/ frame.index_count = MaxBindingIndex
           \/ frame.tape_len - frame.cursor < 2 ]_vars

-----------------------------------------------------------------------------
(* The inductive invariant of the proofs.                                  *)

\* What the control state says of the working copy: ifx_let runs on a Frame
\* whose write gate it has passed, and an error ends the transaction.
TxOK ==
  /\ pc = "idle" => frame = ledger
  /\ pc # "idle" => ret.err = "Ok"
  /\ pc = "let" => frame # NoFrame /\ (Private(frame) => frame.authority \in signers)

\* g after r calls of u64::wrapping_add(1), r < U64.
Wrapped(g, r) == IF g + r < U64 THEN g + r ELSE g + r - U64

\* g is a later state of f, r resets after it.
Descends(g, f, r) ==
  /\ g.authority = f.authority /\ g.tape_len = f.tape_len
  /\ g.generation = Wrapped(f.generation, r)
  /\ r = 0 => Extends(g, f)

\* Without both signatures, the Frame of a transaction descends from the
\* committed one or is gone; without the authority's it is not gone, and a
\* private one is as it was.
Lineage ==
  (ledger # NoFrame /\ pc # "idle")
    => /\ (~ ({ledger.authority, Payer} \subseteq signers))
            => \/ frame = NoFrame /\ ledger.authority \in signers
               \/ frame # NoFrame /\ \E r \in 0 .. steps : Descends(frame, ledger, r)
       /\ (Private(ledger) /\ ledger.authority \notin signers) => frame = ledger

\* Inductive: Next preserves all of it together (WriteAuthorized, CloseFrame,
\* append_value, reset_session), and it implies the invariants above.
IInv == TypeOK /\ Packed /\ TxOK /\ Lineage

=============================================================================
