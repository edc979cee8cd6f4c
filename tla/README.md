# A verification development for Ifx

Ifx is a Solana program that lets one transaction compute with on-chain values:
a transaction binds values to numbered slots of a scratch account (a *Frame*),
evaluates expressions on them, asserts conditions and patches the values into
the data of cross-program invocations (CPIs).  SDKs in TypeScript, Rust and Go
plan the bindings and build the instructions.  This directory holds TLA+ models
of the program and of the SDKs' planners and builders, the TLC runs that check
them, and theorems that TLAPS checks for every value of the constants.

## 1. The system

| part | source | state it keeps | operations |
|---|---|---|---|
| Frame account and tape | `programs/ifx/src/state/{mod,frame_access,frame_layout}.rs`, `crates/ifx-core/src/layout/tape.rs` | authority, cursor, index_count, index_cap, generation, payload_at, tape | init, reset_session, append_value, read_value_type, read_bytes |
| Frame instructions and gates | `instructions/{create_frame,close_frame,reset_frame,let_op}.rs`, `state/frame_authority.rs` | the account's existence | create, close, reset, let (top level only) |
| Guards and conditional CPI | `instructions/{assert,assert_multi,if_else,patched_cpi_ix}.rs`, `state/frame_account.rs` | a parsed layout and a condition while CPIs run; account borrows | assert, branch, run the steps of an arm |
| CPI steps, structured CPI | `instructions/{patched_cpi,structured_cpi}.rs`, `ifx-core/src/structured_cpi/assemble.rs` | none | slice accounts, overlay or assemble data, invoke |
| CPI builders of the SDKs | `sdk/src/{cpi,structured-cpi*}.ts`, `rust-sdk/src/{cpi,patched_cpi}.rs`, `go-sdk/{patchedcpi,structuredcpi}` | the account list of an instruction | resolve accounts, infer a variant, build |
| Let bindings | `state/let_binding_exec.rs` | caches of one batch | 68 kinds of binding |
| Expressions and values | `state/{let_exec,value_ops}.rs`, `layout/infer_expr_ty.rs` | none | infer a type, evaluate, cast |
| SDK planners | `rust-sdk/src/{scratch,let_builder}.rs`, `sdk/src/{scratch,let-builder}.ts`, `go-sdk/scratch` | next index, cursor, types of planned bindings, accounts of a batch | reset, plan a binding, build, refresh |
| Account unpackers | `state/{stake_load,upgradeable_load}.rs` | none | owner, length and state checks |
| Wire codecs | `crates/ifx-core/src/{wire/*,u8_len_vec,u16_len_vec}.rs` and three SDK encoders | none | encode, decode |
| Pseudocode log and its parsers | `programs/ifx/src/pseudocode.rs`, `*/parse_logs.*` | a line buffer; the transaction's log | print a line per binding, condition, branch, step; name an error |
| IDL, scripts | `idl`, `scripts` | none | deployment |

**How they interact.**  Everything goes through the Frame account.  `ifx_let`
appends to it; guards, conditions and patches read it; a CPI, of Ifx or of
another program, may enter Ifx again while an arm runs.  The planner never reads
the Frame: it predicts index, type and offset of every binding before the
transaction exists and writes the predictions into later expressions and
patches.  The builders write positions in a shared account list the same way.
A statement reaches the program as bytes that an SDK wrote with tables of its
own, and what became of it reaches the client as a log and an error number that
an SDK reads with another table.

**What is hard.**

* *Stale bytes.*  A reset zeroes two counters and leaves tape and table alone.
* *Decide, then act.*  A handler keeps a condition and a parsed layout in local
  variables while its CPIs run, and patches read the Frame between them.
* *Prediction.*  Between planning and landing, anybody may write a public Frame,
  and a planned transaction may be lost.
* *Re-use of an address.*  A close by the authority and a create by the payer, in
  different transactions, restart the generation at 0.
* *Double bookkeeping.*  A type is inferred and then evaluated again; an index
  is u8 on the wire and u16 in the account; offsets are planned by three SDKs.
* *Shared account lists.*  Program ids repeat, and slices may overlap.
* *Tables kept twice.*  Tags, field orders, error numbers exist in the program
  and in every SDK.
* *Loops with many ways out.*  A let, an assert_multi or an arm goes through a
  list of up to 255 elements, each of which may fail to be evaluated, invoked or
  printed.

There are no threads, timers or retries in this code.  Transactions that write
one account are serialised by the runtime, an error rolls the whole transaction
back, and no client has to send anything.  Concurrency is that of transactions
of several parties, in any order, and of nested invocations.  Nothing here waits
for anything: a handler is one synchronous call over lists that are already
decoded.  So no specification states fairness, and there is no liveness property.

What makes each part correct is listed with its module below; `PROJECT.json`
lists the hazards by source line and the properties that watch them.

## 2. Modules

```
 FrameTape          bytes of one Frame, as functions (no state)
   FrameProgram     transactions on one Frame address
     FrameNote      a reader of the Frame between transactions
       FrameProgram_proofs                    TLAPS
 FrameSSA           what a Frame promises: typed values, assigned once
   ^ implemented by FrameProgram (TLC and TLAPS)
   FrameSSA_proofs                            TLAPS
   Planner          SDK planner + chain (extends FrameSSA)
   Orchestration    guards, arms, nested CPI (extends FrameSSA)
     Orchestration_proofs                     TLAPS
 CpiSteps           builders of CPI steps + their execution
   CpiSteps_proofs                            TLAPS
 AccountLoads       what a binding reads from an account (no state)
   LetBatch         a batch of loads and its cache
 Planner, LetBatch
   Lets_proofs      planned and executed lets TLAPS
 Floats             a small IEEE 754 type (no state)
   Operators        types, inference and the operators (no state)
     Expressions    expressions that clients compose and lets evaluate
     Terms          expressions as sequences of nodes (no state)
       Wire         instruction data: SDK writer, program reader (no state)
         Statements client -> wire -> handler -> log -> client
 Expressions, Wire
   Language_proofs  evaluation and reading    TLAPS
     Statements_proofs                        TLAPS
 DataLemmas         minima of sets of naturals, facts about sequences (TLAPS)
```

`Planner` and `Orchestration` use the abstract `FrameSSA` and not the bytes:
that is what the refinement theorem allows, and it keeps them small.

### FrameTape, FrameProgram, FrameSSA

`FrameTape` translates `frame_layout.rs`, `frame_access.rs` and `tape.rs`: a
Frame record has the fields of the account, `append_value` writes tag and
payload at the cursor and the offset into the table, `reset_session` zeroes the
counters and increments the generation.  Widths (`U8`, `U16`, `U64`) are
constants, so wrapping is real on small instances.  `FrameProgram` adds
transactions: a signer set, a working copy of the account, one action for each
instruction with its gates in the order of the code, one for each binding of a
let, reads at any stack height, and rollback.  `height` is 1 for the message's
own instructions and 2 for anything nested.

`FrameSSA` has no bytes: a session is a numbered list of typed values.
`FrameProgram!SSA` is the instance with `committed <- SessionOf(ledger)`,
`session <- SessionOf(frame)`.

| property | what it rules out |
|---|---|
| `Packed` | records that overlap, leave gaps or pass the cursor, whatever lazy resets left behind |
| `ImplementsSSA` | a read that gives anything but this session's binding, a partial batch, a wrong error |
| `ForeignTxBounded` | a transaction without the authority's signature that closes, re-creates or overwrites |
| `CapHonest` | an index table that refuses a binding although wire and tape have room |
| `PairNamesSession` | a pair of address and generation that names another session than the one noted, without the authority's doing |

`FrameNote` adds a reader who notes the committed account and, any number of
transactions of anybody later, compares its generation (docs/frame-authority.md
advises this).  The pair does come back for another session: the authority
closes the account, in its own transaction, and the payer creates it again, in
a later one, at generation 0.  Neither the address nor the generation shows
that.  `Lapses` says when a note is given up: after a transaction which the
authority signed and which leaves no account or has the payer's signature as
well, and when 2^64 steps have passed.  `PairNamesSession` says that until then
equal generations are the noted session, at most extended.

### Planner

The client's `FrameScratch` (cursor, next index, types) and `LetBuilder`
(accounts interned by key, bindings of a batch), a unit of built instructions,
and the chain.  `Land`, `RunReset`, `RunBinding` and `Finish` run a unit against
`FrameSSA`; `Drop` loses it; `Foreign...` are other clients' transactions.
`anchored` says what the unit's indices count from, its own reset or a refresh
that nothing has overtaken: without either the planner promises nothing.  The
three SDKs differ in `EndCursor` and `IndexAfter`.

`PlannedIsBound`: what lands has the planned index, type and content.
`PlanReads`: expressions and account indices of an anchored unit resolve on
chain.  `PlanFitsTape`, `PlanFitsIndex`: an accepted unit is not refused for
space.

### Orchestration

`stack` is the runtime's invocation stack; an entry holds what the handler of
that level keeps while it waits (condition, layout, steps left).  One account's balance is what loads read and CPIs move.
`known` is a history variable: which values guards and patches of the
transaction have read, and which lower bound of the balance they establish.

`WaitingIsCurrent`, `FrozenWhileCalling`, `CheckedIsUsed`, `GuardsAreTrue`: what
was decided from is still true when it is acted on.

Two limits.  `GuardsAreTrue` is about guards on a copy that is still fresh, and
drops the bound when the balance moves: whether a client decides from a copy
that has gone stale is not told.  And the read borrow that `with_read` takes
begins and ends within one step of the model, so it is not state: that it is
over before a CPI runs is read off the code and not checked.

### CpiSteps

A client builds the steps of an arm from official instructions: static, raw with
overlays, or structured with an inferred or a named variant, over a list that
several steps share and that grows, and may place a step by hand.  Then the
program slices, assembles and invokes step by step.  Bytes are modelled by
provenance (`<<value, k>>` is the k-th byte of a value), so that a wrong offset,
width or order shows although no number is computed.  `Registry` is the whole
enum `StructuredCpiPatch`: 34 variants, counted by an assumption.

`AccountsAreTemplates`, `StructuredIsForProgram`, `PatchedAsMeant`,
`BuiltIsAccepted`: accounts, program and fields of every invocation are those
the client meant, and the program refuses nothing that a builder accepted except
for a reason the client chose.  `TemplateKept` does not hold (section 6).

Account lists are as long as a transaction can hold, so the conversions of
lengths to u8 (`rust-sdk/src/cpi.rs:53` and `:72`, `builder.go:94`), which
`LengthOf` takes as they are, never cut anything.

### Floats, Operators, Expressions, Terms

`Operators` has the types, `Inferred` (`infer_expr_ty`) and `Composite`
(`eval_expr`) for one operator on evaluated operands, and beside them a meaning
that does not look at how the code computes: `IsResult` says by an equation or
inequality over unbounded integers (a floor lies within one divisor below, a
saturating difference is the nearest value) which value is the result of an
operator.  Two places where the program gives something else than its documents
say are set apart: `Departs` names them, `GivenInstead` says what is given, and
the run `expr_floor` shows the first of them (section 6 has both).  That
casts between signed types keep the low bits is documented
(`docs/ir-completeness.zh-CN.md:116`) and part of `IsResult`.

In `Expressions` clients compose terms operator by operator on a stack, and lets
bind them.  `EvalIsMeaning`: evaluation at the inferred type gives the meaning,
errors included.  `InferredIsEvaluated`: an expression evaluates at its inferred
type only.  Types have few bits, so every overflow is met.  `Terms` writes an
expression as the sequence of its nodes from the root, as the wire does, and
evaluates it from its last node to its first.

`Floats` stands for F32 and F64: two significant bits, subnormals, rounding to
even, overflow to infinity, NaN.  There is one zero: a division by either zero
is refused, and comparisons do not tell them apart.  `DivFloor` and `DivCeil`
of floats are the floor and the ceiling of the *rounded* quotient, as in
`value_ops.rs:114` and `:161`, and `IsFloatResult` says so.

### AccountLoads, LetBatch

`AccountLoads` has the 68 kinds of binding as records (whose account, which form
of it, which field) and, for each, the checks in the order of the code: owner,
length, unpacking, variant, optional field.  What an account holds is a form
(token account, mint, multisig, each stake and loader state, blank data of the
right length), the extensions, the optional fields that are set and a version;
field `f` of version `n` holds `<<f, n>>`.

`LetBatch` is one let over accounts that the instructions between lets change:
their base and extension data, and what they are; and epochs pass.  The cache of
unpacked Token-2022 data is the code's, by account index.  `LoadIsMeaning`: a
binding yields the field of a genuine account of its kind or the error that the
account deserves, never a field of a look-alike.  `CacheIsTransparent`: with and
without cache the next binding answers alike.  `BatchIsSnapshot`: all that a
batch has bound is what one ledger holds.  What a binding reads of its own Frame
is the count that the appends before it have reached; that is how the model is
defined, and no property is made of it.

Of the mint fields, `is_initialized` is only ever bound as true: the unpackers
refuse anything else.

### Wire, Statements

`Wire` writes as the SDKs do and reads as the program does, byte by byte: eight
instructions, 52 expressions, 68 bindings, three kinds of step, 34 structured
patches with their payloads, arms and lists.  Reader and writer have tables of
their own.  The reader's are the enums of the program (`Instructions`,
`Variants`, `ValueTypes`, `LetVariants`, `BindingFields`, `CpiKinds`,
`PatchVariants`, `Payload`).  The writer's are the TypeScript SDK's and begin
with `Sdk`: discriminators (`constants.ts`), expressions (`expr-variants.ts`),
bindings (`let-binding-variants.ts`) and the fields that `encodeLetBinding`
writes of each, types (`codec.ts`), steps (`types.ts`), arms (`if-else-arm.ts`),
patches, their forms, the tags of their alternatives and what is written behind
them (`structured-cpi-patch.ts`).  The two sides meet in names only: a statement
holds the program's numbers, the writer looks up the name and writes what its
own table says.  The Rust SDK shares the program's types; the Go SDK's tables
are not modelled.

`Statements` follows a statement: a client composes and encodes it (`Send`), or
sends bytes no SDK wrote (`Scribble`); `Receive` decodes and refuses; `Bind`,
`AssertOne`, `AssertMulti`, `IfElse`, `Invoke`, `ResetFrame` are one turn of a
handler's loop each, with its line in the log; `Return` ends it.  The statements
of a transaction share tape and log; an error ends the transaction, and `Begin`
starts the next.  A line's text is the sequence of pieces pushed into the line
buffer, so that a line can be too long, dropped, or panic where a piece cannot
be printed; what the line says is kept beside it.

| property | what it rules out |
|---|---|
| `SentIsDecoded` | a table, a count or a tag that writer and reader do not share; bytes left over |
| `DecodedIsCanonical` | a second spelling of a statement: a tag, bool, count or arm that is read as one the SDK writes otherwise |
| `LogIsTrue` | a let line whose index or value is not the tape's, a verdict that is not the condition's, up to the last line of a failed transaction |
| `GuardsDecide` | going on after a false guard, stopping at a true one, return data that names another condition |
| `OnlyLeastAborts` | a print that panics for any number but the least I64 or I128 |
| `ErrorIsNamed` | an error of the program that a parser takes for another |

Their limits.  The reader ignores bytes behind a statement, so data with
something behind it is read like data without: `DecodedIsCanonical` speaks of
the bytes that were taken only, where the error table promises a refusal
(section 6).  A false condition whose line is dropped
for its length escapes the first conjunct of `GuardsDecide`, not those about the
status.  `ErrorIsNamed` is about the program's own numbers: a number of another
program with the same low byte is taken for one of them by the parsers
(section 6).

## 3. Runs

TLC checks deadlock in every run but those of `CpiSteps`, whose behaviour is one
transaction and ends.

| run | instance and bounds | shows |
|---|---|---|
| `frame_tape` | one user, types of 1 and 2 bytes with tags 0 and 2, bytes {0, 2, 14}, tapes to 5 bytes, 2 steps per transaction | `Packed`, and the refinement `ImplementsSSA` |
| `frame_acl` | two users, one the payer, public and private authorities; types of one byte, tapes to 6, generation modulo 4, 2 steps per transaction, any number of transactions, a reader between them | `TypeOK`, `IInv` (the invariant of the proofs), `ForeignTxBounded`, `CapHonest`, `PairNamesSession`; the case that the last excepts, a close in one transaction and a create in a later one, is among the states |
| `planner_ts` | TypeScript planner, tape of 7, 2 indices, units of 4, public or private Frame | all planner properties hold |
| `planner_rust_tape` | the same instance, Rust planner | violation (section 6) |
| `orchestration` | balances 0 and 1, 2 values, arms of 2 steps, 2 conditions, stack of 3 | the properties of Orchestration and `OrchestrationInv` (the invariant of the proofs) |
| `expressions` | widths 2, 3, 6 bits and 18 floats; all pairs and triples of literals, and operators over operators on two loaded values | the result over unbounded integers or refused, at the inferred type, but for the two departures |
| `expr_floor` | the same | violation (section 6) |
| `let_batch` | one account that changes as a Token-2022 account or mint may, one that may be any form of any program; two slots, the Frame and the program among them | loads mean what they say, the cache is invisible; `LetBatchInv` |
| `fee_current` | the same | violation (section 6) |
| `cpi_steps` | TypeScript and Rust builders: single steps of every layout with hand placement, and arms of two steps over lists to 5 accounts | accounts and fields are the client's; `CpiInv` |
| `cpi_template` | one SDK, one template | violation (section 6) |
| `statements` | bytes of 72 values, types of 1, 2 and 4 bytes, lines of 16 pieces; five clients: every expression of one operator in single statements; one to two statements of all kinds, with every shape of payload among the steps; every binding and every patch once, all fields different; arms of 0, 70 and 71 steps; up to five stray bytes | codecs, log and error table agree (58 164 states, 75 deep) |

*Why the bounds are enough.*  Tapes hold two or three records, so there is a
first, a middle and a last one, a full tape with and without a free index, and a
session that re-uses the bytes of a longer one; byte values include valid tags
of another type and an invalid tag.  Two indices make the index cap reachable
before and after the tape is full.  A unit of four is a reset, two bindings and
one too many.  A stack of three has a caller, a waiting handler and a nested
Ifx.  Two steps over one list is the least arm in which a program id repeats.
Three integer widths give every relation of widths that the code distinguishes
(a narrow type, the type of `MulDiv`, its double).  Generations wrap in the two
frame runs; the planner and the orchestration run have only one (`U64 = 1`),
which none of their properties reads.  Bytes of 72 values keep the tags of the
code (67 is the largest) and make the longest arm (70 steps, 71 being the tag of
a revert) and lines that are too long small enough to build; five bytes reach every instruction and
the inside of each list.  Two statements are a let and what reads it, a reset
between two lets, a guard after a guard.  Every bound is a constant named in its module
(`MaxIxPerTx`, `MaxUnit`, `MaxArm`, `MaxConds`, `MaxHeight`, `MaxDepth`,
`MaxEvals`, `MaxRemaining`, `MaxTape`, `MaxEpoch`, `MaxLine`, the `statements`
and `strayLength` of a `Menu`, a client's `maxSteps` and `maxList`).

Each property of a passing run has a mutant in `PROJECT.json`: a definition of
the code with a plausible slip (the operators commented `Slip:`) under which
TLC finds the property violated.

## 4. What is proved

Eight modules hold proofs.  Every invariant and action property that a passing
run checks is a theorem, for all values of the constants that the named
assumptions allow.

| module | theorem | statement |
|---|---|---|
| `FrameProgram_proofs` | `Invariance` | `Spec => []IInv` |
| | `TypeCorrect` | `Spec => []TypeOK` |
| | `TapesPacked` | `Spec => []Packed` |
| | `ForeignTxsBounded` | `Spec => []ForeignTxBounded` |
| | `CapsHonest` | `Spec => CapHonest` |
| | `ImplementsSingleAssignment` | `Spec => ImplementsSSA` |
| | `PairsNameSessions` | `NoteSpec => []PairNamesSession` |
| `FrameSSA_proofs` | `SSATypeCorrect` | `Spec => []SSATypeOK`, of the abstract Frame |
| `Orchestration_proofs` | `OrchestrationInvariance` | `OrchestrationSpec => []OrchestrationInv` |
| | `HandlersAreCurrent` | `OrchestrationSpec => []WaitingIsCurrent` |
| | `ChecksAreUsed` | `OrchestrationSpec => []CheckedIsUsed` |
| | `GuardsHold` | `OrchestrationSpec => []GuardsAreTrue` |
| | `FrameIsFrozen` | `OrchestrationSpec => FrozenWhileCalling` |
| `Lets_proofs` | `PlannerTypes` | `PlannerSpec => []PlannerTypeOK` |
| | `FitsIndex` | `PlannerSpec => []PlanFitsIndex`, if `IndexIsExact` |
| | `FitsTape` | `PlannerSpec => []PlanFitsTape`, if `IndexIsExact` and no Rust |
| | `ReadsAsPlanned` | `PlannerSpec => []PlanReads`, if `IndexIsExact` |
| | `BoundAsPlanned` | `PlannerSpec => PlannedIsBound`, if `IndexIsExact` |
| | `LetBatchInvariance` | `LetBatchSpec => []LetBatchInv` |
| | `CacheTransparent` | `LetBatchSpec => []CacheIsTransparent` |
| | `BatchesAreSnapshots` | `LetBatchSpec => []BatchIsSnapshot` |
| | `LoadsMean` | `LetBatchSpec => []LoadIsMeaning` |
| `CpiSteps_proofs` | `CpiInvariance` | `CpiSpec => []CpiInv` |
| | `StructuredForProgram` | `CpiSpec => []StructuredIsForProgram` |
| | `PatchesAsMeant` | `CpiSpec => []PatchedAsMeant` |
| | `BuildersAccepted` | `CpiSpec => []BuiltIsAccepted` |
| | `TemplatesReach` | `CpiSpec => []AccountsAreTemplates`, if no client uses Go |
| `Language_proofs` | `TapeIsTyped` | `ExprSpec => []ExprTypeOK` |
| | `InferenceIsSound` | `ExprSpec => []InferredIsEvaluated` |
| | `EvaluationGivesMeaning` | `ExprSpec => []EvalIsMeaning` |
| `Statements_proofs` | `TheSentIsDecoded` | `Spec => []SentIsDecoded` |
| | `TheWireIsCanonical` | `Spec => []DecodedIsCanonical` |
| | `StatementsInvariance` | `Spec => []StatementsInv` |
| | `StatementsTyped` | `Spec => []StatementsTypeOK` |
| | `TheLogIsTrue` | `Spec => []LogIsTrue` |
| | `TheGuardsDecide` | `Spec => []GuardsDecide` |
| | `OnlyTheLeastAborts` | `Spec => []OnlyLeastAborts` |
| | `TheErrorIsNamed` | `Spec => []ErrorIsNamed` |

`DataLemmas` holds what several of them need.  The library's induction theorems
take an operator and cannot be used; where a proof needs an induction it takes
the least element of a set of naturals (`NatMin`, from the library's `WFMin`,
which takes a relation), and `NatInduct` gives the usual form for a set.
Recursion is written as a recursive function over the naturals, or over pairs of
a natural and a sequence of bytes; `Iterates` says of such a function what it
returns step by step.

### FrameProgram

*Assumptions.*  Tags are bytes and distinct; sizes are positive; the largest
tape is below 2^16 and the index limit at most 2^8 (`constants.rs`); only users
sign and the default key is none of them; a transaction takes fewer steps than a
generation has values (a message has 1232 bytes, a generation 2^64 values).

*Argument.*  `Packed` alone is inductive only with the types; but the two
properties about transactions compare the working copy with the committed
account and are not preserved by a step that starts from an arbitrary copy.
`IInv` adds `TxOK` (inside a let the write gate has been passed; between
transactions there is no difference) and `Lineage`: the copy *descends* from the
committed account by some number of resets, at most the steps taken, and by
appends.  After r > 0 resets the generation has moved by r without coming round,
so equal generations mean r = 0, and then only appends.  `NoteInv` carries this
over transactions: until the note lapses, the account in the ledger descends from
the one noted by at most `age` resets.  A commit composes two descents, that of
the ledger from the note and that of the copy from the ledger (`DescendsBoth`);
without the authority's signature there is no close, and with it but without the
payer's no create after the close, so the account never stops descending.
`PairNamesSession` is read off with r < 2^64.  `CapHonest` follows from `2 * index_count <= cursor`, a part
of `Packed`.  The refinement has one lemma per instruction (`...Refines`); its
core is `LiveReads`, that a read of a live index finds the tag and payload that
the append wrote, and `AppendKeepsBindings`.

### FrameSSA

*Assumptions* (`SSAAssumption`, also for `Orchestration` and `Planner`): sizes,
the largest tape and the generation's width are positive, users are keys and the
default key is no user, `NoFrame` is no session.  The lemmas say what a new
session, a reset and a binding give and keep.

### Orchestration

*Assumptions.*  There is one type, of one byte, which stands for an amount; with
a byte every smaller natural is a byte (a debit leaves an amount); the
stack has at least the message's instruction.  Stack height, arm and condition
lists and amounts are otherwise arbitrary.

*Argument.*  `OrchestrationInv` is the conjunction of the checked invariants with
the types and one more fact: a value that was loaded from the balance since it
last moved equals it.  Without that a guard on it would say nothing, and
`GuardsAreTrue` is not preserved.
Whatever runs above the message's own instruction is nested, the write gate
refuses it, so the session cannot change (`NestedStep`): that is
`FrozenWhileCalling`, and with it every layout and condition kept below stays
current at any height.  A failure drops the stack, the facts and the copy.

### Planner

*Assumptions.*  The index limit is at most that of a u8; the planned tape is not
larger than the largest.  `IndexIsExact` says that every SDK's index counter can
name the indices of the tape: the client writes TypeScript, or the tape has
fewer indices than a u8 has values.  Outside it `FitsIndex` is false for Rust,
whose counter saturates, and for Go, whose counter wraps (section 6); and
`FitsTape` leaves out the Rust planner, which the run `planner_rust_tape`
refutes.

*Argument.*  A planner has counted on through everything that is planned and not
yet run, so comparing its counters with the chain says nothing until the unit is
done.  The invariant `PlannerInv` speaks of the *path* of predictions: a
sequence that starts at what the next binding will find, and goes on by one
prediction for each binding of each item still to run, planned, built or
partly executed, and ends at the planner's counters now (`Predicted`).  When the
unit is anchored, the start of the path agrees with the session: the same count,
the same bytes used, the same types.  Planning extends the path at its end,
running a binding takes its first step, a reset starts it at zero, and another
client's write breaks the anchor unless the unit resets first.  Each theorem
then reads the first step of the path.  The invariant quantifies over all such
sequences, which TLC cannot enumerate; TLC checks its consequences (the
properties) and `PlannerTypeOK`.

### LetBatch

*Assumptions.*  The Frame and the program's id are not among the other
accounts (`Other`); account states have the shape of `AccountLoads`; the program owns no
form that a binding loads.  Any kinds, accounts, states and epochs; a
let has any number of bindings.

*Argument.*  `LetBatchInv` adds `CacheIsCurrent` to the properties: what is
cached under an account index is what unpacking that account would give now.
`CacheNeverShows` proves that then a load with and without cache answers alike,
for each of the 68 kinds.  `LoadsMean` needs only the types of the state: it is
a fact about `AccountLoads` (`LoadAnswer`, `KindCases`), by cases on the checks
of a kind.

### CpiSteps

*Assumptions.*  No program is an account of a template; a template names a shape
and a program; widths are positive.  `Cardinality(Registry) = 34` is the count
of variants in the enum.  Clients, templates, arms and lists are arbitrary.

*Argument.*  `CpiInv` has three parts beside types.  Where a step lies: at its
start the list has its program and then its template's accounts.  The list only
grows at its end, so what a step lies on stays; this is why sharing is harmless.
What a step holds: values for exactly the fields of its shape.  And what was
checked of those invoked.  The properties about data rest on a layout: a shape
has up to three fields, `EncodeLayout` gives the start and the length of each,
`StartOrder` that they do not overlap, `BeforeField` what lies in front of one.
`AssembledCarries` shows that structured data carries every field it names,
`OverlaidAsMeant` that overlays of the right types give the template with those
fields replaced and nothing else changed, and `FittingOverlays` that such
overlays never run over the end.  A Go structured builder does not compare the
accounts of its template, so `TemplatesReach` excludes it (section 6).

### Expressions

*Assumptions* (`OperatorsAssumption`, `ExpressionsAssumption`).  A type has a
modulus, even if it is signed; that of U128 is the square of U64's, no other is
larger and I128's is the same; basis points count from a number that fits U64.
Values that are loaded fit their types.  The widths are otherwise arbitrary, and
so are expressions, tapes and literals.  The floats are those of `Floats`, which
is finite: facts about them are checked value by value.

*Argument.*  For each operator a lemma says that what `Apply` computes, with the
code's checks, truncations and promotions, is the one value that satisfies
`IsResult`, or that there is none and the outcome is an error.  Division has its
own part (quotient and remainder of either sign, floors, ceilings, the
saturating and the promoted products).  `Answers(x, m)` says that x is what the
program answers for an expression that means m, at every type it may be asked
for; `CompositeAnswers` that every operator preserves it.  The invariant of the
machine is that every expression on its stack answers what it means; with that
`InferenceIsSound` and `EvaluationGivesMeaning` are read off the top of the
stack.  In the two cases of `Departs` the theorem says what is given, so it does
not hide that this is not the documented result.

### Statements

*Assumptions* (`WireAssumption`, `StatementsAssumption`, and those on
operators).  A byte has more than 68 values, a type at most 32 bytes, which hold
its values; a line has room for a piece; what clients write is of the types of
their SDKs (`WireExpr`, `WireBinding`, `WireStep`, `WireArm`).  Menus, values,
lists, lines and stray bytes are otherwise arbitrary.

*What is sent is read.*  `Restoring(reader, w, v)` says that the bytes w,
whatever follows them, are read as v and leave what follows.  Numbers: the digits of a number, counted from the last, give the
number (`Number`, sign included).  Tables: for every entry the tag that the
SDK's table gives to its name is the place the program's table has for it, and
behind it both have the same fields; this is the comparison of the tables,
entry by entry.  Lists: if the elements are restored, so is the list behind its
count (induction on its length, `FlattenSeq`).  Expressions: the reader counts
operands that are due (`Dues`), and a text that is `Whole` makes that count
reach zero at its last node and not before.  Statements: by instruction.
`WrittenIsRead` collects this for whatever a client may write, `Told` is the
invariant that the bytes at hand are those.

*What is read is what is written.*  In the other direction, `Spells(w, rest, b)`
says that the bytes b are w and then the rest.  Every reader that succeeds on
any bytes took those that the writer gives for what was read, from digits and
tags to statements (`DecodeRegains`); and what was read is typed, an expression
having as many nodes as its arities ask for (`DecodeTyped`).

*Log and guards.*  `StatementsInv` says that the statement at hand was read
typed from its bytes, that what is left to do is a suffix of its jobs, that
every line since the last reset is true of the values, and that a transaction
goes on exactly while its guards hold.  An append of a value must not change
what earlier lines say: a condition that has evaluated reads indices below the
count, so its answer stays (`AnswerAlike`, by the sequence of answers from the
last node to the first, and from it `VerdictKept`).  `LogGrows` and `LogKept`
carry the lines over a step.  For the printer, a piece of a text panics only if
the least I64 or I128 is a literal of the expression or the value bound
(`TextClean`).  One lemma for each action of the program preserves the
invariant.  `TheErrorIsNamed` compares numbers of the error table.

## 5. What is only model-checked

* What the constants of an instance add: the finite menus, the forms of accounts
  that programs really make, and that `IInv`, `OrchestrationInv`, `LetBatchInv`
  and `CpiInv` are not vacuous there.
* `NoteInv`, `PlannerInv` and `StatementsInv` quantify over more than TLC can
  enumerate; they are proved, and TLC checks what follows from them.
* The grid of `Floats` is an instance: theorems about floats hold for it only.
* Outside the assumptions: the Rust planner (`FitsTape`), Go's structured
  builder (`TemplatesReach`), counters of 256 indices (`IndexIsExact`).
* The violations of section 6 are counterexamples; nothing is to be proved.

There is no liveness here to be model-checked (section 1).

## 6. Where code and documents disagree

Shown by runs:

* `planner_rust_tape`: the Rust planner advances its cursor by one byte per
  binding (`scratch.rs:239` takes the payload offset for the record's end), so
  units that overflow the tape are accepted.  Its u8 index saturates
  (`scratch.rs:256`), so with 256 indices a 257th binding is accepted; the Go
  counter wraps instead, with the same result.  (`PlanFitsIndex` fails with
  `Sdk = {"rust"}` or `{"go"}` in `MCPlanner.cfg`.)
* `expr_floor`: `DivFloor` of signed values is Euclidean, not floor, when the
  divisor is negative.
* `cpi_template`: a structured `CreateAccount` loses the owner of the official
  instruction it was built from; `InitializeMultisig2` becomes
  `InitializeMultisig`, and the Go structured builder does not compare accounts.
* `fee_current`: a let binds the *newer* fee of a Token-2022 mint, which is not
  charged before its epoch, where the binding is documented as the current fee.

Met while modelling, with no run of their own: a cast of an unsigned value above
the maximum of a signed type wraps, where `docs/ir-completeness.zh-CN.md:117`
says `CastOverflow` and `docs/errors.md:37` "Cast value does not fit target
type" (`Departs` and `GivenInstead` of `Operators`); the program reads a
statement from the front of the data and ignores bytes that follow it, where
`error.rs:103` and `docs/errors.md:40` name trailing bytes as
`InvalidInstructionData` (`DecodedIsCanonical` says what holds); a transaction
that prints the least I64 or I128 panics in the printer although it evaluated well; `pseudocode.rs:1` promises a
line per statement, but lines over 480 bytes, and the lines of StakeDeactivate
and StakeDelegateStake (`structured_cpi_patch.rs:173`), are dropped; the parsers
name the code of any program that has 6000 to 6006 or, in hexadecimal form, the
same low byte; the TypeScript
and Go builders give a step all accounts to the end of the list, while
`docs/rust-integration.md:142` says program and inner accounts only;
`structured_cpi_patch.rs:22` says Allocate's space is a u32 and the code reads a
u64; `docs/implementation.md` and `docs/raw-cpi-patches.md` count structured
tags 0 to 32 where the enum has 34 variants.

## 7. What is not modelled

* The Solana runtime, and the programs that Ifx invokes: external.  Modelled of
  the runtime: rollback, stack height, the rule against indirect re-entry,
  account locks (transactions on a Frame are serial).  The borrow check of
  `invoke` is left out: no step of a model holds a borrow across another.
* In `Statements` the Frame is valid and large enough, all accounts of a let may
  fail to load, and nobody writes the Frame between two statements: those are
  `FrameProgram`'s, `LetBatch`'s and `Orchestration`'s.
* The Go SDK's encoder tables; golden byte strings in the repository compare
  them with the others.
* The characters of a log line and the regular expressions of the parsers.
* The computation of derived addresses; they are compared as values.
* Signer and writable flags of account lists, compute units, rent.
* Two `LetBuilder`s used in turn on one scratch (TypeScript, Go): the planner
  emits batches in the order they were planned.
* IDL, deployment scripts, bundles, examples, chain readers.

## 8. Plan

Groups 1 to 5 exist.

1. *Core*: `FrameTape`, `FrameProgram`, `FrameNote`, `FrameSSA`, their runs and
   proofs.
2. *Users of the core*: `Planner`, `Orchestration`, with proofs.
3. *Computation and CPI*: `Operators` and `Expressions` with `Floats`, `LetBatch`
   with `AccountLoads`, `CpiSteps`, with proofs.
4. *The way of a statement*: `Terms`, `Wire`, `Statements`, with proofs, the
   round trip of the codecs in both directions among them.
5. *Proofs*: every invariant and action property of the passing runs.
6. *Composition*, next: `Planner` and `Orchestration` over `FrameProgram` in
   place of `FrameSSA`, by the refinement theorem; a promise for `LetBatch`
   (every let is one atomic read of the ledger) as an abstract specification.
7. *Breadth*: the Go SDK's tables as a third writer; the Rust and Go planners in
   a passing run with the properties they do satisfy; two builders on one
   scratch; address flags in `CpiSteps`.
