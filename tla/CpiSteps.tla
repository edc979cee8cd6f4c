-------------------------------- MODULE CpiSteps --------------------------------
(***************************************************************************)
(* CPI steps from end to end: a client builds the steps of an ifx_if_else  *)
(* arm from official instructions and from values bound in the Frame (the  *)
(* builders of the three SDKs), and the program slices the accounts of     *)
(* each step, makes its data and invokes it (patched_cpi.rs, assemble.rs). *)
(*                                                                         *)
(* Data is modelled by provenance.  A value is where it comes from:        *)
(* <<"frame", i>> is the value bound at index i, <<"template", j>> what    *)
(* field j of the official instruction holds, <<"literal", j>> a literal   *)
(* that a patch carries for field j.  Instruction data is a sequence of    *)
(* cells <<value, k>>, the k-th byte of a value; a discriminator is one    *)
(* cell, whatever its width.                                               *)
(***************************************************************************)
EXTENDS Integers, SequencesExt

CONSTANTS
  System, Token, Token2022, Stake,  \* program ids with a structured registry
  Account,       \* the other keys
  Width,         \* bytes of a type, to scale: [type -> Nat \ {0}]
  Client         \* the clients of an instance, see ClientType

Program == {System, Token, Token2022, Stake}

\* A client has an SDK, values bound in the Frame (their types), official
\* instructions to start from, variants it names itself, slices it sets by
\* hand, and bounds on the steps of the arm and on the accounts it lists.
ClientType(c) ==
  /\ c.sdk \in {"ts", "rust", "go"}
  /\ c.types \in Seq({"u8", "u16", "u64", "key"})
  /\ c.maxSteps \in Nat /\ c.maxList \in Nat

-----------------------------------------------------------------------------
(* Instructions and the registry of structured patches.                    *)

Field(t) == [ty |-> t, opt |-> FALSE]
OptField(t) == [ty |-> t, opt |-> TRUE]   \* a COption

\* The fields of an instruction's data, by the shape of its patch.
Fields ==
  [ amount   |-> <<Field("u64")>>,
    multisig |-> <<Field("u8")>>,
    checked  |-> <<Field("u64"), Field("u8")>>,
    create   |-> <<Field("u64"), Field("u64"), Field("key")>>,
    fee      |-> <<Field("u64"), Field("u8"), Field("u64")>>,
    set_fee  |-> <<Field("u16"), Field("u64")>>,
    mint     |-> <<Field("u8"), Field("key"), OptField("key")>>,
    unwrap   |-> <<OptField("u64")>>,
    unit     |-> << >> ]

\* StructuredCpiPatch: its 34 variants by program and discriminator.  The fee
\* extension of Token-2022 has a two-byte discriminator <<26, sub>>.
TransferCheckedWithFee == 2601
SetTransferFee == 2605
Registry ==
  [program : {System}, code : {2, 8}, shape : {"amount"}]
  \cup [program : {System}, code : {0}, shape : {"create"}]
  \cup [program : {Token, Token2022}, code : {3, 4, 7, 8, 23}, shape : {"amount"}]
  \cup [program : {Token, Token2022}, code : 12 .. 15, shape : {"checked"}]
  \cup [program : {Token, Token2022}, code : {0, 20}, shape : {"mint"}]
  \cup [program : {Token, Token2022}, code : {2}, shape : {"multisig"}]
  \cup [program : {Token2022}, code : {TransferCheckedWithFee}, shape : {"fee"}]
  \cup [program : {Token2022}, code : {SetTransferFee}, shape : {"set_fee"}]
  \cup [program : {Stake}, code : {3, 4}, shape : {"amount"}]
  \cup [program : {Stake}, code : {2, 5}, shape : {"unit"}]
  \cup [program : {Token}, code : {45}, shape : {"unwrap"}]

\* An official instruction is a variant, or one the registry lacks, with keys.
ASSUME CpiStepsAssumption ==
  /\ Cardinality(Registry) = 34
  /\ Width \in [{"u8", "u16", "u64", "key"} -> Nat \ {0}]
  /\ Account \cap Program = {}
  /\ \A c \in Client :
       ClientType(c) /\ c.variants \subseteq Registry /\ c.places \subseteq Nat \X Nat
  /\ \A c \in Client : \A t \in c.templates :
       t.program \in Program /\ t.shape \in DOMAIN Fields /\ t.keys \in Seq(Account)

\* Where each field of a patch may come from (structured_cpi_payload.rs): at
\* least one field from the Frame; the owner of a new account is not in the
\* patch.
FromFrameOrLiteral(n) ==
  [1 .. n -> {"frame", "literal"}] \ {[j \in 1 .. n |-> "literal"]}

Sources ==
  [ amount   |-> {<<"frame">>},
    multisig |-> {<<"frame">>},
    checked  |-> FromFrameOrLiteral(2),
    create   |-> {Append(s, "default") : s \in FromFrameOrLiteral(2)},
    fee      |-> FromFrameOrLiteral(3),
    set_fee  |-> FromFrameOrLiteral(2),
    mint     |-> {<<"frame", a, z>> : a \in {"frame", "literal"},
                                      z \in {"frame", "literal", "none"}},
    unwrap   |-> {<<"frame">>, <<"none">>},
    unit     |-> {<< >>} ]

Index == 0 .. 1

Values(source, j) ==
  IF source = "frame" THEN {<<"frame", i>> : i \in Index} ELSE {<<source, j>>}

\* The patches of a shape, as the value of each field.
PatchesOf(shape) ==
  LET n == Len(Fields[shape])
      any == UNION {Values(s, j) : s \in {"frame", "literal", "none", "default"}, j \in 1 .. n}
  IN {v \in [1 .. n -> any] :
        \E s \in Sources[shape] : \A j \in 1 .. n : v[j] \in Values(s[j], j)}

Patches == [shape \in DOMAIN Fields |-> PatchesOf(shape)]

\* Byte overlays at the offsets of some fields of a template; none of them
\* for a static step.
Overlays ==
  [shape \in DOMAIN Fields |->
    [1 .. Len(Fields[shape]) -> {<<"template", 0>>} \cup Values("frame", 0)]]

Unpatched(shape) == [j \in 1 .. Len(Fields[shape]) |-> <<"template", 0>>]

Cells(v, ty) == [k \in 1 .. Width[ty] |-> <<v, k>>]
Tag(n) == <<<< <<"flag", n>>, 1>>>>

FieldCells(v, f) ==
  IF v[1] = "none" THEN Tag(0)
  ELSE IF f.opt THEN Tag(1) \o Cells(v, f.ty) ELSE Cells(v, f.ty)

\* The data of an instruction: discriminator, then fields in order.
Encode(code, shape, vals) ==
  <<<< <<"code", code>>, 1>>>>
    \o FlattenSeq([j \in 1 .. Len(vals) |-> FieldCells(vals[j], Fields[shape][j])])

\* Where field j starts (bytes before it), past the tag of a COption.
OffsetOf(shape, vals, j) ==
  Len(Encode(0, shape, SubSeq(vals, 1, j - 1))) + (IF Fields[shape][j].opt THEN 1 ELSE 0)

-----------------------------------------------------------------------------
VARIABLES
  client,     \* who builds the arm
  remaining,  \* the account list that the steps share
  steps,      \* the steps built
  phase,      \* "building", "running", "done" or the error of the transaction
  invoked     \* the instructions the program has invoked, in order

cpiVars == <<client, remaining, steps, phase, invoked>>

sdk == client.sdk
types == client.types

(* Building a step: resolveCpiRemaining, resolve_cpi_remaining, Build.     *)

\* Offset of a program id in the list: its first occurrence.
StartOf(t, list) == SelectInSeq(list, LAMBDA k : k = t.program) - 1

\* Slip: the accounts of the template are not compared.
NoKeysCompared(kind, t, start, list) == TRUE

\* The accounts after the program id are those of the template.  The
\* structured builder of the Go SDK only counts them.
KeysMatch(kind, t, start, list) ==
  IF sdk = "go" /\ kind = "structured" THEN TRUE
  ELSE SubSeq(list, start + 2, start + 1 + Len(t.keys)) = t.keys

\* Slip: the length is counted from the start of the list.
LengthOfList(t, start, list) == Len(list)

\* Rust gives a step its own accounts, TypeScript and Go all that follow.
LengthOf(t, start, list) ==
  IF sdk = "rust" THEN 1 + Len(t.keys) ELSE Len(list) - start

Resolves(kind, t, list) ==
  LET start == StartOf(t, list) IN
    /\ start >= 0
    /\ Len(list) - start >= 1 + Len(t.keys)
    /\ KeysMatch(kind, t, start, list)

\* Slip: the two token programs share their variants.
InferOneTokenProgram(t) ==
  LET p == IF t.program = Token2022 THEN Token ELSE t.program IN
    {v \in Registry : v.program = p /\ v.code = t.code}

\* inferStructuredCpiPatchTag: no variant or one; InitializeMultisig2 (19)
\* has that of InitializeMultisig (2).
Infer(t) ==
  LET code == IF t.code = 19 /\ t.program \in {Token, Token2022} THEN 2 ELSE t.code IN
    {v \in Registry : v.program = t.program /\ v.code = code}

\* A client gives no list for a first step, and the builder makes one.
ListFor(t) == IF remaining = <<>> THEN <<t.program>> \o t.keys ELSE remaining

\* A step over the template's accounts, with one of the given values for its
\* fields.
Build(kind, t, v, patches, inferred) ==
  LET list == ListFor(t)
      start == StartOf(t, list)
  IN /\ phase = "building" /\ Len(steps) < client.maxSteps
     /\ Resolves(kind, t, list)
     /\ remaining' = list
     /\ \E vals \in patches :
          steps' = Append(steps,
            [ kind |-> kind, template |-> t, variant |-> v, vals |-> vals,
              inferred |-> inferred, placed |-> FALSE,
              start |-> start, len |-> LengthOf(t, start, list) ])
     /\ UNCHANGED <<client, phase, invoked>>

AsVariant(t) == [program |-> t.program, code |-> t.code, shape |-> t.shape]

\* staticCpi: the template's data as it is.
BuildStatic(t) == Build("static", t, AsVariant(t), {Unpatched(t.shape)}, FALSE)

\* RawCpiBuilder: the template's data with overlays.
BuildRaw(t) ==
  Build("raw", t, AsVariant(t), Overlays[t.shape] \ {Unpatched(t.shape)}, FALSE)

\* StructuredCpiBuilder: the variant is inferred, which the Rust SDK does not
\* do, or named by the client and then not compared with the template.
BuildInferred(t) ==
  sdk # "rust" /\ \E v \in Infer(t) : Build("structured", t, v, Patches[v.shape], TRUE)

BuildNamed(t, v) == Build("structured", t, v, Patches[v.shape], FALSE)

\* The client extends the list, for later steps or for other accounts.
AddAccount(k) ==
  /\ phase = "building" /\ Len(steps) < client.maxSteps /\ Len(remaining) < client.maxList
  /\ remaining' = Append(remaining, k)
  /\ UNCHANGED <<client, steps, phase, invoked>>

\* The client places the last step by hand (structuredCpiStep), as one must
\* who merges the lists of steps built apart.
PlaceByHand(start, len) ==
  /\ phase = "building" /\ steps # <<>> /\ ~ steps[Len(steps)].placed
  /\ steps' = [steps EXCEPT ![Len(steps)] =
                 [@ EXCEPT !.start = start, !.len = len, !.placed = TRUE]]
  /\ UNCHANGED <<client, remaining, phase, invoked>>

Send ==
  /\ phase = "building" /\ steps # <<>>
  /\ phase' = "running"
  /\ UNCHANGED <<client, remaining, steps, invoked>>

-----------------------------------------------------------------------------
(* Running the arm: invoke_cpi, step by step.                              *)

NextStep == steps[Len(invoked) + 1]

InRange(s) == s.start + s.len <= Len(remaining) /\ s.start < s.start + s.len

Slice(s) == SubSeq(remaining, s.start + 1, s.start + s.len)

Bound(v) == v[2] < Len(types)
TypeAt(v) == types[v[2] + 1]

\* Slip: the type of the bound value is not compared (read_typed).
ReadAnyType(v, f) == IF v[1] = "frame" /\ ~ Bound(v) THEN "InvalidValueIndex" ELSE "Ok"

\* A typed read of the Frame (read_typed); other values are in the patch.
ReadTyped(v, f) ==
  IF v[1] # "frame" THEN "Ok"
  ELSE IF ~ Bound(v) THEN "InvalidValueIndex"
  ELSE IF TypeAt(v) # f.ty THEN "LoadTypeMismatch" ELSE "Ok"

\* The first error of a sequence of results.
FirstError(results) ==
  LET p == SelectInSeq(results, LAMBDA r : r # "Ok") IN IF p = 0 THEN "Ok" ELSE results[p]

\* Slip: any program of the registry will do.
ProgramKnown(s) == IF Slice(s)[1] \in Program THEN "Ok" ELSE "InvalidStructuredCpiProgram"

ProgramError(s) ==
  IF Slice(s)[1] = s.variant.program THEN "Ok" ELSE "InvalidStructuredCpiProgram"

\* Errors of assemble_structured_cpi: System and Stake compare the program id
\* before they read values, the token programs after.
AssembleError(s) ==
  LET reads == [j \in 1 .. Len(s.vals) |-> ReadTyped(s.vals[j], Fields[s.variant.shape][j])]
  IN FirstError(IF s.variant.program \in {System, Stake}
                THEN <<ProgramError(s)>> \o reads ELSE Append(reads, ProgramError(s)))

\* Data of a structured step; a new account's owner is the default key.
Assemble(s) == Encode(s.variant.code, s.variant.shape, s.vals)

\* The data of the template, whose fields hold values of its own.
TemplateData(s) ==
  Encode(s.template.code, s.template.shape, [j \in 1 .. Len(s.vals) |-> <<"template", j>>])

\* Overlays of a raw step in order, each as wide as the type of its value.
OverlayAt(s, j) ==
  OffsetOf(s.template.shape, [i \in 1 .. Len(s.vals) |-> <<"template", i>>], j)

OverlayError(s) ==
  FirstError([j \in 1 .. Len(s.vals) |->
    IF s.vals[j][1] # "frame" THEN "Ok"
    ELSE IF ~ Bound(s.vals[j]) THEN "InvalidValueIndex"
    ELSE IF OverlayAt(s, j) + Width[TypeAt(s.vals[j])] > Len(TemplateData(s))
         THEN "PatchDataOutOfRange" ELSE "Ok"])

\* apply_generic_patches: a byte is that of the last overlay that covers it.
Overlaid(s) ==
  LET Covers(j, n) == /\ s.vals[j][1] = "frame"
                      /\ n - OverlayAt(s, j) \in 1 .. Width[TypeAt(s.vals[j])]
  IN [n \in 1 .. Len(TemplateData(s)) |->
        LET over == {j \in 1 .. Len(s.vals) : Covers(j, n)} IN
          IF over = {} THEN TemplateData(s)[n]
          ELSE LET j == CHOOSE j \in over : \A i \in over : i <= j
               IN <<s.vals[j], n - OverlayAt(s, j)>>]

\* What stops a step before it is invoked.
StepError(s) ==
  CASE s.kind = "static" -> IF InRange(s) THEN "Ok" ELSE "InvalidAccountRange"
    [] s.kind = "raw" -> FirstError(<<OverlayError(s),
                           IF InRange(s) THEN "Ok" ELSE "InvalidAccountRange">>)
    [] s.kind = "structured" ->
         IF InRange(s) THEN AssembleError(s) ELSE "InvalidAccountRange"

DataOf(s) ==
  CASE s.kind = "static" -> TemplateData(s)
    [] s.kind = "raw" -> Overlaid(s)
    [] s.kind = "structured" -> Assemble(s)

\* invoke_raw: the first account is the program, the rest its accounts.
Invoke ==
  /\ phase = "running" /\ Len(invoked) < Len(steps)
  /\ IF StepError(NextStep) = "Ok"
     THEN /\ invoked' = Append(invoked,
               [ program |-> Slice(NextStep)[1], keys |-> Tail(Slice(NextStep)),
                 data |-> DataOf(NextStep) ])
          /\ UNCHANGED phase
     ELSE phase' = StepError(NextStep) /\ invoked' = <<>>
  /\ UNCHANGED <<client, remaining, steps>>

\* The invoked program fails: the transaction is rolled back.
CalleeFails ==
  /\ phase = "running" /\ invoked # <<>>
  /\ phase' = "CalleeError" /\ invoked' = <<>>
  /\ UNCHANGED <<client, remaining, steps>>

Finish ==
  /\ phase = "running" /\ Len(invoked) = Len(steps)
  /\ phase' = "done"
  /\ UNCHANGED <<client, remaining, steps, invoked>>

-----------------------------------------------------------------------------
CpiInit ==
  /\ client \in Client
  /\ remaining = <<>> /\ steps = <<>> /\ phase = "building" /\ invoked = <<>>

CpiNext ==
  \/ \E t \in client.templates : BuildStatic(t) \/ BuildRaw(t) \/ BuildInferred(t)
  \/ \E t \in client.templates, v \in client.variants : BuildNamed(t, v)
  \/ \E k \in Account \cup {t.program : t \in client.templates} : AddAccount(k)
  \/ \E p \in client.places : PlaceByHand(p[1], p[2])
  \/ Send \/ Invoke \/ CalleeFails \/ Finish

CpiSpec == CpiInit /\ [][CpiNext]_cpiVars

-----------------------------------------------------------------------------
(* Correctness.                                                            *)

\* Types: a step that no hand has placed lies in the list.
CpiTypeOK ==
  /\ client \in Client /\ remaining \in Seq(Account \cup Program)
  /\ Len(steps) <= client.maxSteps /\ Len(invoked) <= Len(steps)
  /\ \A n \in 1 .. Len(steps) :
       /\ steps[n].kind \in {"static", "raw", "structured"}
       /\ steps[n].template \in client.templates
       /\ ~ steps[n].placed => InRange(steps[n])

\* sdk/src/cpi.ts "validate CPI account slice in `remaining`": a built step
\* invokes the program of its template with the template's accounts, in the
\* template's order, whatever else shares the list and is added to it later.
AccountsAreTemplates ==
  \A n \in 1 .. Len(invoked) :
    ~ steps[n].placed =>
      /\ invoked[n].program = steps[n].template.program
      /\ IsPrefix(steps[n].template.keys, invoked[n].keys)

\* docs/design.md section 6 "on-chain validates program id + patch variant":
\* structured data never reaches a program it was not laid out for, however
\* the step was built or placed.
StructuredIsForProgram ==
  \A n \in 1 .. Len(invoked) :
    steps[n].kind = "structured" => invoked[n].program = steps[n].variant.program

\* The data carries value v in field j of a shape, after the values before it.
Carries(data, shape, vals, j) ==
  LET cells == FieldCells(vals[j], Fields[shape][j])
      before == Len(Encode(0, shape, SubSeq(vals, 1, j - 1)))
  IN SubSeq(data, before + 1, before + Len(cells)) = cells

RightType(shape, vals, j) ==
  vals[j][1] = "frame" => Bound(vals[j]) /\ TypeAt(vals[j]) = Fields[shape][j].ty

\* What a step's client means each field to hold.
Meant(s) ==
  [j \in 1 .. Len(s.vals) |->
    IF s.vals[j][1] \in {"template", "default"} THEN <<"template", j>> ELSE s.vals[j]]

\* A value of the Frame that a structured patch puts in a field is of the
\* field's type (read_typed).
FieldsAreTyped ==
  \A n \in 1 .. Len(invoked) :
    steps[n].kind = "structured" =>
      \A j \in 1 .. Len(steps[n].vals) : RightType(steps[n].variant.shape, steps[n].vals, j)

\* What the data of an invoked step owes to its values.
HoldsMeant(s, data) ==
  LET shape == s.variant.shape
      fields == 1 .. Len(s.vals)
  IN IF s.kind = "structured"
     THEN \A j \in fields : s.vals[j][1] # "default" => Carries(data, shape, s.vals, j)
     ELSE (\A j \in fields : RightType(shape, s.vals, j)) =>
            data = Encode(s.template.code, shape, Meant(s))

\* Every field that a structured patch names holds whole the value it was
\* given, of the field's type; and overlays of the right types are as good:
\* they change their fields and nothing else (apply_generic_patches,
\* read_typed, the pack functions).
PatchedAsMeant ==
  /\ FieldsAreTyped
  /\ \A n \in 1 .. Len(invoked) : HoldsMeant(steps[n], invoked[n].data)

\* Only a slice that was placed by hand, or a variant that the client named,
\* can be out of range or for another program.
PlacesAreAccepted ==
  phase \in {"InvalidAccountRange", "InvalidStructuredCpiProgram"} =>
    \E n \in 1 .. Len(steps) :
      steps[n].placed \/ (steps[n].kind = "structured" /\ ~ steps[n].inferred)

\* Some overlay of a step is of another type than its field.
WrongOverlay(s) ==
  s.kind = "raw" /\ \E j \in 1 .. Len(s.vals) : ~ RightType(s.template.shape, s.vals, j)

\* What a builder accepts the program never refuses for its layout: places are
\* accepted, and only an overlay of another type than its field can run over
\* the end of the data.
BuiltIsAccepted ==
  /\ PlacesAreAccepted
  /\ phase = "PatchDataOutOfRange" => \E n \in 1 .. Len(steps) : WrongOverlay(steps[n])

StepField == {"kind", "template", "variant", "vals", "inferred", "placed", "start", "len"}

\* A step of client c lies on the accounts of its template in a list, unless a
\* hand has placed it.
LiesIn(c, list, s) ==
  /\ DOMAIN s = StepField
  /\ s.start \in Nat /\ s.len \in Nat
  /\ ~ s.placed =>
       /\ s.start + s.len <= Len(list) /\ 1 + Len(s.template.keys) <= s.len
       /\ list[s.start + 1] = s.template.program
       /\ \/ c.sdk = "go" /\ s.kind = "structured"
          \/ \A j \in 1 .. Len(s.template.keys) : list[s.start + 1 + j] = s.template.keys[j]
  /\ s.inferred => s.variant.program = s.template.program

\* The values of a step are those that its builder gives the fields.
Filled(s) ==
  /\ s.variant.shape \in DOMAIN Fields
  /\ s.kind = "structured" => s.vals \in Patches[s.variant.shape]
  /\ s.kind # "structured" =>
       s.variant.shape = s.template.shape /\ s.vals \in Overlays[s.variant.shape]
  /\ s.kind = "static" => s.vals = Unpatched(s.variant.shape)

\* An invoked instruction has the accounts of its step.
InvokedLies(s, i) ==
  InRange(s) /\ i.program = Slice(s)[1] /\ i.keys = Tail(Slice(s))

\* The inductive invariant: where steps lie and what they hold, and what has
\* come of those that were invoked.
CpiInv ==
  /\ CpiTypeOK
  /\ Len(steps) \in Nat /\ steps = [n \in 1 .. Len(steps) |-> steps[n]]
  /\ Len(invoked) \in Nat /\ invoked = [n \in 1 .. Len(invoked) |-> invoked[n]]
  /\ phase = "building" => invoked = <<>>
  /\ \A n \in 1 .. Len(steps) : LiesIn(client, remaining, steps[n]) /\ Filled(steps[n])
  /\ \A n \in 1 .. Len(invoked) : InvokedLies(steps[n], invoked[n])
  /\ StructuredIsForProgram /\ PatchedAsMeant /\ BuiltIsAccepted

\* docs/structured-cpi-patches.md "official instruction + patch": a structured
\* step whose variant was inferred invokes its template's instruction, with
\* the fields of the patch replaced and the others kept.
TemplateKept ==
  \A n \in 1 .. Len(invoked) :
    steps[n].inferred /\ ~ steps[n].placed =>
      invoked[n].data =
        Encode(steps[n].template.code, steps[n].template.shape, Meant(steps[n]))

=============================================================================
