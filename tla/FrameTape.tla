------------------------------- MODULE FrameTape -------------------------------
(***************************************************************************)
(* The Frame account and the operations of the program on its bytes.       *)
(*                                                                         *)
(* A Frame holds one session of SSA bindings.  The bindings are records    *)
(* [tag : 1 byte][payload : Size[ty] bytes] appended to `tape`, and        *)
(* `payload_at[i]` is the offset of the payload of binding i.  A reset is  *)
(* lazy: it zeroes `cursor` and `index_count` and leaves the bytes of the  *)
(* tape and of the table as they were, so every read depends on these two  *)
(* fields to keep old bytes out of reach.                                  *)
(*                                                                         *)
(* This module has no state: it defines the operations as functions of a   *)
(* Frame record, for FrameProgram and the proofs to use.                   *)
(***************************************************************************)
EXTENDS Integers

CONSTANTS
  ValueType,        \* primitive types a binding can have
  Size,             \* Size[ty]: payload bytes of ty
  Tag,              \* Tag[ty]: the type tag byte written before a payload
  Byte,             \* the values of one byte
  Key,              \* public keys
  NoFrame,          \* the account does not exist (or has been closed)
  MaxTapeLen,       \* MAX_FRAME_TAPE_LEN
  MaxBindingIndex,  \* MAX_BINDING_INDEX
  U8, U16, U64      \* number of values of a u8, a u16 and a u64

ASSUME TypesAssumption ==
  /\ Byte \subseteq Nat /\ 0 \in Byte
  /\ Size \in [ValueType -> Nat \ {0}]
  /\ Tag \in [ValueType -> Byte]
  /\ \A s, t \in ValueType : Tag[s] = Tag[t] => s = t

ASSUME WidthsAssumption ==
  /\ U8 \in Nat /\ U16 \in Nat /\ U64 \in Nat \ {0}
  /\ MaxTapeLen \in Nat /\ MaxTapeLen < U16
  /\ MaxBindingIndex \in Nat /\ MaxBindingIndex <= U8

MinTapeLen == 1

-----------------------------------------------------------------------------
(* The account.  `tape_len` is the length prefix of the tape vector, which *)
(* FrameLayout::parse compares with the account's length on every access.  *)

TapeLens == MinTapeLen .. MaxTapeLen

\* Payload bytes, in the order they are stored.
Payload(ty) == [1 .. Size[ty] -> Byte]

FrameRecord ==
  [ authority   : Key,
    cursor      : 0 .. MaxTapeLen,
    index_count : 0 .. MaxBindingIndex,
    index_cap   : 0 .. MaxBindingIndex,
    generation  : 0 .. U64 - 1,
    payload_at  : UNION { [0 .. n - 1 -> 0 .. U16 - 1] : n \in 0 .. MaxBindingIndex },
    tape_len    : TapeLens,
    tape        : UNION { [0 .. n - 1 -> Byte] : n \in TapeLens } ]

\* Slip: a table sized for records of three bytes.
WastefulCap(n) == IF n \div 3 >= MaxBindingIndex THEN MaxBindingIndex ELSE n \div 3

index_cap_for_tape_len(n) ==
  IF n \div 2 >= MaxBindingIndex THEN MaxBindingIndex ELSE n \div 2

\* The account after Frame::init.
InitFrame(authority, tape_len) ==
  LET cap == index_cap_for_tape_len(tape_len) IN
  [ authority   |-> authority,
    cursor      |-> 0,
    index_count |-> 0,
    index_cap   |-> cap,
    generation  |-> 0,
    payload_at  |-> [i \in 0 .. cap - 1 |-> 0],
    tape_len    |-> tape_len,
    tape        |-> [o \in 0 .. tape_len - 1 |-> 0] ]

\* u64::wrapping_add(1).
WrappingInc(g) == IF g + 1 = U64 THEN 0 ELSE g + 1

\* Slips: a reset that keeps the count, and one that keeps the generation.
ResetKeepsCount(f) == [f EXCEPT !.generation = WrappingInc(@), !.cursor = 0]
ResetKeepsGeneration(f) == [f EXCEPT !.cursor = 0, !.index_count = 0]

reset_session(f) ==
  [f EXCEPT !.generation = WrappingInc(@), !.cursor = 0, !.index_count = 0]

-----------------------------------------------------------------------------
(* Appending a binding.                                                    *)

\* Where the payload of a record planned at `cursor` starts; its tag is at
\* `cursor`.  The u32 additions of the code cannot overflow: a cursor never
\* exceeds MaxTapeLen.
plan_payload_offset(cursor) == cursor + 1

\* Slip: the end of a record without its tag byte.
EndWithoutTag(cursor, ty) == cursor + Size[ty]

RecordEnd(cursor, ty) == plan_payload_offset(cursor) + Size[ty]

\* Slip: append without the index check.
OutcomeWithoutCap(f, ty) ==
  IF RecordEnd(f.cursor, ty) > f.tape_len THEN "TapeOutOfBounds" ELSE "Ok"

\* What append_value answers, in the order of its checks.
AppendOutcome(f, ty) ==
  IF f.index_count >= f.index_cap THEN "IndexCapReached"
  ELSE IF RecordEnd(f.cursor, ty) > f.tape_len THEN "TapeOutOfBounds"
  ELSE IF f.index_count >= U8 THEN "IndexCapReached"
  ELSE "Ok"

\* The bytes of a tape with the record of (ty, bytes) written at `cursor`.
WriteRecord(tape, cursor, ty, bytes) ==
  LET pay == plan_payload_offset(cursor) IN
  [o \in DOMAIN tape |->
     IF o = cursor THEN Tag[ty]
     ELSE IF o \in pay .. pay + Size[ty] - 1 THEN bytes[o - pay + 1]
     ELSE tape[o]]

append_value(f, ty, bytes) ==
  [f EXCEPT !.tape = WriteRecord(@, f.cursor, ty, bytes),
            !.payload_at = [@ EXCEPT ![f.index_count] = plan_payload_offset(f.cursor) % U16],
            !.cursor = RecordEnd(f.cursor, ty),
            !.index_count = @ + 1]

-----------------------------------------------------------------------------
(* Reading binding i.                                                      *)

IsTag(b) == \E t \in ValueType : Tag[t] = b

TypeOfTag(b) == CHOOSE t \in ValueType : Tag[t] = b

\* The stored type of binding i, when its tag byte decodes.
StoredType(f, i) == TypeOfTag(f.tape[f.payload_at[i] - 1])

\* What read_value_type answers for the wire index i.
ReadTypeOutcome(f, i) ==
  IF i >= f.index_count THEN "InvalidValueIndex"
  ELSE IF f.payload_at[i] < 1 THEN "InvalidValueIndex"
  ELSE IF f.payload_at[i] - 1 >= f.tape_len THEN "TapeOutOfBounds"
  ELSE IF ~ IsTag(f.tape[f.payload_at[i] - 1]) THEN "InvalidValueTypeTag"
  ELSE "Ok"

\* What read_bytes answers for the wire index i read as type ty.
ReadOutcome(f, i, ty) ==
  IF ReadTypeOutcome(f, i) # "Ok" THEN ReadTypeOutcome(f, i)
  ELSE IF StoredType(f, i) # ty THEN "LoadTypeMismatch"
  ELSE IF f.payload_at[i] + Size[ty] > f.tape_len THEN "TapeOutOfBounds"
  ELSE "Ok"

\* The payload slice read_bytes copies out.
ReadBytes(f, i, ty) == [k \in 1 .. Size[ty] |-> f.tape[f.payload_at[i] + k - 1]]

=============================================================================
