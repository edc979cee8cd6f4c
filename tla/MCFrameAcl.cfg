SPECIFICATION NoteSpec
CONSTANTS
  alice = alice
  bob = bob
  pda = pda
  zero = zero
  NoFrame = NoFrame
  NoKey = NoKey
  NoType = NoType
  ValueType <- MCValueType
  Size <- MCSize
  Tag <- MCTag
  Byte <- MCByte
  Key <- MCKey
  Users <- MCUsers
  DefaultKey = zero
  Payer = alice
  MaxTapeLen = 6
  MaxBindingIndex = 2
  U8 = 2
  U16 = 7
  U64 = 4
  MaxIxPerTx = 2
INVARIANTS
  TypeOK
  IInv
  ForeignTxBounded
  PairNamesSession
PROPERTIES
  CapHonest
