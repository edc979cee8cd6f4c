SPECIFICATION Spec
CONSTANTS
  alice = alice
  zero = zero
  NoFrame = NoFrame
  NoKey = NoKey
  NoType = NoType
  ValueType <- MCValueType
  Size <- MCSize
  Tag <- MCTag
  Byte <- MCByte
  Key <- MCKey
  Users <- MCUsers
  DefaultKey = zero
  Payer = alice
  MaxTapeLen = 5
  MaxBindingIndex = 2
  U8 = 3
  U16 = 6
  U64 = 3
  MaxIxPerTx = 2
INVARIANTS
  Packed
PROPERTIES
  ImplementsSSA
