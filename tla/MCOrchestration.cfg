SPECIFICATION OrchestrationSpec
CONSTANTS
  alice = alice
  pda = pda
  zero = zero
  NoFrame = NoFrame
  NoType = NoType
  ValueType <- MCValueType
  Size <- MCSize
  Byte <- MCByte
  Key <- MCKey
  Users <- MCUsers
  DefaultKey = zero
  Payer = alice
  Amount = "U64"
  MaxTapeLen = 4
  MaxBindingIndex = 2
  U8 = 2
  U64 = 1
  MaxArm = 2
  MaxConds = 2
  MaxHeight = 3
INVARIANTS
  OrchestrationInv
  WaitingIsCurrent
  CheckedIsUsed
  GuardsAreTrue
PROPERTIES
  FrozenWhileCalling
