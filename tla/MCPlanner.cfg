SPECIFICATION PlannerSpec
CONSTANTS
  alice = alice
  pda = pda
  zero = zero
  vault = vault
  pool = pool
  NoFrame = NoFrame
  NoType = NoType
  ValueType <- MCValueType
  Size <- MCSize
  Byte <- MCByte
  Key <- MCKey
  Users <- MCUsers
  Account <- MCAccount
  Field <- MCField
  Content <- MCContent
  DefaultKey = zero
  Payer = alice
  Sdk = {"ts"}
  TapeLen = 7
  MaxTapeLen = 7
  MaxBindingIndex = 2
  U8 = 2
  U64 = 1
  MaxUnit = 4
INVARIANTS
  PlannerTypeOK
  PlanFitsTape
  PlanFitsIndex
  PlanReads
PROPERTIES
  PlannedIsBound
