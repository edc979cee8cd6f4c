SPECIFICATION CpiSpec
CONSTANTS
  a = a
  b = b
  System = System
  Token = Token
  Token2022 = Token2022
  Stake = Stake
  Account <- MCAccount
  Width <- MCWidth
  Client <- MCClient
INVARIANTS
  CpiInv
  AccountsAreTemplates
  StructuredIsForProgram
  PatchedAsMeant
  BuiltIsAccepted
CHECK_DEADLOCK FALSE
