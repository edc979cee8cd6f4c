SPECIFICATION CpiSpec
CONSTANTS
  a = a
  b = b
  System = System
  Token = Token
  Token2022 = Token2022
  Stake = Stake
  Account <- MCAccount
  Width <- MCWidth
  Client <- MCInferred
INVARIANT
  TemplateKept
CHECK_DEADLOCK FALSE
