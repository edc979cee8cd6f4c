SPECIFICATION Spec
CONSTANTS
  Modulus <- MCModulus
  BpsDenom = 100
  Base = 72
  Width <- MCWidth
  Data <- MCData
  Clients <- MCClients
  Menu <- MCMenu
  MaxLine = 16
INVARIANTS
  StatementsTypeOK
  SentIsDecoded
  DecodedIsCanonical
  LogIsTrue
  GuardsDecide
  OnlyLeastAborts
  ErrorIsNamed
