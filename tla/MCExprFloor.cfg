SPECIFICATION ExprSpec
CONSTANTS
  Modulus <- MCModulus
  BpsDenom = 5
  Loads <- MCLoads
  Literals <- MCLiterals
  MaxOperators <- MCMaxOperators
  MaxEvals = 1
INVARIANTS
  DivFloorIsFloor
