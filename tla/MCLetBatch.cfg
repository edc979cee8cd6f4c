SPECIFICATION LetBatchSpec
CONSTANTS
  acct = acct
  mint = mint
  Frame = Frame
  Ifx = Ifx
  None = None
  Other <- MCAccount
  AccountState <- MCAccountState
  BoundKind <- MCBoundKind
  AtaOf <- MCAtaOf
  NewerFrom <- MCNewerFrom
  MaxRemaining = 2
  MaxTape = 3
  MaxEpoch = 1
INVARIANTS
  LetBatchInv
  LoadIsMeaning
  CacheIsTransparent
  BatchIsSnapshot
